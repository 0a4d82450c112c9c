------------------------------- MODULE Codec -------------------------------
(***************************************************************************)
(* The MQTT packet encoder and decoder: src/codec/encode.rs and            *)
(* src/codec/decode.rs, with the byte forms of QoS, subscription options   *)
(* and reason codes of src/protocol/{mod,reason}.rs.                       *)
(*                                                                         *)
(* A packet is a record with its type; an Option field is None or a        *)
(* sequence of one value.  A reason code is its byte.                      *)
(***************************************************************************)
EXTENDS Properties

None == <<>>
Some(v) == <<v>>

(* ProtocolVersion; Unset is the decoder's Option before CONNECT. *)
V311 == 4
V5 == 5
Unset == 0

QoS == 0..2

-----------------------------------------------------------------------------
(* protocol/mod.rs and protocol/reason.rs *)

Bit(byte, k) == (byte \div 2^k) % 2 = 1
Flag(b, value) == IF b THEN value ELSE 0

DefaultOptions(qos) ==
  [qos |-> qos, no_local |-> FALSE, retain_as_published |-> FALSE, retain_handling |-> 0]

to_byte(o) ==
  o.qos + Flag(o.no_local, 4) + Flag(o.retain_as_published, 8) + 16 * o.retain_handling

from_byte(byte) ==
  IF byte % 4 = 3 \/ byte \div 16 > 2
  THEN Refused("InvalidSubscriptionOptions")
  ELSE Got([qos |-> byte % 4, no_local |-> Bit(byte, 2),
            retain_as_published |-> Bit(byte, 3), retain_handling |-> byte \div 16], 1)

Success == 0
UnspecifiedError == 128
NotAuthorized == 135
ReasonCode == {0, 1, 2, 4, 16, 17, 24, 25} \cup 128..162

(* ReasonCode::from_u8 answers Some. *)
from_u8(byte) == byte \in ReasonCode

(* The six return codes of a v3.1.1 CONNACK, in order. *)
V3ConnackCodes == <<Success, 132, 133, 136, 134, NotAuthorized>>

to_v3_connack_code(reason) ==
  IF reason \in {V3ConnackCodes[i] : i \in 1..6}
  THEN (CHOOSE i \in 1..6 : V3ConnackCodes[i] = reason) - 1
  ELSE 5

from_v3_connack_code(code) ==
  IF code <= 5 THEN V3ConnackCodes[code + 1] ELSE UnspecifiedError

-----------------------------------------------------------------------------
(* encode.rs.  Every encoder announces a remaining length it computes from *)
(* the fields, and then writes the fields.                                 *)

Framed(first, remaining_length, body) ==
  <<first>> \o write_variable_int(remaining_length) \o body

SizeWithLength(props) == variable_int_len(encoded_size(props)) + encoded_size(props)

PropsLength(v, props) == IF v = V5 THEN SizeWithLength(props) ELSE 0
PropsBytes(v, props) == IF v = V5 THEN encode_properties(props) ELSE <<>>

OptLength(o) == IF o = None THEN 0 ELSE 2 + Len(o[1])
OptBytes(o) == IF o = None THEN <<>> ELSE write_binary(o[1])

MQTT == <<77, 81, 84, 84>>
MQIsdp == <<77, 81, 73, 115, 100, 112>>

encode_connect(p) ==
  LET v == p.protocol_version
      w == p.will
      remaining_length ==
        6 + 1 + 1 + 2 + PropsLength(v, p.properties) + 2 + Len(p.client_id)
          + (IF w = None THEN 0
             ELSE PropsLength(v, w[1].properties) + 2 + Len(w[1].topic) + 2 + Len(w[1].payload))
          + OptLength(p.username) + OptLength(p.password)
      connect_flags ==
        Flag(p.clean_start, 2)
          + (IF w = None THEN 0 ELSE 4 + 8 * w[1].qos + Flag(w[1].retain, 32))
          + Flag(p.password # None, 64) + Flag(p.username # None, 128)
  IN  Framed(16, remaining_length,
        write_string(MQTT) \o <<v, connect_flags>> \o u16(p.keep_alive)
          \o PropsBytes(v, p.properties) \o write_string(p.client_id)
          \o (IF w = None THEN <<>>
              ELSE PropsBytes(v, w[1].properties) \o write_string(w[1].topic)
                     \o write_binary(w[1].payload))
          \o OptBytes(p.username) \o OptBytes(p.password))

encode_connack(p, v) ==
  Framed(32, 2 + PropsLength(v, p.properties),
    <<Flag(p.session_present, 1),
      IF v = V5 THEN p.reason_code ELSE to_v3_connack_code(p.reason_code)>>
      \o PropsBytes(v, p.properties))

encode_publish(p, v) ==
  Framed(48 + Flag(p.dup, 8) + 2 * p.qos + Flag(p.retain, 1),
    2 + Len(p.topic) + Flag(p.qos # 0, 2) + PropsLength(v, p.properties) + Len(p.payload),
    write_string(p.topic)
      \o (IF p.packet_id = None THEN <<>> ELSE u16(p.packet_id[1]))
      \o PropsBytes(v, p.properties) \o p.payload)

(* What follows the fixed part of an acknowledgement, a DISCONNECT or an   *)
(* AUTH: the reason and the properties are left out when they say nothing. *)
ReasonLength(p, v) ==
  IF v # V5 \/ (p.reason_code = Success /\ is_empty(p.properties)) THEN 0
  ELSE 1 + (IF encoded_size(p.properties) > 0 THEN SizeWithLength(p.properties) ELSE 0)

ReasonBytes(p, v) ==
  IF v # V5 \/ (p.reason_code = Success /\ is_empty(p.properties)) THEN <<>>
  ELSE <<p.reason_code>>
         \o (IF encoded_size(p.properties) > 0 THEN encode_properties(p.properties) ELSE <<>>)

encode_ack(first, p, v) ==
  Framed(first, 2 + ReasonLength(p, v), u16(p.packet_id) \o ReasonBytes(p, v))

encode_puback(p, v) == encode_ack(64, p, v)
encode_pubrec(p, v) == encode_ack(80, p, v)
encode_pubrel(p, v) == encode_ack(98, p, v)
encode_pubcomp(p, v) == encode_ack(112, p, v)

encode_subscribe(p, v) ==
  LET subs == p.subscriptions
  IN  Framed(130,
        2 + PropsLength(v, p.properties)
          + Sum([i \in DOMAIN subs |-> 2 + Len(subs[i].filter) + 1]),
        u16(p.packet_id) \o PropsBytes(v, p.properties)
          \o FlattenSeq([i \in DOMAIN subs |->
               write_string(subs[i].filter)
                 \o <<IF v = V5 THEN to_byte(subs[i].options) ELSE subs[i].options.qos>>]))

encode_suback(p, v) ==
  Framed(144, 2 + PropsLength(v, p.properties) + Len(p.reason_codes),
    u16(p.packet_id) \o PropsBytes(v, p.properties)
      \o [i \in DOMAIN p.reason_codes |->
            IF v = V5 \/ p.reason_codes[i] \in QoS THEN p.reason_codes[i] ELSE UnspecifiedError])

encode_unsubscribe(p, v) ==
  Framed(162,
    2 + PropsLength(v, p.properties) + Sum([i \in DOMAIN p.filters |-> 2 + Len(p.filters[i])]),
    u16(p.packet_id) \o PropsBytes(v, p.properties)
      \o FlattenSeq([i \in DOMAIN p.filters |-> write_string(p.filters[i])]))

encode_unsuback(p, v) ==
  IF v = V5
  THEN Framed(176, 2 + SizeWithLength(p.properties) + Len(p.reason_codes),
         u16(p.packet_id) \o encode_properties(p.properties) \o p.reason_codes)
  ELSE Framed(176, 2, u16(p.packet_id))

encode_disconnect(p, v) == Framed(224, ReasonLength(p, v), ReasonBytes(p, v))

(* AUTH is v5.0 only: for v3.1.1 encode answers an error and writes nothing. *)
encode_auth(p, v) ==
  IF v = V5 THEN Framed(240, ReasonLength(p, v), ReasonBytes(p, v)) ELSE <<>>

encode(p, v) ==
  CASE p.type = "Connect" -> encode_connect(p)
    [] p.type = "ConnAck" -> encode_connack(p, v)
    [] p.type = "Publish" -> encode_publish(p, v)
    [] p.type = "PubAck" -> encode_puback(p, v)
    [] p.type = "PubRec" -> encode_pubrec(p, v)
    [] p.type = "PubRel" -> encode_pubrel(p, v)
    [] p.type = "PubComp" -> encode_pubcomp(p, v)
    [] p.type = "Subscribe" -> encode_subscribe(p, v)
    [] p.type = "SubAck" -> encode_suback(p, v)
    [] p.type = "Unsubscribe" -> encode_unsubscribe(p, v)
    [] p.type = "UnsubAck" -> encode_unsuback(p, v)
    [] p.type = "PingReq" -> <<192, 0>>
    [] p.type = "PingResp" -> <<208, 0>>
    [] p.type = "Disconnect" -> encode_disconnect(p, v)
    [] p.type = "Auth" -> encode_auth(p, v)

-----------------------------------------------------------------------------
(* decode.rs.  A decoder is a chain of steps on a cursor: the buffer, the  *)
(* position, the fields read so far and the first error.  A step on a      *)
(* cursor that has an error leaves it alone, as the ? operator does.       *)

Start(buf) == [buf |-> buf, pos |-> 0, out |-> [f \in {} |-> 0], err |-> NoError]
Ok(c) == c.err = NoError

Check(c, holds, e) == IF Ok(c) /\ ~holds THEN [c EXCEPT !.err = e] ELSE c
Optional(c, cond, next) == IF Ok(c) /\ cond THEN next ELSE c

Put(c, field, v) == IF Ok(c) THEN [c EXCEPT !.out = @ @@ (field :> v)] ELSE c

Read(c, field, r) ==
  IF ~Ok(c) THEN c
  ELSE IF r.err # NoError THEN [c EXCEPT !.err = r.err]
  ELSE [c EXCEPT !.out = @ @@ (field :> r.v), !.pos = @ + r.n]

Left(c) == Len(c.buf) - c.pos

ReadU8(c, field) == Read(c, field, read_u8(c.buf, c.pos))
ReadU16(c, field) == Read(c, field, read_u16(c.buf, c.pos))
ReadString(c, field) == Read(c, field, read_string(c.buf, c.pos))
ReadBinary(c, field) == Read(c, field, read_binary(c.buf, c.pos))
ReadProps(c, field) == Read(c, field, decode_properties(SubSeq(c.buf, c.pos + 1, Len(c.buf))))

ReadPropsV5(c, field, v) == IF v = V5 THEN ReadProps(c, field) ELSE Put(c, field, DefaultProps)

(* One subscription of a SUBSCRIBE. *)
ReadSubscription(c, v) ==
  LET filter  == ReadString(c, "filter")
      named   == Check(filter, filter.out.filter # <<>>, "MalformedPacket")
      byte    == ReadU8(named, "byte")
      options == IF v = V5 THEN from_byte(byte.out.byte)
                 ELSE IF byte.out.byte % 4 = 3 THEN Refused("InvalidQoS")
                 ELSE Got(DefaultOptions(byte.out.byte % 4), 1)
      checked == Check(byte, options.err = NoError, options.err)
  IN  Put(checked, "item", [filter |-> filter.out.filter, options |-> options.v])

(* One filter of an UNSUBSCRIBE. *)
ReadFilter(c) ==
  LET filter == ReadString(c, "item")
  IN  Check(filter, filter.out.item # <<>>, "MalformedPacket")

(* One reason code of a SUBACK or an UNSUBACK. *)
ReadReason(c, field, v) ==
  LET byte == ReadU8(c, field)
      b    == byte.out[field]
  IN  Check(byte, IF v = V5 THEN from_u8(b) ELSE b \in QoS \cup {UnspecifiedError},
            "InvalidReasonCode")

ReadItem(kind, c, v) ==
  CASE kind = "subscription" -> ReadSubscription(c, v)
    [] kind = "filter" -> ReadFilter(c)
    [] kind = "reason" -> ReadReason(c, "item", v)

(* The list at the end of a packet: item after item until the buffer ends. *)
RECURSIVE ReadItems(_, _, _, _)
ReadItems(kind, c, v, items) ==
  IF ~Ok(c) THEN c
  ELSE IF Left(c) = 0 THEN Put(c, "items", items)
  ELSE LET d == ReadItem(kind, [c EXCEPT !.out = [f \in {} |-> 0]], v)
       IN  IF ~Ok(d) THEN d
           ELSE ReadItems(kind, [d EXCEPT !.out = c.out], v, Append(items, d.out.item))

(* What a decoder answers: the packet, or the error. *)
Decoded(c, Packet(_)) == IF Ok(c) THEN Got(Packet(c), c.pos) ELSE Refused(c.err)

ConnectLevel(buf) ==
  LET name  == ReadString(Start(buf), "name")
      named == Check(name, name.out.name \in {MQTT, MQIsdp}, "InvalidProtocolName")
      level == ReadU8(named, "level")
  IN  Check(level, level.out.level \in {3, 4, 5}, "InvalidProtocolVersion")

(* The protocol version is set as soon as its byte is read, whatever the   *)
(* rest of the packet holds; version is the value it replaces.             *)
VersionAfter(buf, version) ==
  LET level == ConnectLevel(buf)
  IN  IF ~Ok(level) THEN version ELSE IF level.out.level = 5 THEN V5 ELSE V311

(* The connect flags: each bit, and the checks on them together. *)
Has(c, k) == Bit(c.out.flags, k)
WillQoS(c) == (c.out.flags \div 8) % 4

LegalFlags(c) ==
  Check(Check(Check(c, ~Has(c, 0) /\ (Has(c, 6) => Has(c, 7)), "InvalidFlags"),
              WillQoS(c) \in QoS, "InvalidQoS"),
        Has(c, 2) \/ (WillQoS(c) = 0 /\ ~Has(c, 5)), "InvalidFlags")

(* The fields whose presence a flag announces. *)
ReadWill(c, v) ==
  Optional(c, Has(c, 2),
    ReadBinary(ReadString(ReadPropsV5(c, "will_properties", v), "will_topic"), "will_payload"))
ReadUsername(c) == Optional(c, Has(c, 7), ReadString(c, "username"))
ReadPassword(c) == Optional(c, Has(c, 6), ReadBinary(c, "password"))

ConnectPacket(c, v) ==
  [type |-> "Connect", protocol_version |-> v, client_id |-> c.out.client_id,
   clean_start |-> Has(c, 1), keep_alive |-> c.out.keep_alive,
   username |-> IF Has(c, 7) THEN Some(c.out.username) ELSE None,
   password |-> IF Has(c, 6) THEN Some(c.out.password) ELSE None,
   will |-> IF Has(c, 2)
            THEN Some([topic |-> c.out.will_topic, payload |-> c.out.will_payload,
                       qos |-> WillQoS(c), retain |-> Has(c, 5),
                       properties |-> c.out.will_properties])
            ELSE None,
   properties |-> c.out.properties]

decode_connect(buf) ==
  LET v    == VersionAfter(buf, Unset)
      head == ReadU16(LegalFlags(ReadU8(ConnectLevel(buf), "flags")), "keep_alive")
      id   == ReadString(ReadPropsV5(head, "properties", v), "client_id")
  IN  Decoded(ReadPassword(ReadUsername(ReadWill(id, v))), LAMBDA c : ConnectPacket(c, v))

(* The optional reason code and properties at the end of a packet. *)
ReadReasonAndProps(c) ==
  LET reason == ReadReason(c, "reason_code", V5)
  IN  IF Ok(c) /\ Left(c) = 0
      THEN Put(Put(c, "reason_code", Success), "properties", DefaultProps)
      ELSE IF Ok(reason) /\ Left(reason) = 0 THEN Put(reason, "properties", DefaultProps)
      ELSE ReadProps(reason, "properties")

decode_connack(flags, buf, v) ==
  LET sp    == ReadU8(Check(Check(Start(buf), flags = 0, "InvalidFlags"),
                            Len(buf) >= 2, "InsufficientData"), "session_present")
      legal == Check(sp, sp.out.session_present < 2, "InvalidFlags")
      v3    == ReadU8(legal, "code")
      all   == IF v = V311
               THEN Put(Put(v3, "reason_code", from_v3_connack_code(v3.out.code)),
                        "properties", DefaultProps)
               ELSE ReadReasonAndProps(legal)
  IN  Decoded(all, LAMBDA c :
        [type |-> "ConnAck", session_present |-> c.out.session_present = 1,
         reason_code |-> c.out.reason_code, properties |-> c.out.properties])

decode_publish(flags, buf, v) ==
  LET qos   == (flags \div 2) % 4
      c0    == Check(Start(buf), qos \in QoS, "InvalidQoS")
      c1    == Check(c0, qos = 0 => ~Bit(flags, 3), "MalformedPacket")
      topic == ReadString(c1, "topic")
      plain == Check(topic, \A i \in DOMAIN topic.out.topic : topic.out.topic[i] \notin {35, 43},
                     "MalformedPacket")
      id    == ReadU16(plain, "id")
      given == IF qos = 0 THEN plain ELSE Check(id, id.out.id # 0, "MalformedPacket")
  IN  Decoded(ReadPropsV5(given, "properties", v), LAMBDA c :
        [type |-> "Publish", dup |-> Bit(flags, 3), qos |-> qos, retain |-> Bit(flags, 0),
         topic |-> c.out.topic, packet_id |-> IF qos = 0 THEN None ELSE Some(c.out.id),
         payload |-> SubSeq(buf, c.pos + 1, Len(buf)), properties |-> c.out.properties])

decode_ack(type, wanted, flags, buf, v) ==
  LET id  == ReadU16(Check(Start(buf), flags = wanted, "InvalidFlags"), "packet_id")
      all == IF v = V5 THEN ReadReasonAndProps(id)
             ELSE Put(Put(id, "reason_code", Success), "properties", DefaultProps)
  IN  Decoded(all, LAMBDA c :
        [type |-> type, packet_id |-> c.out.packet_id,
         reason_code |-> c.out.reason_code, properties |-> c.out.properties])

decode_puback(flags, buf, v) == decode_ack("PubAck", 0, flags, buf, v)
decode_pubrec(flags, buf, v) == decode_ack("PubRec", 0, flags, buf, v)
decode_pubrel(flags, buf, v) == decode_ack("PubRel", 2, flags, buf, v)
decode_pubcomp(flags, buf, v) == decode_ack("PubComp", 0, flags, buf, v)

(* The head of SUBSCRIBE and UNSUBSCRIBE, and the list that may not be empty. *)
ReadRequest(kind, flags, buf, v) ==
  LET id == ReadU16(Check(Start(buf), flags = 2, "InvalidFlags"), "packet_id")
      Filled(c) == Check(c, c.out.items # <<>>, "MalformedPacket")
  IN  Filled(ReadItems(kind, ReadPropsV5(Check(id, id.out.packet_id # 0, "MalformedPacket"),
                                         "properties", v), v, <<>>))

decode_subscribe(flags, buf, v) ==
  Decoded(ReadRequest("subscription", flags, buf, v), LAMBDA c :
    [type |-> "Subscribe", packet_id |-> c.out.packet_id,
     subscriptions |-> c.out.items, properties |-> c.out.properties])

decode_unsubscribe(flags, buf, v) ==
  Decoded(ReadRequest("filter", flags, buf, v), LAMBDA c :
    [type |-> "Unsubscribe", packet_id |-> c.out.packet_id,
     filters |-> c.out.items, properties |-> c.out.properties])

decode_suback(flags, buf, v) ==
  LET head == Check(Check(Start(buf), flags = 0, "InvalidFlags"), Len(buf) >= 3, "InsufficientData")
      all  == ReadItems("reason", ReadPropsV5(ReadU16(head, "packet_id"), "properties", v), v, <<>>)
  IN  Decoded(all, LAMBDA c :
        [type |-> "SubAck", packet_id |-> c.out.packet_id,
         reason_codes |-> c.out.items, properties |-> c.out.properties])

decode_unsuback(flags, buf, v) ==
  LET id  == ReadU16(Check(Start(buf), flags = 0, "InvalidFlags"), "packet_id")
      all == IF v = V5 THEN ReadItems("reason", ReadProps(id, "properties"), v, <<>>)
             ELSE Put(Put(id, "items", <<>>), "properties", DefaultProps)
  IN  Decoded(all, LAMBDA c :
        [type |-> "UnsubAck", packet_id |-> c.out.packet_id,
         reason_codes |-> c.out.items, properties |-> c.out.properties])

decode_disconnect(flags, buf, v) ==
  Decoded(ReadReasonAndProps(Check(Check(Start(buf), flags = 0, "InvalidFlags"),
                                   v = V5 \/ buf = <<>>, "MalformedPacket")), LAMBDA c :
    [type |-> "Disconnect", reason_code |-> c.out.reason_code, properties |-> c.out.properties])

decode_auth(flags, buf, v) ==
  Decoded(ReadReasonAndProps(Check(Check(Start(buf), flags = 0, "InvalidFlags"),
                                   v = V5, "InvalidPacketType")), LAMBDA c :
    [type |-> "Auth", reason_code |-> c.out.reason_code, properties |-> c.out.properties])

decode_ping(type, flags) ==
  IF flags = 0 THEN Got([type |-> type], 0) ELSE Refused("InvalidFlags")

DecodeBody(type, flags, buf, v) ==
  CASE type = 1 -> decode_connect(buf)
    [] type = 2 -> decode_connack(flags, buf, v)
    [] type = 3 -> decode_publish(flags, buf, v)
    [] type = 4 -> decode_puback(flags, buf, v)
    [] type = 5 -> decode_pubrec(flags, buf, v)
    [] type = 6 -> decode_pubrel(flags, buf, v)
    [] type = 7 -> decode_pubcomp(flags, buf, v)
    [] type = 8 -> decode_subscribe(flags, buf, v)
    [] type = 9 -> decode_suback(flags, buf, v)
    [] type = 10 -> decode_unsubscribe(flags, buf, v)
    [] type = 11 -> decode_unsuback(flags, buf, v)
    [] type = 12 -> decode_ping("PingReq", flags)
    [] type = 13 -> decode_ping("PingResp", flags)
    [] type = 14 -> decode_disconnect(flags, buf, v)
    [] type = 15 -> decode_auth(flags, buf, v)
    [] OTHER -> Refused("InvalidPacketType")

(* Decoder::decode: NeedMore is Ok(None), a packet comes with the bytes it *)
(* takes and with the decoder's protocol version afterwards.               *)
NeedMore == [err |-> "NeedMore"]

(* Mutant: the packet size limit is not looked at. *)
NeverTooLarge(remaining_length, max_packet_size) == FALSE

LengthIncomplete(len) == len.err = "InsufficientData"
TooLarge(remaining_length, max_packet_size) == remaining_length > max_packet_size

(* The packet takes total bytes of the buffer, or its decoder refuses it. *)
Whole(r, total) == IF r.err # NoError THEN r ELSE Got(r.v, total)

decode(buf, v, max_packet_size) ==
  LET len   == read_variable_int(buf, 1)
      start == 1 + len.n
      total == start + len.v
      body  == SubSeq(buf, start + 1, total)
  IN  IF Len(buf) < 2 THEN NeedMore
      ELSE IF LengthIncomplete(len) THEN NeedMore
      ELSE IF len.err # NoError THEN len
      ELSE IF TooLarge(len.v, max_packet_size) THEN Refused("PacketTooLarge")
      ELSE IF Len(buf) < total THEN NeedMore
      ELSE Whole(DecodeBody(buf[1] \div 16, buf[1] % 16, body, v), total)

(* protocol_version after decode: only a CONNECT sets it. *)
VersionSeen(buf, v, max_packet_size) ==
  LET len == read_variable_int(buf, 1)
      end == 1 + len.n + len.v
  IN  IF /\ Len(buf) >= 2 /\ len.err = NoError
         /\ ~TooLarge(len.v, max_packet_size) /\ Len(buf) >= end
         /\ buf[1] \div 16 = 1
      THEN VersionAfter(SubSeq(buf, 2 + len.n, end), v)
      ELSE v

=============================================================================
