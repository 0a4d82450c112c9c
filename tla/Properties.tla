----------------------------- MODULE Properties -----------------------------
(***************************************************************************)
(* MQTT v5.0 properties: src/protocol/properties.rs.                       *)
(*                                                                         *)
(* Properties is a function from the identifiers that are present to their *)
(* values (the Option fields that are Some); the two that may repeat, the  *)
(* Vec fields, map to a non-empty sequence.                                *)
(***************************************************************************)
EXTENDS CodecBytes

(* PropertyId with the kind of its value. *)
ByteIds   == {1, 23, 25, 36, 37, 40, 41, 42}
U16Ids    == {19, 33, 34, 35}
U32Ids    == {2, 17, 24, 39}
StringIds == {3, 8, 18, 21, 26, 28, 31}
BinaryIds == {9, 22}
SubscriptionIdentifier == 11
UserProperty == 38
RepeatedIds == {SubscriptionIdentifier, UserProperty}

PropertyId == UNION {ByteIds, U16Ids, U32Ids, StringIds, BinaryIds, RepeatedIds}

ReceiveMaximum == 33
TopicAlias == 35
MaximumPacketSize == 39

(* The order of the fields of the struct, in which encode writes them. *)
FieldOrder ==
  <<1, 2, 3, 8, 9, 11, 17, 18, 19, 21, 22, 23, 24, 25, 26, 28, 31, 33, 34, 35,
    36, 37, 38, 39, 40, 41, 42>>

DefaultProps == [id \in {} |-> <<>>]
is_empty(props) == DOMAIN props = {}

-----------------------------------------------------------------------------
RECURSIVE Sum(_)
Sum(s) == IF s = <<>> THEN 0 ELSE Head(s) + Sum(Tail(s))

(* Mutant: the identifier of a string is not counted. *)
FieldSizeShort(id, v) ==
  CASE id \in ByteIds -> 2
    [] id \in U16Ids -> 3
    [] id \in U32Ids -> 5
    [] OTHER -> 2 + Len(v)

(* The size encoded_size adds for the property id, identifier included. *)
FieldSize(id, v) ==
  CASE id \in ByteIds -> 2
    [] id \in U16Ids -> 3
    [] id \in U32Ids -> 5
    [] id \in StringIds \cup BinaryIds -> 1 + 2 + Len(v)
    [] id = SubscriptionIdentifier ->
         Sum([i \in DOMAIN v |-> 1 + variable_int_len(v[i])])
    [] id = UserProperty ->
         Sum([i \in DOMAIN v |-> 1 + 2 + Len(v[i][1]) + 2 + Len(v[i][2])])

Present(props) == SelectSeq(FieldOrder, LAMBDA id : id \in DOMAIN props)

encoded_size(props) ==
  LET ids == Present(props)
  IN  Sum([i \in DOMAIN ids |-> FieldSize(ids[i], props[ids[i]])])

(* The bytes encode writes for the property id. *)
FieldBytes(id, v) ==
  CASE id \in ByteIds -> <<id, v>>
    [] id \in U16Ids -> <<id>> \o u16(v)
    [] id \in U32Ids -> <<id>> \o v
    [] id \in StringIds -> <<id>> \o write_string(v)
    [] id \in BinaryIds -> <<id>> \o write_binary(v)
    [] id = SubscriptionIdentifier ->
         FlattenSeq([i \in DOMAIN v |-> <<id>> \o write_variable_int(v[i])])
    [] id = UserProperty ->
         FlattenSeq([i \in DOMAIN v |->
                       <<id>> \o write_string(v[i][1]) \o write_string(v[i][2])])

encode_properties(props) ==
  LET ids == Present(props)
  IN  write_variable_int(encoded_size(props))
        \o FlattenSeq([i \in DOMAIN ids |-> FieldBytes(ids[i], props[ids[i]])])

-----------------------------------------------------------------------------
(* A fixed-width value must end before the properties do; texts, binary    *)
(* data and identifiers are only held to the end of the buffer.            *)
Within(end, pos, width, r) ==
  IF pos + width > end THEN Refused("InsufficientData") ELSE r

NonZero(r, zero) ==
  IF r.err = NoError /\ r.v = zero THEN Refused("MalformedPacket") ELSE r

read_pair(buf, pos) ==
  LET key == read_string(buf, pos)
      val == read_string(buf, pos + key.n)
  IN  IF key.err # NoError THEN key
      ELSE IF val.err # NoError THEN val
      ELSE Got(<<key.v, val.v>>, key.n + val.n)

(* The properties whose value may not be zero. *)
ReadNonZero(id, buf, pos, end) ==
  CASE id = SubscriptionIdentifier -> NonZero(read_variable_int(buf, pos), 0)
    [] id \in {ReceiveMaximum, TopicAlias} ->
         NonZero(Within(end, pos, 2, read_u16(buf, pos)), 0)
    [] id = MaximumPacketSize ->
         NonZero(Within(end, pos, 4, read_u32(buf, pos)), <<0, 0, 0, 0>>)

ReadField(id, buf, pos, end) ==
  CASE id \in {SubscriptionIdentifier, ReceiveMaximum, TopicAlias, MaximumPacketSize} ->
         ReadNonZero(id, buf, pos, end)
    [] id \in ByteIds -> Within(end, pos, 1, read_u8(buf, pos))
    [] id \in U16Ids \ {ReceiveMaximum, TopicAlias} ->
         Within(end, pos, 2, read_u16(buf, pos))
    [] id \in U32Ids \ {MaximumPacketSize} -> Within(end, pos, 4, read_u32(buf, pos))
    [] id \in StringIds -> read_string(buf, pos)
    [] id \in BinaryIds -> read_binary(buf, pos)
    [] id = UserProperty -> read_pair(buf, pos)

(* The field after its value was read: a Vec is pushed to, an Option set. *)
WithField(props, id, v) ==
  IF id \notin RepeatedIds THEN props @@ (id :> v)
  ELSE IF id \in DOMAIN props THEN [props EXCEPT ![id] = Append(@, v)]
  ELSE props @@ (id :> <<v>>)

(* The loop over the properties of buf, from pos to end. *)
RECURSIVE DecodeFields(_, _, _, _)
DecodeFields(buf, pos, end, props) ==
  IF pos >= end THEN Got(props, end)
  ELSE LET i   == read_variable_int(buf, pos)
           id  == i.v % 256
           On(r) == IF r.err # NoError THEN r
                    ELSE DecodeFields(buf, pos + i.n + r.n, end, WithField(props, id, r.v))
       IN  IF i.err # NoError THEN i
           ELSE IF id \notin PropertyId THEN Refused("InvalidPropertyId")
           ELSE IF id \in DOMAIN props \ RepeatedIds THEN Refused("DuplicateProperty")
           ELSE On(ReadField(id, buf, pos + i.n, end))

decode_properties(buf) ==
  LET len == read_variable_int(buf, 0)
  IN  IF len.err # NoError THEN len
      ELSE IF Len(buf) < len.n + len.v THEN Refused("InsufficientData")
      ELSE DecodeFields(buf, len.n, len.n + len.v, DefaultProps)

=============================================================================
