-------------------------------- MODULE Wire --------------------------------
(***************************************************************************)
(* One client connection as a stream of bytes: a sender whose packets the  *)
(* code's own encoder writes (src/bridge/client.rs and every peer that     *)
(* speaks the same protocol), TCP, which hands the bytes over in pieces of *)
(* any size, and the reader: the PROXY header of src/proxy where a         *)
(* listener wants one, then read_connect, the read branch of run_connected *)
(* and the decoder they share, of src/broker/connection.                   *)
(*                                                                         *)
(* What the handlers do with a packet is in InboundPublish, Session and    *)
(* ConnectionLifecycle; here a handler only says whether the connection    *)
(* goes on.                                                                *)
(***************************************************************************)
EXTENDS Codec, ProxyHeader

CONSTANTS
  Scripts,    \* what the sender may write
  MaxPiece    \* TCP hands over at most this many bytes, or all there are

(* An item is a packet, or bytes that are no packet. *)
Malformed(bytes) == [type |-> "Malformed", bytes |-> bytes]

ItemBytes(item, v) == IF item.type = "Malformed" THEN item.bytes ELSE encode(item, v)

(* A script is the sender's protocol version, the max_packet_size of the   *)
(* broker's configuration, the items the sender writes in order, the bytes *)
(* of each, and what a proxy writes before them: nothing if the listener   *)
(* has proxy_protocol disabled, else a header, well formed or not.         *)
ProxiedScript(header, valid, v, max, items) ==
  [version |-> v, max |-> max, items |-> items, header |-> header, valid |-> valid,
   bytes |-> [i \in DOMAIN items |-> ItemBytes(items[i], v)]]

Script(v, max, items) == ProxiedScript(<<>>, TRUE, v, max, items)

VARIABLES
  script,      \* the script of this behaviour; never changes
  written,     \* how many items the sender has written
  eof,         \* the sender has closed its side
  stream,      \* bytes written and not yet read
  read_buf,    \* the header read so far, then Connection::read_buf
  version,     \* Decoder::protocol_version
  lost,        \* history: bytes read behind the header, which the accept loop drops
  phase,       \* "proxy" in parse_proxy_header, "connect" in read_connect,
               \* "running" in run_connected, "closed"
  ended,       \* why it is closed; "no" before
  got,         \* packets decoded and handed to the handlers, oldest first
  fresh        \* run_connected has not read from the socket yet

vars == <<script, written, eof, stream, read_buf, version, lost, phase, ended, got, fresh>>

Init ==
  /\ script \in Scripts
  /\ written = 0
  /\ eof = FALSE
  /\ stream = script.header
  /\ read_buf = <<>>
  /\ version = Unset
  /\ lost = <<>>
  /\ phase = IF script.header = <<>> THEN "connect" ELSE "proxy"
  /\ ended = "no"
  /\ got = <<>>
  /\ fresh = TRUE

-----------------------------------------------------------------------------
(* The sender: it may write on without waiting for a CONNACK. *)

Write ==
  /\ ~eof
  /\ written < Len(script.items)
  /\ written' = written + 1
  /\ stream' = stream \o script.bytes[written + 1]
  /\ UNCHANGED <<script, eof, read_buf, version, lost, phase, ended, got, fresh>>

Close ==
  /\ ~eof
  /\ eof' = TRUE
  /\ UNCHANGED <<script, written, stream, read_buf, version, lost, phase, ended, got, fresh>>

-----------------------------------------------------------------------------
(* The reader *)

End(why) == phase' = "closed" /\ ended' = why

(* parse_proxy_header; the accept loop ignores what it has read past the   *)
(* header.                                                                 *)
ReadHeader(n) ==
  LET buf == read_buf \o SubSeq(stream, 1, n)
      r   == parse_proxy_header(buf)
  IN  /\ phase = "proxy"
      /\ n <= Wanted(read_buf)
      /\ stream' = SubSeq(stream, n + 1, Len(stream))
      /\ \/ /\ Wanted(buf) > 0
            /\ read_buf' = buf
            /\ UNCHANGED <<lost, phase, ended>>
         \/ /\ Wanted(buf) = 0
            /\ read_buf' = <<>>
            /\ IF r.err = NoError THEN /\ lost' = r.v
                                      /\ phase' = "connect"
                                      /\ UNCHANGED ended
               ELSE UNCHANGED lost /\ End("proxy")
      /\ UNCHANGED <<script, written, eof, version, got, fresh>>

(* decode on everything read so far. *)
Decode(buf) == decode(buf, version, script.max)

(* read_connect: the first packet must be a CONNECT, which handle_connect  *)
(* accepts or refuses.                                                     *)
ReadConnect(n) ==
  LET buf == read_buf \o SubSeq(stream, 1, n)
  IN  /\ phase = "connect"
      /\ stream' = SubSeq(stream, n + 1, Len(stream))
      /\ version' = VersionSeen(buf, version, script.max)
      /\ \E d \in {Decode(buf)} :
           \/ /\ d.err = "NeedMore"
              /\ read_buf' = buf
              /\ UNCHANGED <<phase, ended, got>>
           \/ /\ d.err = NoError
              /\ read_buf' = SubSeq(buf, d.n + 1, Len(buf))
              /\ got' = Append(got, d.v)
              /\ IF d.v.type # "Connect" THEN End("protocol")
                 ELSE \/ phase' = "running" /\ UNCHANGED ended
                      \/ End("refused")
           \/ /\ d.err \notin {NoError, "NeedMore"}
              /\ read_buf' = buf
              /\ End("decode")
              /\ UNCHANGED got
      /\ UNCHANGED <<script, written, eof, lost, fresh>>

(* handle_packet: a second CONNECT is a protocol error, a DISCONNECT ends  *)
(* the connection, a packet only a server sends is ignored.                *)
Outcome(packet) ==
  CASE packet.type = "Connect" -> "protocol"
    [] packet.type = "Disconnect" -> "shutdown"
    [] OTHER -> "no"

(* Mutant: one packet per read, as src/bridge/client.rs does. *)
DecodeOne(buf, packets) ==
  LET d == Decode(buf)
  IN  IF d.err = "NeedMore" THEN [buf |-> buf, packets |-> packets, ended |-> "no"]
      ELSE IF d.err # NoError THEN [buf |-> buf, packets |-> packets, ended |-> "decode"]
      ELSE [buf |-> SubSeq(buf, d.n + 1, Len(buf)), packets |-> Append(packets, d.v),
            ended |-> Outcome(d.v)]

(* The while loop around decode: every complete packet of the buffer. *)
RECURSIVE DecodeAll(_, _)
DecodeAll(buf, packets) ==
  LET On(d) ==
        LET rest == SubSeq(buf, d.n + 1, Len(buf))
        IN  IF d.err = "NeedMore" THEN [buf |-> buf, packets |-> packets, ended |-> "no"]
            ELSE IF d.err # NoError THEN [buf |-> buf, packets |-> packets, ended |-> "decode"]
            ELSE IF Outcome(d.v) # "no"
            THEN [buf |-> rest, packets |-> Append(packets, d.v), ended |-> Outcome(d.v)]
            ELSE DecodeAll(rest, Append(packets, d.v))
  IN  On(Decode(buf))

ReadRunning(n) ==
  /\ phase = "running"
  /\ stream' = SubSeq(stream, n + 1, Len(stream))
  /\ \E r \in {DecodeAll(read_buf \o SubSeq(stream, 1, n), <<>>)} :
       /\ read_buf' = r.buf
       /\ got' = got \o r.packets
       /\ IF r.ended = "no" THEN UNCHANGED <<phase, ended>> ELSE End(r.ended)
  /\ fresh' = FALSE
  /\ UNCHANGED <<script, written, eof, version, lost>>

(* The socket is at its end: read_buf answers 0. *)
ReadEof ==
  /\ phase # "closed"
  /\ stream = <<>>
  /\ eof
  /\ End("eof")
  /\ UNCHANGED <<script, written, eof, stream, read_buf, version, lost, got, fresh>>

(* A read error, or the timeout of the header, of CONNECT or of the keep   *)
(* alive.                                                                  *)
Fail ==
  /\ phase # "closed"
  /\ End("io")
  /\ UNCHANGED <<script, written, eof, stream, read_buf, version, lost, got, fresh>>

(* Nothing of the connection is left. *)
Done == phase = "closed" /\ UNCHANGED vars

Piece(n) == n <= MaxPiece \/ n = Len(stream)

ReadSome == \E n \in 1..Len(stream) : Piece(n) /\ (ReadHeader(n) \/ ReadConnect(n) \/ ReadRunning(n))

Next ==
  \/ Write
  \/ Close
  \/ ReadSome
  \/ ReadEof
  \/ Fail
  \/ Done

(* The sender writes what it has to write, and the select loop polls the   *)
(* socket whenever bytes or an end of file wait there.  ReadIsFair is      *)
(* WF_vars(ReadSome), with its enabling condition written out: TLC would   *)
(* decode the buffer anew to find it.                                      *)
CanRead == phase # "closed" /\ stream # <<>>

ReadIsFair == <>[]CanRead => []<><<ReadSome>>_vars

Fairness ==
  /\ WF_vars(Write)
  /\ ReadIsFair
  /\ WF_vars(ReadEof)

Spec == Init /\ [][Next]_vars
FairSpec == Spec /\ Fairness

-----------------------------------------------------------------------------
(* What a packet says once it has crossed the wire: everything under v5.0; *)
(* v3.1.1 has no properties, few return codes and only the QoS of a        *)
(* subscription.                                                           *)
V3Will(w) == IF w = None THEN None ELSE Some([w[1] EXCEPT !.properties = DefaultProps])

Expected(p) ==
  IF script.version = V5 \/ p.type \in {"Malformed", "PingReq", "PingResp"} THEN p
  ELSE LET q == [p EXCEPT !.properties = DefaultProps]
       IN  CASE p.type = "Connect" -> [q EXCEPT !.will = V3Will(@)]
             [] p.type = "ConnAck" ->
                  [q EXCEPT !.reason_code = IF @ \in {0, 132, 133, 134, 135, 136} THEN @ ELSE 135]
             [] p.type \in {"PubAck", "PubRec", "PubRel", "PubComp", "Disconnect"} ->
                  [q EXCEPT !.reason_code = Success]
             [] p.type = "Subscribe" ->
                  [q EXCEPT !.subscriptions =
                     [i \in DOMAIN @ |-> [filter |-> @[i].filter, options |->
                        [qos |-> @[i].options.qos, no_local |-> FALSE,
                         retain_as_published |-> FALSE, retain_handling |-> 0]]]]
             [] p.type = "SubAck" ->
                  [q EXCEPT !.reason_codes = [i \in DOMAIN @ |-> IF @[i] <= 2 THEN @[i] ELSE 128]]
             [] p.type = "UnsubAck" -> [q EXCEPT !.reason_codes = <<>>]
             [] OTHER -> q

(* The length of the i-th packet's body, all but the fixed header. *)
BodyLength(i) ==
  LET len == Len(script.bytes[i]) IN IF len < 130 THEN len - 2 ELSE len - 3

(* However TCP cuts the stream, the packets decode hands to the handlers   *)
(* are the packets the encoder was given, in order, none lost, none        *)
(* invented, none changed beyond what v3.1.1 cannot say; and nothing is    *)
(* decoded past a malformed packet.  The connection is closed for a        *)
(* decoding error only when the next item is malformed or larger than      *)
(* max_packet_size, and for a PROXY header only when that is malformed: an *)
(* incomplete packet is waited for, never taken for a broken one.  Reading *)
(* a PROXY header takes no byte of what the client sends behind it, unless *)
(* the header is shorter than the 16 bytes that are read at once: the      *)
(* accept loops drop what parse_proxy_header gives back.                   *)
DecodedIsSent ==
  /\ lost = <<>> =>
       /\ Len(got) <= written
       /\ \A i \in DOMAIN got : got[i] = Expected(script.items[i])
       /\ ended = "decode" =>
            LET next == Len(got) + 1
            IN  script.items[next].type = "Malformed" \/ BodyLength(next) > script.max
  /\ ended = "proxy" => ~script.valid
  /\ lost # <<>> => Len(script.header) < 16

(* The bytes kept for a packet that is not complete never exceed what      *)
(* max_packet_size allows, with a fixed header of at most five bytes, and  *)
(* those of a PROXY header its maximum; and once run_connected has read    *)
(* from the socket, no complete packet waits in read_buf while the loop    *)
(* waits for more bytes.                                                   *)
BufferBounded ==
  /\ phase = "proxy" => Len(read_buf) < MAX_HEADER_SIZE
  /\ phase = "connect" \/ (phase = "running" /\ ~fresh) => Len(read_buf) < 5 + script.max
  /\ phase = "running" /\ ~fresh /\ lost = <<>> /\ Len(got) < written =>
       Len(read_buf) < Len(script.bytes[Len(got) + 1])

(* A connection that still has bytes to read after its CONNECT decodes all *)
(* the sender has written and will write, or ends.                         *)
ReadIsDecoded ==
  (phase = "running" /\ stream # <<>>) ~> (phase = "closed" \/ Len(got) = Len(script.items))

=============================================================================
