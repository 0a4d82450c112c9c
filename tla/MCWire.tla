------------------------------- MODULE MCWire -------------------------------
(***************************************************************************)
(* Scripts for Wire: every packet type under both versions, every property *)
(* and the boundaries of the variable byte integers.                       *)
(***************************************************************************)
EXTENDS Wire

A == <<97>>
AB == <<97, 47, 98>>
Long == [i \in 1..125 |-> 120]

Connect(v, will, user, pass, props) ==
  [type |-> "Connect", protocol_version |-> v, client_id |-> A, clean_start |-> TRUE,
   keep_alive |-> 300, username |-> user, password |-> pass, will |-> will, properties |-> props]

Plain(v) == Connect(v, None, None, None, DefaultProps)

WillOf(qos, retain, props) ==
  Some([topic |-> AB, payload |-> <<0, 255>>, qos |-> qos, retain |-> retain, properties |-> props])

Publish(qos, dup, topic, payload, props) ==
  [type |-> "Publish", dup |-> dup, qos |-> qos, retain |-> dup, topic |-> topic,
   packet_id |-> IF qos = 0 THEN None ELSE Some(258), payload |-> payload, properties |-> props]

Ack(type, reason, props) ==
  [type |-> type, packet_id |-> 65535, reason_code |-> reason, properties |-> props]

Options(qos, nl, rap, rh) ==
  [qos |-> qos, no_local |-> nl, retain_as_published |-> rap, retain_handling |-> rh]

SampleValue(id) ==
  CASE id \in ByteIds -> 1
    [] id \in U16Ids -> 513
    [] id \in U32Ids -> <<255, 0, 0, 1>>
    [] id \in StringIds -> AB
    [] id \in BinaryIds -> <<0, 200>>
    [] id = SubscriptionIdentifier ->
         <<1, 127, 128, 16383, 16384, 2097151, 2097152, 268435455>>
    [] id = UserProperty -> << <<A, AB>>, <<A, <<>> >> >>

OneProp(id) == id :> SampleValue(id)
AllProps == [id \in PropertyId |-> SampleValue(id)]
LongProps == UserProperty :> << <<A, Long>> >>
PropSamples == {DefaultProps, OneProp(31)}

(* What is written after a CONNECT. *)
Packets ==
  {Publish(q, d, AB, <<1, 0>>, DefaultProps) : q \in 1..2, d \in BOOLEAN}
    \cup {Publish(0, FALSE, t, b, DefaultProps) : t \in {<<>>, AB}, b \in {<<>>, Long}}
    \cup {Publish(1, FALSE, A, <<7>>, props) : props \in {LongProps, AllProps}}
    \cup {Ack("PubRel", 146, LongProps)}
    \cup {Publish(0, FALSE, A, <<>>, OneProp(id)) : id \in PropertyId}
    \cup {Ack(t, r, props) : t \in {"PubAck", "PubRec", "PubRel", "PubComp"},
                             r \in {Success, 151}, props \in PropSamples}
    \cup {[type |-> "ConnAck", session_present |-> sp, reason_code |-> r, properties |-> props] :
            sp \in BOOLEAN, r \in {0, 132, 138}, props \in PropSamples}
    \cup {[type |-> "Subscribe", packet_id |-> 1, subscriptions |-> s, properties |-> props] :
            s \in {<<[filter |-> A, options |-> Options(2, TRUE, FALSE, 1)]>>,
                   <<[filter |-> AB, options |-> Options(0, FALSE, TRUE, 2)],
                     [filter |-> <<43>>, options |-> Options(1, FALSE, FALSE, 0)]>>},
            props \in {DefaultProps, SubscriptionIdentifier :> <<16384>>}}
    \cup {[type |-> "SubAck", packet_id |-> 1, reason_codes |-> <<2, 0, 151>>, properties |-> props] :
            props \in PropSamples}
    \cup {[type |-> "Unsubscribe", packet_id |-> 9, filters |-> f, properties |-> props] :
            f \in {<<A>>, <<AB, <<35>> >>}, props \in PropSamples}
    \cup {[type |-> "UnsubAck", packet_id |-> 9, reason_codes |-> <<0, 17>>, properties |-> props] :
            props \in PropSamples}
    \cup {[type |-> t] : t \in {"PingReq", "PingResp"}}
    \cup {[type |-> "Disconnect", reason_code |-> r, properties |-> props] :
            r \in {Success, 4}, props \in PropSamples}

Auths == {[type |-> "Auth", reason_code |-> r, properties |-> props] :
            r \in {Success, 24}, props \in PropSamples}

Connects(v) ==
  {Connect(v, w, u, p, props) :
     w \in {None, WillOf(1, TRUE, DefaultProps), WillOf(2, FALSE, OneProp(24))},
     u \in {Some(A)}, p \in {None, Some(<<0, 9>>)}, props \in {DefaultProps, OneProp(33)}}

(* Frames that are complete and wrong: one per check of the decoder. *)
Malformeds ==
  {Malformed(b) : b \in
    { <<0, 0>>,                                \* packet type 0
      <<56, 5, 0, 1, 97, 0, 0>>,               \* DUP with QoS 0
      <<54, 7, 0, 1, 97, 0, 1, 0, 0>>,         \* QoS 3
      <<50, 6, 0, 1, 97, 0, 0, 0>>,            \* packet id 0
      <<48, 4, 0, 1, 43, 0>>,                  \* wildcard in the topic
      <<48, 4, 0, 1, 0, 0>>,                   \* NUL in the topic
      <<48, 4, 0, 1, 200, 0>>,                 \* not UTF-8
      <<96, 2, 0, 1>>,                         \* PUBREL without its flags
      <<64, 3, 0, 1, 3>>,                      \* no such reason code
      <<130, 3, 0, 1, 0>>,                     \* SUBSCRIBE without a filter
      <<130, 7, 0, 1, 0, 0, 1, 97, 3>>,        \* QoS 3 in the options
      <<130, 6, 0, 1, 0, 0, 0, 1>>,            \* an empty filter
      <<48, 8, 0, 1, 97, 4, 1, 1, 1, 1>>,      \* a property twice
      <<48, 7, 0, 1, 97, 3, 35, 0, 0>>,        \* topic alias 0
      <<48, 6, 0, 1, 97, 2, 4, 1>>,            \* no such property
      <<48, 5, 0, 1, 97, 9, 1>>,               \* properties longer than the packet
      <<48, 255, 255, 255, 255, 1>> } }        \* a length of five bytes

BadConnects ==
  {Malformed(b) : b \in
    { <<16, 6, 0, 4, 77, 81, 84, 83>>,                              \* protocol name
      <<16, 7, 0, 4, 77, 81, 84, 84, 6>>,                           \* protocol version
      <<16, 14, 0, 4, 77, 81, 84, 84, 5, 1, 0, 0, 0, 0, 1, 97>>,    \* reserved flag
      <<16, 14, 0, 4, 77, 81, 84, 84, 5, 64, 0, 0, 0, 0, 1, 97>>,   \* password alone
      <<16, 14, 0, 4, 77, 81, 84, 84, 5, 32, 0, 0, 0, 0, 1, 97>> } } \* retain, no will

Ping == [type |-> "PingReq"]

(* A small limit: the second packet is as large as the limit allows, the   *)
(* third is larger.                                                        *)
Limited(v) ==
  Script(v, 20, <<Plain(v), Publish(1, FALSE, A, SubSeq(Long, 1, IF v = V5 THEN 14 ELSE 15),
                                    DefaultProps),
                  Publish(0, FALSE, A, Long, DefaultProps), Ping>>)

Versions == {V311, V5}

(* PROXY headers: lines with addresses, an UNKNOWN one with and without    *)
(* more text and one of the 107 bytes that are the most, version 2 headers *)
(* with and without addresses and one of MAX_HEADER_SIZE; and ones that    *)
(* are refused, among them a line and a version 2 header one byte too long.*)
CrLf == <<13, 10>>
Unknown == PROXY_V1_SIGNATURE \o <<85, 78, 75, 78, 79, 87, 78>>
One == <<49, 46, 49, 46, 49, 46, 49>>
Tcp4 == PROXY_V1_SIGNATURE \o <<84, 67, 80, 52, 32>> \o One \o <<32>> \o One \o <<32, 51, 32>>
Tcp6 == PROXY_V1_SIGNATURE \o <<84, 67, 80, 54, 32, 58, 58, 49, 32, 58, 58, 50, 32, 51, 32, 52>>
Xs(n) == [i \in 1..n |-> 120]
Binary(len) == PROXY_V2_SIGNATURE \o <<33, 17>> \o u16(len) \o [i \in 1..len |-> 1]

GoodHeaders ==
  {Unknown \o CrLf, Unknown \o <<32, 120>> \o CrLf, Unknown \o Xs(92) \o CrLf,
   Tcp4 \o <<52>> \o CrLf, Tcp6 \o CrLf,
   PROXY_V2_SIGNATURE \o <<32, 0, 0, 0>>, Binary(12), Binary(520)}

BadHeaders ==
  {Unknown \o Xs(93) \o CrLf, Tcp4 \o CrLf, Tcp4 \o <<52>>, PROXY_V1_SIGNATURE \o Xs(8) \o CrLf,
   Binary(521), PROXY_V2_SIGNATURE \o <<17, 17, 0, 0>>,
   <<16, 13, 0, 4, 77, 81, 84, 84, 5, 2, 0, 0, 0, 0, 1, 97>>}

MCScripts ==
  {Script(v, 1000, <<Plain(v), p, Ping>>) : v \in Versions, p \in Packets}
    \cup {Script(V5, 1000, <<Plain(V5), p, Ping>>) : p \in Auths \cup Malformeds}
    \cup UNION {{Script(v, 1000, <<c, Ping>>) : c \in Connects(v) \cup BadConnects} : v \in Versions}
    \cup {Script(v, 1000, <<Ping, Plain(v)>>) : v \in Versions}
    \cup {Script(v, 1000, <<Plain(v), Plain(v), Ping>>) : v \in Versions}
    \cup {Limited(v) : v \in Versions}
    \cup {ProxiedScript(h, h \in GoodHeaders, V5, 1000, <<Plain(V5), Ping>>) :
            h \in GoodHeaders \cup BadHeaders}

=============================================================================
