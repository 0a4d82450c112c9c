---------------------------- MODULE ProxyHeader ----------------------------
(***************************************************************************)
(* The PROXY protocol header that may come before everything else on a     *)
(* connection: src/proxy/parser.rs, version 1 (a line of text) and version *)
(* 2 (binary, with its length).                                            *)
(***************************************************************************)
EXTENDS CodecBytes, FiniteSets

PROXY_V1_SIGNATURE == <<80, 82, 79, 88, 89, 32>>
PROXY_V2_SIGNATURE == <<13, 10, 13, 10, 0, 13, 10, 81, 85, 73, 84, 10>>
MAX_HEADER_SIZE == 536
MaxV1 == 107

StartsWith(buf, prefix) == Len(buf) >= Len(prefix) /\ SubSeq(buf, 1, Len(prefix)) = prefix

IsV1(buf) == StartsWith(buf, PROXY_V1_SIGNATURE)
IsV2(buf) == StartsWith(buf, PROXY_V2_SIGNATURE)

(* Where a line ends in buf: the places of the CR of each CR LF. *)
LineEnds(buf) == {i \in 1..Len(buf) - 1 : buf[i] = 13 /\ buf[i + 1] = 10}
LineEnd(buf) == CHOOSE i \in LineEnds(buf) : \A j \in LineEnds(buf) : i <= j

V2Length(buf) == 16 + 256 * buf[15] + buf[16]

(* read_until_header_complete: how many bytes the next read may take, 0    *)
(* when there is nothing more to read.  A line is read byte by byte, after *)
(* the 16 bytes it takes to tell the versions apart.                       *)
Wanted(buf) ==
  IF Len(buf) < 16 THEN 16 - Len(buf)
  ELSE IF IsV2(buf) THEN (IF V2Length(buf) <= MAX_HEADER_SIZE THEN V2Length(buf) - Len(buf) ELSE 0)
  ELSE IF IsV1(buf) /\ LineEnds(buf) = {} /\ Len(buf) < MaxV1 THEN 1
  ELSE 0

(* The ppp crate's parsers.  A line says UNKNOWN, or TCP4 or TCP6 with two *)
(* addresses and two ports, each behind a space; the values of the numbers *)
(* are not looked at.                                                      *)
Digits == 48..57
HexDigits == Digits \cup (65..70) \cup (97..102)

Address(word, version) ==
  IF version = 52
  THEN /\ Range(word) \subseteq Digits \cup {46}
       /\ Cardinality({i \in DOMAIN word : word[i] = 46}) = 3
  ELSE Range(word) \subseteq HexDigits \cup {58} /\ 58 \in Range(word)

Port(word) == word # <<>> /\ Range(word) \subseteq Digits

ppp_v1(line) ==
  LET text == SubSeq(line, 7, Len(line) - 2)
      at == SetToSortSeq({i \in DOMAIN text : text[i] = 32}, <) \o <<Len(text) + 1>>
      Word(n) == SubSeq(text, at[n] + 1, at[n + 1] - 1)
  IN  \/ StartsWith(text, <<85, 78, 75, 78, 79, 87, 78>>)
      \/ /\ StartsWith(text, <<84, 67, 80>>)
         /\ Len(at) = 5 /\ at[1] = 5 /\ text[4] \in {52, 54}
         /\ Address(Word(1), text[4]) /\ Address(Word(2), text[4])
         /\ Port(Word(3)) /\ Port(Word(4))
ppp_v2(buf) == buf[13] \in {32, 33}

(* parse_proxy_header once nothing more is wanted: the error, or the bytes *)
(* that were read past the header.                                         *)
parse_v1_header(buf) ==
  IF LineEnds(buf) # {} /\ ppp_v1(SubSeq(buf, 1, LineEnd(buf) + 1))
  THEN Got(SubSeq(buf, LineEnd(buf) + 2, Len(buf)), LineEnd(buf) + 1)
  ELSE Refused("InvalidHeader")

parse_v2_header(buf) ==
  IF V2Length(buf) <= MAX_HEADER_SIZE /\ ppp_v2(buf)
  THEN Got(SubSeq(buf, V2Length(buf) + 1, Len(buf)), V2Length(buf))
  ELSE Refused("InvalidHeader")

parse_proxy_header(buf) ==
  IF IsV2(buf) THEN parse_v2_header(buf)
  ELSE IF IsV1(buf) THEN parse_v1_header(buf)
  ELSE Refused("NotProxyProtocol")

=============================================================================
