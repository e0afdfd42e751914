----------------------------- MODULE PghpCodec -----------------------------
(***************************************************************************)
(* The message library of src/libs/gatehouse as functions: the ASN.1-like  *)
(* encoding of fields (TclAISMessageInternalBase), the logon, logoff and   *)
(* start messages built from it, and the NMEA sentences that carry them    *)
(* ($PGHP,2).                                                              *)
(*                                                                         *)
(* Text is a sequence of character codes and a message is a record of its  *)
(* members.  An int32_t is its four bytes, most significant first, so that *)
(* shifts and signs are the machine's.  A field name on the wire is one    *)
(* fixed character: the decoder skips it, and only logs a wrong one.       *)
(***************************************************************************)
EXTENDS Integers, FiniteSets, SequencesExt

ASN_INTEGER == 2

ASN_STR == 6

ASN_LONG_LEN == 128

\* TenAisMesgInternalType, the values this program uses.
AISMESGINT_UNKNOWN == 0

AISMESGINT_LOGON_REQUEST == 1

AISMESGINT_LOGON_REPLY == 2

AISMESGINT_LOGOFF_REQUEST == 3

AISMESGINT_STARTDATA_REQUEST == 4

\* TenAisLogonReply: 0 is OK, the others refuse.
LOGON_REPLY_OK == 0

LogonReplies == 0 .. 9

Int32(n) == <<0, 0, (n \div 256) % 256, n % 256>>

Comma == 44

Star == 42

CR == 13

LF == 10

-----------------------------------------------------------------------------
(* Building *)

\* Nine equal bits at the top: the first byte only repeats the sign.
Redundant(b) ==
  \/ b[1] = 0 /\ b[2] < 128
  \/ b[1] = 255 /\ b[2] >= 128

\* One turn of the loop: the 9-bit mask is cleared, then a byte shifted out.
\* The mask reaches into the next byte, so a negative number loses its sign.
Shorten(b) ==
  IF Len(b) > 1 /\ Redundant(b) THEN <<b[2] % 128>> \o SubSeq(b, 3, Len(b)) ELSE b

\* Fault: a length of 128 is written in one byte.
BuildLength_Long(n) ==
  IF n <= ASN_LONG_LEN THEN <<n>>
  ELSE IF n <= 255 THEN <<ASN_LONG_LEN + 1, n>>
  ELSE <<ASN_LONG_LEN + 2, (n \div 256) % 256, n % 256>>

BuildLength(n) ==
  IF n < ASN_LONG_LEN THEN <<n>>
  ELSE IF n <= 255 THEN <<ASN_LONG_LEN + 1, n>>
  ELSE <<ASN_LONG_LEN + 2, (n \div 256) % 256, n % 256>>

BuildHeader(type, n) == <<type>> \o BuildLength(n)

BuildInt(v) ==
  LET built(b) == BuildHeader(ASN_INTEGER, Len(b)) \o b
  IN  built(Shorten(Shorten(Shorten(v))))

BuildString(s) == BuildHeader(ASN_STR, Len(s)) \o s

FieldName == <<78>>

EncodeInteger(v) == BuildString(FieldName) \o BuildInt(v)

EncodeString(s) == BuildString(FieldName) \o BuildString(s)

EncodeHeader(type) == BuildInt(Int32(type))

-----------------------------------------------------------------------------
(* Parsing.  off is iOffset, counted from 0; ok is the result; a failed call *)
(* leaves off where it stopped, and every caller ignores ok.  Lengths are    *)
(* those the encoder writes, of at most two bytes: the code's lengths are    *)
(* uint32_t, and the sum of iOffset and a length near 2^32 would wrap.       *)

ParseLength(d, off) ==
  LET fail == [ok |-> FALSE, off |-> off, len |-> 0]
      n    == d[off + 1] - ASN_LONG_LEN
  IN  IF off >= Len(d) THEN fail
      ELSE IF n < 0 THEN [ok |-> TRUE, off |-> off + 1, len |-> d[off + 1]]
      ELSE IF n = 0 \/ n > 8 \/ off + n >= Len(d) THEN fail
      ELSE [ok |-> TRUE, off |-> off + n + 1,
            len |-> FoldLeft(LAMBDA acc, x : 256 * acc + x, 0,
                             SubSeq(d, off + 2, off + n + 1))]

\* A type, a length and that many bytes, if the length is allowed and they are there.
ParseBytes(d, off, allowed) ==
  LET content(l) ==
        IF ~ l.ok \/ l.len \notin allowed \/ l.off + l.len > Len(d)
        THEN [ok |-> FALSE, off |-> l.off, val |-> <<>>]
        ELSE [ok |-> TRUE, off |-> l.off + l.len,
              val |-> SubSeq(d, l.off + 1, l.off + l.len)]
  IN  IF off >= Len(d) THEN [ok |-> FALSE, off |-> off, val |-> <<>>]
      ELSE content(ParseLength(d, off + 1))

ParseString(d, off) == ParseBytes(d, off, Nat)

\* Sign-extended to four bytes.
ParseInt(d, off) ==
  LET fill(v) == [i \in 1 .. 4 - Len(v) |-> IF v[1] >= 128 THEN 255 ELSE 0]
      extended(p) == IF p.ok THEN [p EXCEPT !.val = fill(@) \o @] ELSE p
  IN  extended(ParseBytes(d, off, 1 .. 4))

\* A decoder: the bytes, iOffset, and the members decoded so far.  A failed
\* integer keeps its old value; text is appended to the old value.
DecodeInteger(st, f) ==
  LET after(p) == [st EXCEPT !.off = p.off, !.msg[f] = IF p.ok THEN p.val ELSE @]
  IN  after(ParseInt(st.data, ParseString(st.data, st.off).off))

DecodeString(st, f) ==
  LET after(p) == [st EXCEPT !.off = p.off, !.msg[f] = @ \o p.val]
  IN  after(ParseString(st.data, ParseString(st.data, st.off).off))

\* The type a TclAISMessageInternalBase takes from the bytes, UNKNOWN (0) if none.
MesgType(d) ==
  LET type(p) == IF p.ok THEN p.val ELSE Int32(AISMESGINT_UNKNOWN)
  IN  type(ParseInt(d, 0))

-----------------------------------------------------------------------------
(* Two hexadecimal digits for a byte *)

Hex(n) == IF n < 10 THEN 48 + n ELSE 55 + n

IsHex(c) == c \in (48 .. 57) \cup (65 .. 70) \cup (97 .. 102)

Digit(c) == IF c < 58 THEN c - 48 ELSE IF c < 71 THEN c - 55 ELSE c - 87

Byte2Ascii(b) ==
  [i \in 1 .. 2 * Len(b) |->
     Hex(IF i % 2 = 1 THEN b[(i + 1) \div 2] \div 16 ELSE b[i \div 2] % 16)]

\* An odd last digit is a byte of its own.
Ascii2Byte(s) ==
  [i \in 1 .. (Len(s) + 1) \div 2 |->
     IF 2 * i > Len(s) THEN Digit(s[2 * i - 1])
     ELSE 16 * Digit(s[2 * i - 1]) + Digit(s[2 * i])]

-----------------------------------------------------------------------------
(* Messages: the members in the order of the wire *)

RequestFields ==
  <<<<"name", "str">>, <<"pwd", "str">>, <<"ver", "int">>, <<"rlog", "int">>,
    <<"luser", "str">>, <<"verstr", "str">>, <<"type", "int">>, <<"retry", "int">>>>

ReplyFields == <<<<"result", "int">>, <<"newhost", "str">>, <<"port", "int">>>>

LogoffFields == <<<<"reason", "int">>>>

\* A new message object.
Fresh(fields) ==
  [f \in {fields[i][1] : i \in DOMAIN fields} |->
     IF \E i \in DOMAIN fields : fields[i] = <<f, "int">> THEN Int32(0) ELSE <<>>]

Encode(type, fields, msg) ==
  LET field(e) == IF e[2] = "int" THEN EncodeInteger(msg[e[1]]) ELSE EncodeString(msg[e[1]])
  IN  Byte2Ascii(FoldLeft(LAMBDA acc, e : acc \o field(e), EncodeHeader(type), fields))

Decode(fields, mail) ==
  LET start(d) == [data |-> d, off |-> ParseInt(d, 0).off, msg |-> Fresh(fields)]
  IN  FoldLeft(LAMBDA st, e : IF e[2] = "int" THEN DecodeInteger(st, e[1])
                              ELSE DecodeString(st, e[1]),
               start(Ascii2Byte(mail)), fields).msg

\* to_lower
ToLower(s) == [i \in DOMAIN s |-> IF s[i] \in 65 .. 90 THEN s[i] + 32 ELSE s[i]]

EncodeLogonRequest(msg) ==
  Encode(AISMESGINT_LOGON_REQUEST, RequestFields, [msg EXCEPT !.name = ToLower(@)])

DecodeLogonRequest(mail) == [Decode(RequestFields, mail) EXCEPT !.name = ToLower(@)]

EncodeLogonReply(msg) == Encode(AISMESGINT_LOGON_REPLY, ReplyFields, msg)

DecodeLogonReply(mail) == Decode(ReplyFields, mail)

EncodeLogoffRequest(msg) == Encode(AISMESGINT_LOGOFF_REQUEST, LogoffFields, msg)

EncodeStartDataRequest == Byte2Ascii(EncodeHeader(AISMESGINT_STARTDATA_REQUEST))

-----------------------------------------------------------------------------
(* NMEA sentences *)

m_clHeader == <<36, 80, 71, 72, 80, Comma, 50>>

\* The first position from i on whose character is in C, or Len + 1.
Find(s, i, C) ==
  LET first(at) == IF at = {} THEN Len(s) + 1 ELSE CHOOSE k \in at : \A l \in at : k <= l
  IN  first({k \in i .. Len(s) : s[k] \in C})

\* The exclusive or of the characters after '!' or '$' and before the first '*'.
CalcNmeaCheckSum(s) ==
  LET from == IF s[1] \in {33, 36} THEN 2 ELSE 1
      odd(I, k) == Cardinality({i \in I : (s[i] \div 2 ^ k) % 2 = 1}) % 2
      xor(I) == FoldLeft(LAMBDA acc, k : 2 * acc + odd(I, k), 0, <<7, 6, 5, 4, 3, 2, 1, 0>>)
  IN  xor(from .. Find(s, from, {Star}) - 1)

FormatNmeaCheckSum(n) == <<Hex(n \div 16), Hex(n % 16)>>

\* One sentence.  The identifier is left out while it is negative.
EncodePart(total, number, id, data) ==
  LET summed(s) == s \o FormatNmeaCheckSum(CalcNmeaCheckSum(s)) \o <<CR, LF>>
  IN  summed(m_clHeader \o <<Comma, total + 48, Comma, number + 48, Comma>>
               \o (IF id >= 0 THEN <<id + 48>> ELSE <<>>) \o <<Comma>> \o data \o <<Star>>)

\* As many sentences of at most max characters as the payload needs: none for none.
EncodeSentences(payload, max, id) ==
  LET total == (Len(payload) \div max) + (IF Len(payload) % max # 0 THEN 1 ELSE 0)
      m_id  == IF total > 1 /\ id < 0 THEN 0 ELSE id
      part(k) == SubSeq(payload, (k - 1) * max + 1, IF k * max < Len(payload) THEN k * max ELSE Len(payload))
  IN  FlattenSeq([k \in 1 .. total |-> EncodePart(total, k, m_id, part(k))])


VerifyCheckSum(s) ==
  LET digits(i) == SubSeq(s, i + 1, IF i + 2 < Len(s) THEN i + 2 ELSE Len(s))
      right(i) == i \in 2 .. Len(s) /\ digits(i) = FormatNmeaCheckSum(CalcNmeaCheckSum(s))
  IN  right(Find(s, 1, {Star}))

\* Where the field after a one-character number starts; a longer one stops there.
AfterSmallInt(s, i) ==
  IF i > Len(s) THEN i
  ELSE IF s[i] \in {Comma, Star} THEN i + 1
  ELSE IF i < Len(s) /\ s[i + 1] \in {Comma, Star} THEN i + 2 ELSE i + 1

\* Up to a delimiter or the last character, whichever comes first.
GetString(s, i) ==
  LET upto(e) == SubSeq(s, i, (IF e < Len(s) THEN e ELSE Len(s)) - 1)
  IN  upto(Find(s, i, {Comma, Star, CR}))

\* The lines of a text with their line feeds; what follows the last one is dropped.
Lines(s) ==
  LET cut(ends) ==
        [k \in DOMAIN ends |-> SubSeq(s, IF k = 1 THEN 1 ELSE ends[k - 1] + 1, ends[k])]
  IN  cut(SetToSortSeq({i \in DOMAIN s : s[i] = LF}, <))

\* TclPGHP2Message::Decode and GetGHMail: the payloads of all the sentences.
DecodeSentences(s) ==
  LET good(l) == VerifyCheckSum(l) /\ IsPrefix(m_clHeader, l)
      payload(l) == GetString(l, AfterSmallInt(l, AfterSmallInt(l, AfterSmallInt(l, 9))))
      joined(lines) ==
        IF \A k \in DOMAIN lines : good(lines[k])
        THEN [ok |-> TRUE, mail |-> FlattenSeq([k \in DOMAIN lines |-> payload(lines[k])])]
        ELSE [ok |-> FALSE, mail |-> <<>>]
  IN  joined(Lines(s))

=============================================================================
