-------------------------------- MODULE Codec --------------------------------
(***************************************************************************)
(* binary/encoder.py and binary/decoder.py: a stanza becomes a frame and a *)
(* frame a stanza.                                                         *)
(*                                                                         *)
(* A text is a sequence of symbols: a character, or a word that is never   *)
(* taken apart.  A payload is [n, of]: its length in bytes and its text, or *)
(* Opaque when it is not UTF-8.  A frame is a sequence of bytes in which a *)
(* payload stands as one element with its length, so that lengths of a     *)
(* megabyte can be written down.                                           *)
(***************************************************************************)
EXTENDS Integers, FiniteSets, SequencesExt, TLC

CONSTANTS Nodes      \* the stanzas that are encoded

VARIABLES pc, node, compress, frame, cut, result

vars == <<pc, node, compress, frame, cut, result>>

LIST_EMPTY == 0
DICTIONARY_0 == 236
DICTIONARY_3 == 239
AD_JID == 247
LIST_8 == 248
LIST_16 == 249
JID_PAIR == 250
HEX_8 == 251
BINARY_8 == 252
BINARY_20 == 253
BINARY_32 == 254
NIBBLE_8 == 255

-----------------------------------------------------------------------------
(***************************************************************************)
(* tokens.py: the alphabets, and the entries of the two token tables that  *)
(* the samples use.                                                        *)
(***************************************************************************)
Digits == <<"0", "1", "2", "3", "4", "5", "6", "7", "8", "9">>
NIBBLE_ALPHABET == Digits \o <<"-", ".", "NUL", "NUL", "NUL", "NUL">>
HEX_ALPHABET == Digits \o <<"A", "B", "C", "D", "E", "F">>

SingleIndex ==
    (<<"s.whatsapp.net">> :> 3) @@ (<<"id">> :> 8) @@ (<<"g.us">> :> 28) @@ (<<"1">> :> 85)
    @@ (<<"lid">> :> 118) @@ (<<"true">> :> 155) @@ (<<"1", "2">> :> 207)

DoubleIndex ==
    (<<"false">> :> <<0, 15>>) @@ (<<"account_sync">> :> <<0, 110>>) @@ (<<"-">> :> <<1, 247>>)
    @@ (<<"-", "1">> :> <<2, 114>>)

TokenOf(index, at) == CHOOSE s \in DOMAIN index : index[s] = at
HasToken(index, at) == \E s \in DOMAIN index : index[s] = at

\* How many bytes a symbol takes in UTF-8.
Width(c) == CASE c = "e_acute" -> 2 [] c = "hosted" -> 6 [] c = "hosted.lid" -> 10 [] OTHER -> 1

Opaque == <<"opaque">>

Utf8(s) == [n |-> Cardinality(UNION {{i} \X (1 .. Width(s[i])) : i \in DOMAIN s}), of |-> s]

\* FlattenSeq in halves, which keeps TLC's recursion shallow.
Half(n) == n \div 2
RECURSIVE Concat(_)
Concat(seqs) ==
    IF Len(seqs) <= 1 THEN FlattenSeq(seqs)
    ELSE Concat(SubSeq(seqs, 1, Half(Len(seqs))))
         \o Concat(SubSeq(seqs, Half(Len(seqs)) + 1, Len(seqs)))

\* The elements of a frame.
Byte(b) == <<"byte", b, <<>> >>
Bytes(bs) == [i \in DOMAIN bs |-> Byte(bs[i])]
Data(body) == IF body.n = 0 THEN <<>> ELSE << <<"data", body.n, body.of>> >>
Raise == << <<"error", 0, <<>> >> >>
Raised(buf) == \E i \in DOMAIN buf : buf[i][1] = "error"

JID(user, server, device) == [t |-> "jid", user |-> user, server |-> server, device |-> device]

-----------------------------------------------------------------------------
(***************************************************************************)
(* jid.py, parse_jid: split at the first @, then a device behind the last  *)
(* : or, if what follows is no number, behind the last dot.                *)
(***************************************************************************)
At(s, c) == SelectInSeq(s, LAMBDA x : x = c)
LastAt(s, c) == SelectLastInSeq(s, LAMBDA x : x = c)
After(s, i) == SubSeq(s, i + 1, Len(s))
Before(s, i) == SubSeq(s, 1, i - 1)

IsDigit(s) == s # <<>> /\ \A i \in DOMAIN s : s[i] \in Range(Digits)

Number(s) ==
    LET num[i \in 0 .. Len(s)] == IF i = 0 THEN 0 ELSE 10 * num[i - 1] + At(Digits, s[i]) - 1
    IN  num[Len(s)]

Separators(user) == {c \in {":", "."} : At(user, c) # 0 /\ IsDigit(After(user, LastAt(user, c)))}

ParseJid(s) ==
    LET user == Before(s, At(s, "@"))
        server == After(s, At(s, "@"))
        seps == Separators(user)
        at == LastAt(user, IF ":" \in seps THEN ":" ELSE ".")
    IN  IF seps = {} THEN JID(user, server, 0)
        ELSE JID(Before(user, at), server, Number(After(user, at)))

-----------------------------------------------------------------------------
(***************************************************************************)
(* encoder.py.                                                             *)
(***************************************************************************)
WriteListHeader(count) ==
    CASE count = 0 -> Bytes(<<LIST_EMPTY>>)
      [] count \in 1 .. 255 -> Bytes(<<LIST_8, count>>)
      [] count \in 256 .. 65535 -> Bytes(<<LIST_16, count \div 256, count % 256>>)
      [] OTHER -> Raise

\* A length of 2^32 and more, which raises, is out of reach here.
WriteBytes(body) ==
    LET n == body.n
        header == CASE n < 256 -> <<BINARY_8, n>>
                    [] n >= 256 /\ n < 1048576 ->
                        <<BINARY_20, (n \div 65536) % 16, (n \div 256) % 256, n % 256>>
                    [] OTHER ->
                        <<BINARY_32, n \div 16777216, (n \div 65536) % 256, (n \div 256) % 256,
                          n % 256>>
    IN  Bytes(header) \o Data(body)

AllIn(s, alphabet) == s # <<>> /\ \A i \in DOMAIN s : s[i] \in Range(alphabet) \ {"NUL"}

\* Mutant: the limit is off by one, and the length reaches the bit that says `odd'.
PackedTooLong_late(n) == (n + 1) \div 2 > 128

PackedTooLong(n) == (n + 1) \div 2 >= 128

Nibble(s, alphabet, i) == IF i <= Len(s) THEN At(alphabet, s[i]) - 1 ELSE 15

WritePacked(s, tag, alphabet) ==
    LET n == (Len(s) + 1) \div 2
        pair(i) == 16 * Nibble(s, alphabet, 2 * i - 1) + Nibble(s, alphabet, 2 * i)
    IN  IF PackedTooLong(Len(s)) THEN Raise
        ELSE Bytes(<<tag, 128 * (Len(s) % 2) + n>> \o [i \in 1 .. n |-> pair(i)])

ServerToAgent ==
    (<<"s.whatsapp.net">> :> 0) @@ (<<"lid">> :> 1) @@ (<<"hosted">> :> 128)
    @@ (<<"hosted.lid">> :> 129)

Agent(server) == IF server \in DOMAIN ServerToAgent THEN ServerToAgent[server] ELSE 0

RECURSIVE WriteString(_)
WriteJid(jid) ==
    IF jid.device # 0
    THEN Bytes(<<AD_JID, Agent(jid.server), jid.device % 256>>) \o WriteString(jid.user)
    ELSE Bytes(<<JID_PAIR>>)
         \o (IF jid.user # <<>> THEN WriteString(jid.user) ELSE Bytes(<<LIST_EMPTY>>))
         \o WriteString(jid.server)

WriteString(s) ==
    IF s = <<>> THEN Bytes(<<BINARY_8, 0>>)
    ELSE IF s \in DOMAIN SingleIndex THEN Bytes(<<SingleIndex[s]>>)
    ELSE IF s \in DOMAIN DoubleIndex
         THEN Bytes(<<DICTIONARY_0 + DoubleIndex[s][1], DoubleIndex[s][2]>>)
    ELSE IF At(s, "@") # 0 THEN WriteJid(ParseJid(s))
    ELSE IF AllIn(s, NIBBLE_ALPHABET) THEN WritePacked(s, NIBBLE_8, NIBBLE_ALPHABET)
    ELSE IF AllIn(s, HEX_ALPHABET) THEN WritePacked(s, HEX_8, HEX_ALPHABET)
    ELSE WriteBytes(Utf8(s))

BoolText(b) == IF b THEN <<"true">> ELSE <<"false">>

WriteAttrValue(v) ==
    CASE v.t = "jid" -> WriteJid(v)
      [] v.t = "bool" -> WriteString(BoolText(v.b))
      [] v.t = "int" -> WriteString(v.digits)
      [] v.t = "bytes" -> WriteBytes(v.body)
      [] v.t = "str" -> WriteString(v.s)

RECURSIVE WriteNode(_)
WriteContent(content) ==
    CASE content.t = "none" -> <<>>
      [] content.t = "bytes" -> WriteBytes(content.body)
      [] content.t = "str" -> WriteString(content.s)
      [] content.t = "list" ->
            WriteListHeader(Len(content.nodes))
            \o Concat([i \in DOMAIN content.nodes |-> WriteNode(content.nodes[i])])

WriteNode(n) ==
    WriteListHeader(1 + 2 * Len(n.attrs) + (IF n.content.t = "none" THEN 0 ELSE 1))
    \o WriteString(n.tag)
    \o Concat([i \in DOMAIN n.attrs |->
                WriteString(n.attrs[i].key) \o WriteAttrValue(n.attrs[i].value)])
    \o WriteContent(n.content)

\* A compressed payload is one element: nothing can be read from a part of it.
EncodeFrame(n, zip) ==
    IF zip THEN <<Byte(2), <<"zlib", 0, WriteNode(n)>> >> ELSE <<Byte(0)>> \o WriteNode(n)

-----------------------------------------------------------------------------
(***************************************************************************)
(* decoder.py.  A reader returns a value and the next position, or Failed  *)
(* (ValueError), which ends every read that needed it.                     *)
(***************************************************************************)
Failed == [v |-> 0, pos |-> 0]
Fails(r) == r.pos = 0
Got(v, pos) == [v |-> v, pos |-> pos]
Then(r, Read(_, _)) == IF Fails(r) THEN Failed ELSE Read(r.v, r.pos)

U8(buf, pos) ==
    IF pos \in DOMAIN buf /\ buf[pos][1] = "byte" THEN Got(buf[pos][2], pos + 1) ELSE Failed

ReadBytes(buf, pos, n) ==
    IF n = 0 THEN Got([n |-> 0, of |-> <<>>], pos)
    ELSE IF pos \in DOMAIN buf /\ buf[pos][1] = "data" /\ buf[pos][2] = n
         THEN Got([n |-> n, of |-> buf[pos][3]], pos + 1)
    ELSE Failed

HasBytes(buf, pos, k) == \A i \in 0 .. k - 1 : ~ Fails(U8(buf, pos + i))

\* k bytes, the highest first.
UInt(buf, pos, k) ==
    IF ~ HasBytes(buf, pos, k) THEN Failed
    ELSE Got(FoldLeft(LAMBDA n, e : 256 * n + e[2], 0, SubSeq(buf, pos, pos + k - 1)), pos + k)

ReadListSize(buf, pos, tag) ==
    CASE tag = LIST_EMPTY -> Got(0, pos)
      [] tag = LIST_8 -> UInt(buf, pos, 1)
      [] tag = LIST_16 -> UInt(buf, pos, 2)
      [] OTHER -> Failed

Unpacked(buf, pos, alphabet, n) ==
    LET b(i) == buf[pos + (i - 1) \div 2][2]
    IN  [i \in 1 .. n |-> alphabet[1 + (IF i % 2 = 1 THEN b(i) \div 16 ELSE b(i) % 16)]]

\* The header is the number of bytes, and a bit that says that the last nibble is none.
ReadPacked(buf, pos, alphabet) ==
    Then(U8(buf, pos), LAMBDA header, at :
        LET nBytes == header % 128
            odd == header \div 128
        IN  IF ~ HasBytes(buf, at, nBytes) THEN Failed
            ELSE Got(Utf8(Unpacked(buf, at, alphabet, 2 * nBytes - odd)), at + nBytes))

ReadBytePayload(buf, pos, tag) ==
    CASE tag = BINARY_8 -> Then(UInt(buf, pos, 1), LAMBDA n, at : ReadBytes(buf, at, n))
      [] tag = BINARY_20 -> Then(UInt(buf, pos, 3), LAMBDA n, at : ReadBytes(buf, at, n % 1048576))
      [] tag = BINARY_32 -> Then(UInt(buf, pos, 4), LAMBDA n, at : ReadBytes(buf, at, n))
      [] tag = NIBBLE_8 -> ReadPacked(buf, pos, NIBBLE_ALPHABET)
      [] tag = HEX_8 -> ReadPacked(buf, pos, HEX_ALPHABET)
      [] OTHER -> Failed

Lookup(index, at, pos) == IF HasToken(index, at) THEN Got(TokenOf(index, at), pos) ELSE Failed

\* Every caller decodes a byte payload as UTF-8.
ReadStringOrBytes(buf, pos, tag) ==
    CASE tag = 0 -> Got(<<>>, pos)
      [] tag \in 1 .. 235 -> Lookup(SingleIndex, tag, pos)
      [] tag \in DICTIONARY_0 .. DICTIONARY_3 ->
            Then(U8(buf, pos), LAMBDA idx, at : Lookup(DoubleIndex, <<tag - DICTIONARY_0, idx>>, at))
      [] OTHER ->
            Then(ReadBytePayload(buf, pos, tag), LAMBDA payload, at :
                IF payload.of = Opaque THEN Failed ELSE Got(payload.of, at))

ReadString(buf, pos) ==
    Then(U8(buf, pos), LAMBDA tag, at : ReadStringOrBytes(buf, at, tag))

\* A user that is LIST_EMPTY reads as the empty text.
ReadJidPair(buf, pos) ==
    Then(ReadString(buf, pos), LAMBDA user, at :
        Then(ReadString(buf, at), LAMBDA server, end : Got(JID(user, server, 0), end)))

AgentToServer ==
    (0 :> <<"s.whatsapp.net">>) @@ (1 :> <<"lid">>) @@ (128 :> <<"hosted">>)
    @@ (129 :> <<"hosted.lid">>)

ServerOf(agent) ==
    IF agent \in DOMAIN AgentToServer THEN AgentToServer[agent] ELSE <<"s.whatsapp.net">>

ReadAdJid(buf, pos) ==
    Then(U8(buf, pos), LAMBDA agent, p1 :
        Then(U8(buf, p1), LAMBDA device, p2 :
            Then(ReadString(buf, p2), LAMBDA user, end : Got(JID(user, ServerOf(agent), device), end))))

ReadAttrValue(buf, pos) ==
    Then(U8(buf, pos), LAMBDA tag, at :
        CASE tag = JID_PAIR -> ReadJidPair(buf, at)
          [] tag = AD_JID -> ReadAdJid(buf, at)
          [] OTHER -> Then(ReadStringOrBytes(buf, at, tag),
                           LAMBDA s, end : Got([t |-> "str", s |-> s], end)))

ReadAttr(buf, pos) ==
    Then(ReadString(buf, pos), LAMBDA key, at :
        Then(ReadAttrValue(buf, at), LAMBDA value, end : Got([key |-> key, value |-> value], end)))

\* n items, again in halves.
RECURSIVE ReadNode(_, _)
RECURSIVE ReadItems(_, _, _, _)
ReadItems(buf, pos, n, kind) ==
    CASE n = 0 -> Got(<<>>, pos)
      [] n = 1 -> Then(IF kind = "attr" THEN ReadAttr(buf, pos) ELSE ReadNode(buf, pos),
                       LAMBDA item, end : Got(<<item>>, end))
      [] OTHER -> Then(ReadItems(buf, pos, Half(n), kind), LAMBDA first, at :
                    Then(ReadItems(buf, at, n - Half(n), kind), LAMBDA second, end :
                        Got(first \o second, end)))

ReadContent(buf, pos) ==
    Then(U8(buf, pos), LAMBDA tag, at :
        IF tag \in {LIST_EMPTY, LIST_8, LIST_16}
        THEN Then(ReadListSize(buf, at, tag), LAMBDA size, p1 :
                Then(ReadItems(buf, p1, size, "node"), LAMBDA nodes, end :
                    Got([t |-> "list", nodes |-> nodes], end)))
        ELSE Then(ReadBytePayload(buf, at, tag), LAMBDA body, end :
                Got([t |-> "bytes", body |-> body], end)))

ReadNode(buf, pos) ==
    Then(U8(buf, pos), LAMBDA list, p1 :
        Then(ReadListSize(buf, p1, list), LAMBDA count, p2 :
            IF count = 0 THEN Failed
            ELSE Then(ReadString(buf, p2), LAMBDA tag, p3 :
                Then(ReadItems(buf, p3, (count - 1) \div 2, "attr"), LAMBDA attrs, p4 :
                    Then(IF count % 2 = 0 THEN ReadContent(buf, p4) ELSE Got([t |-> "none"], p4),
                         LAMBDA content, end :
                            Got([tag |-> tag, attrs |-> attrs, content |-> content], end))))))

\* decode; zlib.decompress raises on anything but a whole stream.
DecodeFrame(buf) ==
    IF buf = <<>> THEN Failed
    ELSE IF buf[1][2] = 2
         THEN IF Len(buf) = 2 /\ buf[2][1] = "zlib" THEN ReadNode(buf[2][3], 1) ELSE Failed
    ELSE ReadNode(buf, 2)

-----------------------------------------------------------------------------
(***************************************************************************)
(* A stanza is encoded, the frame arrives whole or as a part, and is       *)
(* decoded.                                                                *)
(***************************************************************************)
Init ==
    /\ pc = "encode"
    /\ node \in Nodes
    /\ compress \in BOOLEAN
    /\ frame = <<>>
    /\ cut = FALSE
    /\ result = Failed

Encode ==
    /\ pc = "encode"
    /\ IF Raised(WriteNode(node))
       THEN pc' = "raised" /\ UNCHANGED frame
       ELSE pc' = "sent" /\ frame' = EncodeFrame(node, compress)
    /\ UNCHANGED <<node, compress, cut, result>>

\* The proper prefixes of a frame, those that end inside a payload included.
Parts(f) ==
    {SubSeq(f, 1, i) : i \in 0 .. Len(f) - 1}
    \cup {Append(SubSeq(f, 1, i - 1), <<f[i][1], f[i][2] - 1, Opaque>>) :
            i \in {j \in DOMAIN f : f[j][1] = "data" /\ f[j][2] > 1}}
    \cup {Append(SubSeq(f, 1, i - 1), <<"part", 0, <<>> >>) :
            i \in {j \in DOMAIN f : f[j][1] = "zlib"}}

Cut ==
    /\ pc = "sent"
    /\ ~ cut
    /\ frame' \in Parts(frame)
    /\ cut' = TRUE
    /\ UNCHANGED <<pc, node, compress, result>>

Decode ==
    /\ pc = "sent"
    /\ result' = DecodeFrame(frame)
    /\ pc' = "decoded"
    /\ UNCHANGED <<node, compress, frame, cut>>

Next == Encode \/ Cut \/ Decode

Spec == Init /\ [][Next]_vars

-----------------------------------------------------------------------------
(***************************************************************************)
(* What a stanza means to the one who decodes it: a boolean, a number and  *)
(* bytes in an attribute are texts, and a text with an @ is a JID.  A      *)
(* device of 256 and more keeps its low byte, and a device at a server     *)
(* without an agent number becomes one at s.whatsapp.net (_write_jid).     *)
(***************************************************************************)
TextMeaning(s) == IF At(s, "@") # 0 THEN ParseJid(s) ELSE [t |-> "str", s |-> s]

Meaning(v) ==
    CASE v.t = "jid" -> v
      [] v.t = "bool" -> TextMeaning(BoolText(v.b))
      [] v.t = "int" -> TextMeaning(v.digits)
      [] v.t = "bytes" -> [t |-> "str", s |-> v.body.of]
      [] v.t = "str" -> TextMeaning(v.s)

DeviceServers == DOMAIN ServerToAgent

Narrowed(v) ==
    IF v.t # "jid" \/ v.device = 0 THEN v
    ELSE JID(v.user, IF v.server \in DeviceServers THEN v.server ELSE <<"s.whatsapp.net">>,
             v.device % 256)

RECURSIVE Normal(_)
NormalContent(c) ==
    CASE c.t = "str" -> [t |-> "bytes", body |-> Utf8(c.s)]
      [] c.t = "list" -> [t |-> "list", nodes |-> [i \in DOMAIN c.nodes |-> Normal(c.nodes[i])]]
      [] OTHER -> c

Normal(n) ==
    [tag |-> n.tag,
     attrs |-> [i \in DOMAIN n.attrs |->
                    [key |-> n.attrs[i].key, value |-> Narrowed(Meaning(n.attrs[i].value))]],
     content |-> NormalContent(n.content)]

\* What the format has room for: no @ in a name, at most 254 digits, texts in UTF-8, and no
\* token where the content is read as bytes.
Packable(s) == Len(s) < 255 \/ (~ AllIn(s, NIBBLE_ALPHABET) /\ ~ AllIn(s, HEX_ALPHABET))
Plain(s) == At(s, "@") = 0 /\ Packable(s)

ValueFits(v) ==
    LET means == Meaning(v)
    IN  IF means.t = "jid"
        THEN Plain(means.user) /\ (means.device = 0 => Plain(means.server))
        ELSE means.s # Opaque /\ (v.t = "bytes" \/ Packable(means.s))

IsToken(s) == s \in DOMAIN SingleIndex \/ s \in DOMAIN DoubleIndex

RECURSIVE Fits(_)
ContentFits(c) ==
    CASE c.t = "str" -> Plain(c.s) /\ ~ IsToken(c.s)
      [] c.t = "list" -> \A i \in DOMAIN c.nodes : Fits(c.nodes[i])
      [] OTHER -> TRUE

Fits(n) ==
    /\ Plain(n.tag)
    /\ \A i \in DOMAIN n.attrs : Plain(n.attrs[i].key) /\ ValueFits(n.attrs[i].value)
    /\ ContentFits(n.content)

(* Encoder and decoder agree: a stanza the format has room for is decoded  *)
(* to what it means, on both sides of every length where the header or the *)
(* packing changes, and any other one is refused by one of the two.  A     *)
(* frame that was cut off anywhere is refused, never read as a shorter     *)
(* stanza.                                                                 *)
DecodesWhatWasEncoded ==
    /\ pc = "raised" => ~ Fits(node)
    /\ pc = "decoded" =>
        IF ~ cut /\ Fits(node) THEN ~ Fails(result) /\ result.v = Normal(node)
        ELSE Fails(result)
=============================================================================
