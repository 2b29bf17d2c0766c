------------------------ MODULE NoiseTransport_proofs ------------------------
(***************************************************************************)
(* Proofs about NoiseTransport.                                            *)
(***************************************************************************)
EXTENDS NoiseTransport, SequenceTheorems, TLAPS

-----------------------------------------------------------------------------
(***************************************************************************)
(* The handshake, evaluated.  Keys and patterns are the same in every run, *)
(* so each of its states is known field by field.                          *)
(***************************************************************************)
SsShape(ss) == DOMAIN ss = {"ck", "h", "k", "n"}
HsShape(a) == DOMAIN a = {"role", "ss", "re", "rs", "left"} /\ SsShape(a.ss)
WrShape(st) == DOMAIN st = {"hs", "out"} /\ HsShape(st.hs)
RdShape(st) == DOMAIN st = {"hs", "in", "ok"} /\ HsShape(st.hs)

IsSs(ss, ck, h, k, n) == SsShape(ss) /\ ss.ck = ck /\ ss.h = h /\ ss.k = k /\ ss.n = n

IsHs(a, r, ck, h, k, n, re, rs, left) ==
  /\ HsShape(a) /\ IsSs(a.ss, ck, h, k, n)
  /\ a.role = r /\ a.re = re /\ a.rs = rs /\ a.left = left

(* SymmetricState.                                                         *)
LEMMA MixHashIs ==
  ASSUME NEW ss, NEW ck, NEW h, NEW k, NEW n, IsSs(ss, ck, h, k, n), NEW piece
  PROVE  IsSs(MixHash(ss, piece), ck, Append(h, piece), k, n)
BY DEF IsSs, SsShape, MixHash

LEMMA MixKeyIs ==
  ASSUME NEW ss, NEW ck, NEW h, NEW k, NEW n, IsSs(ss, ck, h, k, n), NEW x
  PROVE  IsSs(MixKey(ss, x), Append(ck, x), h, Append(ck, x), 0)
BY DEF IsSs, SsShape, MixKey, Hkdf

LEMMA DecryptAndHashIs ==
  ASSUME NEW ss, NEW ck, NEW h, NEW k, NEW n, IsSs(ss, ck, h, k, n), k # NoKey, NEW piece
  PROVE  IsSs(DecryptAndHash(ss, piece), ck, Append(h, piece), k, n + 1)
BY DEF IsSs, SsShape, DecryptAndHash, Counted, MixHash

LEMMA EncryptAndHashIs ==
  ASSUME NEW ss, NEW ck, NEW h, NEW k, NEW n, IsSs(ss, ck, h, k, n), k # NoKey, NEW p
  PROVE  /\ Seal(ss, ss.h, p) = AeadEncrypt(k, n, h, p)
         /\ IsSs(EncryptAndHash(ss, p), ck, Append(h, AeadEncrypt(k, n, h, p)), k, n + 1)
<1>1. Seal(ss, ss.h, p) = AeadEncrypt(k, n, h, p)
  BY DEF Seal, IsSs
<1>2. EncryptAndHash(ss, p) = DecryptAndHash(ss, AeadEncrypt(k, n, h, p))
  BY <1>1 DEF EncryptAndHash, DecryptAndHash
<1>3. IsSs(DecryptAndHash(ss, AeadEncrypt(k, n, h, p)), ck, Append(h, AeadEncrypt(k, n, h, p)), k, n + 1)
  BY DecryptAndHashIs
<1> QED
  BY <1>1, <1>2, <1>3

LEMMA OpensIs ==
  ASSUME NEW ss, NEW ck, NEW h, NEW k, NEW n, IsSs(ss, ck, h, k, n), k # NoKey,
         NEW ad, NEW p
  PROVE  Opens(ss, ss.h, AeadEncrypt(k, n, ad, p)) <=> ad = h
BY DEF IsSs, Opens, AeadDecrypts, AeadEncrypt

(* The tokens of write_message.                                            *)
LEMMA WriteEIs ==
  ASSUME NEW st, WrShape(st), NEW r, NEW ck, NEW h, NEW k, NEW n, NEW re, NEW rs, NEW left,
         IsHs(st.hs, r, ck, h, k, n, re, rs, left)
  PROVE  LET t == WriteToken(st, "e")
         IN  /\ WrShape(t) /\ t.out = Append(st.out, Clear(Ephemeral(r)))
             /\ IsHs(t.hs, r, ck, Append(h, Clear(Ephemeral(r))), k, n, re, rs, left)
<1> DEFINE ss == MixHash(st.hs.ss, Clear(Ephemeral(r)))
<1>1. IsSs(ss, ck, Append(h, Clear(Ephemeral(r))), k, n)
  BY MixHashIs DEF IsHs
<1>2. SsShape(ss)
  BY <1>1 DEF IsSs
<1>3. WriteToken(st, "e") = WriteE(st)
  BY DEF WriteToken
<1> HIDE DEF ss
<1>4. WriteE(st) = [st EXCEPT !.hs.ss = ss, !.out = Append(@, Clear(Ephemeral(r)))]
  BY DEF WriteE, ss, IsHs
<1>5. /\ WrShape(WriteE(st)) /\ WriteE(st).out = Append(st.out, Clear(Ephemeral(r)))
      /\ WriteE(st).hs.ss = ss /\ WriteE(st).hs.role = r /\ WriteE(st).hs.re = re
      /\ WriteE(st).hs.rs = rs /\ WriteE(st).hs.left = left
  BY <1>2, <1>4 DEF WrShape, HsShape, IsHs
<1> QED
  BY <1>1, <1>3, <1>5 DEF IsHs, WrShape

LEMMA WriteSIs ==
  ASSUME NEW st, WrShape(st), NEW r, NEW ck, NEW h, NEW k, NEW n, NEW re, NEW rs, NEW left,
         IsHs(st.hs, r, ck, h, k, n, re, rs, left), k # NoKey
  PROVE  LET t == WriteToken(st, "s")
             piece == AeadEncrypt(k, n, h, Static(r))
         IN  /\ WrShape(t) /\ t.out = Append(st.out, piece)
             /\ IsHs(t.hs, r, ck, Append(h, piece), k, n + 1, re, rs, left)
<1> DEFINE ss == EncryptAndHash(st.hs.ss, Static(r))
           piece == AeadEncrypt(k, n, h, Static(r))
<1>1. IsSs(ss, ck, Append(h, piece), k, n + 1) /\ Seal(st.hs.ss, st.hs.ss.h, Static(r)) = piece
  BY EncryptAndHashIs DEF IsHs
<1>2. SsShape(ss)
  BY <1>1 DEF IsSs
<1>3. WriteToken(st, "s") = WriteS(st)
  BY DEF WriteToken
<1> HIDE DEF ss, piece
<1>4. WriteS(st) = [st EXCEPT !.hs.ss = ss, !.out = Append(@, piece)]
  BY <1>1 DEF WriteS, ss, IsHs
<1>5. /\ WrShape(WriteS(st)) /\ WriteS(st).out = Append(st.out, piece)
      /\ WriteS(st).hs.ss = ss /\ WriteS(st).hs.role = r /\ WriteS(st).hs.re = re
      /\ WriteS(st).hs.rs = rs /\ WriteS(st).hs.left = left
  BY <1>2, <1>4 DEF WrShape, HsShape, IsHs
<1>6. /\ WrShape(WriteS(st)) /\ WriteS(st).out = Append(st.out, piece)
      /\ IsHs(WriteS(st).hs, r, ck, Append(h, piece), k, n + 1, re, rs, left)
  BY <1>1, <1>5 DEF IsHs, WrShape
<1> QED
  BY <1>3, <1>6 DEF piece

LEMMA WriteDhIs ==
  ASSUME NEW st, WrShape(st), NEW r, NEW ck, NEW h, NEW k, NEW n, NEW re, NEW rs, NEW left,
         IsHs(st.hs, r, ck, h, k, n, re, rs, left), NEW token \in {"ee", "es", "se"}
  PROVE  LET t == WriteToken(st, token)
             key == Append(ck, Dh(st.hs, token))
         IN  /\ WrShape(t) /\ t.out = st.out
             /\ IsHs(t.hs, r, key, h, key, 0, re, rs, left)
<1> DEFINE ss == MixKey(st.hs.ss, Dh(st.hs, token))
           key == Append(ck, Dh(st.hs, token))
<1>1. IsSs(ss, key, h, key, 0)
  BY MixKeyIs DEF IsHs
<1>2. SsShape(ss)
  BY <1>1 DEF IsSs
<1>3. WriteToken(st, token) = MixDh(st, token)
  BY DEF WriteToken
<1> HIDE DEF ss, key
<1>4. MixDh(st, token) = [st EXCEPT !.hs.ss = ss]
  BY DEF MixDh, ss
<1>5. /\ WrShape(MixDh(st, token)) /\ MixDh(st, token).out = st.out
      /\ MixDh(st, token).hs.ss = ss /\ MixDh(st, token).hs.role = r /\ MixDh(st, token).hs.re = re
      /\ MixDh(st, token).hs.rs = rs /\ MixDh(st, token).hs.left = left
  BY <1>2, <1>4 DEF WrShape, HsShape, IsHs
<1>6. WrShape(MixDh(st, token)) /\ MixDh(st, token).out = st.out
      /\ IsHs(MixDh(st, token).hs, r, key, h, key, 0, re, rs, left)
  BY <1>1, <1>5 DEF IsHs, WrShape
<1> QED
  BY <1>3, <1>6 DEF key

(* The tokens of read_message.                                             *)
LEMMA ReadEIs ==
  ASSUME NEW st, RdShape(st), NEW r, NEW ck, NEW h, NEW k, NEW n, NEW re, NEW rs, NEW left,
         IsHs(st.hs, r, ck, h, k, n, re, rs, left), st.ok, st.in # <<>>
  PROVE  LET t == ReadToken(st, "e")
         IN  /\ RdShape(t) /\ t.ok /\ t.in = Tail(st.in)
             /\ IsHs(t.hs, r, ck, Append(h, Head(st.in)), k, n, Head(st.in).p, rs, left)
<1> DEFINE ss == MixHash(st.hs.ss, Head(st.in))
<1>1. IsSs(ss, ck, Append(h, Head(st.in)), k, n)
  BY MixHashIs DEF IsHs
<1>2. SsShape(ss)
  BY <1>1 DEF IsSs
<1>3. ReadToken(st, "e") = ReadE(st)
  BY DEF ReadToken
<1>4. /\ RdShape(ReadE(st)) /\ ReadE(st).ok /\ ReadE(st).in = Tail(st.in)
      /\ ReadE(st).hs.ss = ss /\ ReadE(st).hs.role = r /\ ReadE(st).hs.re = Head(st.in).p
      /\ ReadE(st).hs.rs = rs /\ ReadE(st).hs.left = left
  BY <1>2 DEF ReadE, RdShape, HsShape, IsHs
<1> HIDE DEF ss
<1> QED
  BY <1>1, <1>3, <1>4 DEF IsHs, RdShape

LEMMA ReadSIs ==
  ASSUME NEW st, RdShape(st), NEW r, NEW ck, NEW h, NEW k, NEW n, NEW re, NEW rs, NEW left,
         IsHs(st.hs, r, ck, h, k, n, re, rs, left), k # NoKey, st.ok, st.in # <<>>
  PROVE  LET t == ReadToken(st, "s")
         IN  /\ RdShape(t) /\ (t.ok <=> Opens(st.hs.ss, st.hs.ss.h, Head(st.in)))
             /\ t.in = Tail(st.in)
             /\ IsHs(t.hs, r, ck, Append(h, Head(st.in)), k, n + 1, re, Head(st.in).p, left)
<1> DEFINE ss == DecryptAndHash(st.hs.ss, Head(st.in))
<1>1. IsSs(ss, ck, Append(h, Head(st.in)), k, n + 1)
  BY DecryptAndHashIs DEF IsHs
<1>2. SsShape(ss)
  BY <1>1 DEF IsSs
<1>3. ReadToken(st, "s") = ReadS(st)
  BY DEF ReadToken
<1>4. /\ RdShape(ReadS(st)) /\ (ReadS(st).ok <=> Opens(st.hs.ss, st.hs.ss.h, Head(st.in)))
      /\ ReadS(st).in = Tail(st.in)
      /\ ReadS(st).hs.ss = ss /\ ReadS(st).hs.role = r /\ ReadS(st).hs.rs = Head(st.in).p
      /\ ReadS(st).hs.re = re /\ ReadS(st).hs.left = left
  BY <1>2 DEF ReadS, RdShape, HsShape, IsHs
<1> HIDE DEF ss
<1> QED
  BY <1>1, <1>3, <1>4 DEF IsHs, RdShape

LEMMA ReadDhIs ==
  ASSUME NEW st, RdShape(st), NEW r, NEW ck, NEW h, NEW k, NEW n, NEW re, NEW rs, NEW left,
         IsHs(st.hs, r, ck, h, k, n, re, rs, left), st.ok, NEW token \in {"ee", "es", "se"}
  PROVE  LET t == ReadToken(st, token)
             key == Append(ck, Dh(st.hs, token))
         IN  /\ RdShape(t) /\ t.ok /\ t.in = st.in
             /\ IsHs(t.hs, r, key, h, key, 0, re, rs, left)
<1> DEFINE ss == MixKey(st.hs.ss, Dh(st.hs, token))
           key == Append(ck, Dh(st.hs, token))
<1>1. IsSs(ss, key, h, key, 0)
  BY MixKeyIs DEF IsHs
<1>2. SsShape(ss)
  BY <1>1 DEF IsSs
<1>3. ReadToken(st, token) = MixDh(st, token)
  BY DEF ReadToken
<1> HIDE DEF ss, key
<1>4. MixDh(st, token) = [st EXCEPT !.hs.ss = ss]
  BY DEF MixDh, ss
<1>5. /\ RdShape(MixDh(st, token)) /\ MixDh(st, token).ok /\ MixDh(st, token).in = st.in
      /\ MixDh(st, token).hs.ss = ss /\ MixDh(st, token).hs.role = r /\ MixDh(st, token).hs.re = re
      /\ MixDh(st, token).hs.rs = rs /\ MixDh(st, token).hs.left = left
  BY <1>2, <1>4 DEF RdShape, HsShape, IsHs
<1>6. RdShape(MixDh(st, token)) /\ MixDh(st, token).ok /\ MixDh(st, token).in = st.in
      /\ IsHs(MixDh(st, token).hs, r, key, h, key, 0, re, rs, left)
  BY <1>1, <1>5 DEF IsHs, RdShape
<1> QED
  BY <1>3, <1>6 DEF key

(* A message that has failed, or that is too short, fails.                 *)
LEMMA ReadFails ==
  ASSUME NEW st, ~st.ok, NEW token
  PROVE  ReadToken(st, token) = st
BY DEF ReadToken

LEMMA ReadShort ==
  ASSUME NEW st, RdShape(st), st.in = <<>>, NEW token \in {"e", "s"}
  PROVE  ~ReadToken(st, token).ok
<1>1. ~TooShort(st).ok
  BY DEF TooShort, RdShape
<1> QED
  BY <1>1 DEF ReadToken

-----------------------------------------------------------------------------
(* The messages of XX, and the keys and hashes they lead to.  The prologue *)
(* is a parameter: a peer of another version has another one.              *)
dEE == {Ephemeral(Responder), Ephemeral(Initiator)}
dES == {Static(Responder), Ephemeral(Initiator)}
dSE == {Static(Initiator), Ephemeral(Responder)}
k1 == Append(<<>>, dEE)
k2 == Append(k1, dES)
k3 == Append(k2, dSE)

Left1 == Tail(XXMessages)
Left2 == Tail(Left1)
Left3 == Tail(Left2)

pE1 == Clear(Ephemeral(Initiator))
pE2 == Clear(Ephemeral(Responder))
h0(prologue) == Append(<<>>, Clear(<<"", prologue>>))
h1(prologue) == Append(h0(prologue), pE1)
h2(prologue) == Append(h1(prologue), pE2)
pS2(prologue) == AeadEncrypt(k1, 0, h2(prologue), Static(Responder))
h3(prologue) == Append(h2(prologue), pS2(prologue))
pP2(prologue) == AeadEncrypt(k2, 0, h3(prologue), Empty)
h4(prologue) == Append(h3(prologue), pP2(prologue))
pS3 == AeadEncrypt(k2, 1, h4(Prologue), Static(Initiator))
h5 == Append(h4(Prologue), pS3)
pP3 == AeadEncrypt(k3, 0, h5, Login)
h6 == Append(h5, pP3)

LEMMA KeysNotEmpty ==
  /\ {k1, k2, k3} \subseteq Seq({dEE, dES, dSE})
  /\ k1 # NoKey /\ k2 # NoKey /\ k3 # NoKey
<1>1. k1 \in Seq({dEE, dES, dSE}) /\ k1 # NoKey
  BY DEF k1, NoKey
<1>2. k2 \in Seq({dEE, dES, dSE}) /\ k2 # NoKey
  BY <1>1 DEF k2, NoKey
<1>3. k3 \in Seq({dEE, dES, dSE}) /\ k3 # NoKey
  BY <1>2 DEF k3, NoKey
<1> QED
  BY <1>1, <1>2, <1>3

LEMMA Patterns ==
  /\ Head(XXMessages) = <<"e">> /\ Head(Left1) = <<"e", "ee", "s", "es">>
  /\ Head(Left2) = <<"s", "se">>
BY DEF XXMessages, Left1, Left2

LEMMA Tuple1 ==
  ASSUME NEW x
  PROVE  Append(<<>>, x) = <<x>> /\ Head(<<x>>) = x /\ Tail(<<x>>) = <<>> /\ <<x>> # <<>>
<1>1. Append(<<>>, x) = <<x>>
  OBVIOUS
<1>2. Head(<<x>>) = x /\ Tail(<<x>>) = <<>> /\ <<x>> # <<>>
  OBVIOUS
<1> QED
  BY <1>1, <1>2

LEMMA Tuple2 ==
  ASSUME NEW x, NEW y
  PROVE  /\ Append(<<x>>, y) = <<x, y>> /\ Head(<<x, y>>) = x /\ Tail(<<x, y>>) = <<y>>
         /\ <<x, y>> # <<>>
<1>1. Append(<<x>>, y) = <<x, y>>
  <2> DEFINE s == Append(<<x>>, y)
             t == <<x, y>>
  <2>1. s \in Seq({x, y}) /\ t \in Seq({x, y}) /\ Len(s) = 2 /\ Len(t) = 2
    OBVIOUS
  <2>2. \A i \in 1..2 : s[i] = t[i]
    OBVIOUS
  <2> HIDE DEF s, t
  <2>3. s = t
    BY <2>1, <2>2, SeqEqual
  <2> QED
    BY <2>3 DEF s, t
<1>2. Head(<<x, y>>) = x /\ <<x, y>> # <<>>
  OBVIOUS
<1>3. Tail(<<x, y>>) = <<y>>
  OBVIOUS
<1> QED
  BY <1>1, <1>2, <1>3

LEMMA Tuple3 ==
  ASSUME NEW x, NEW y, NEW z
  PROVE  /\ Append(<<x, y>>, z) = <<x, y, z>> /\ Head(<<x, y, z>>) = x
         /\ Tail(<<x, y, z>>) = <<y, z>> /\ <<x, y, z>> # <<>>
<1>1. Append(<<x, y>>, z) = <<x, y, z>>
  <2> DEFINE s == Append(<<x, y>>, z)
             t == <<x, y, z>>
  <2>1. s \in Seq({x, y, z}) /\ t \in Seq({x, y, z}) /\ Len(s) = 3 /\ Len(t) = 3
    OBVIOUS
  <2>2. \A i \in 1..3 : s[i] = t[i]
    OBVIOUS
  <2> HIDE DEF s, t
  <2>3. s = t
    BY <2>1, <2>2, SeqEqual
  <2> QED
    BY <2>3 DEF s, t
<1>2. Head(<<x, y, z>>) = x /\ <<x, y, z>> # <<>>
  OBVIOUS
<1>3. Tail(<<x, y, z>>) = <<y, z>>
  OBVIOUS
<1> QED
  BY <1>1, <1>2, <1>3

LEMMA WriteOne ==
  ASSUME NEW st, NEW a
  PROVE  WriteTokens(st, <<a>>) = WriteToken(st, a)
BY DEF WriteTokens

LEMMA WriteTwo ==
  ASSUME NEW st, NEW a, NEW b
  PROVE  WriteTokens(st, <<a, b>>) = WriteToken(WriteToken(st, a), b)
BY DEF WriteTokens

LEMMA WriteFour ==
  ASSUME NEW st, NEW a, NEW b, NEW c, NEW d
  PROVE  WriteTokens(st, <<a, b, c, d>>) =
           WriteToken(WriteToken(WriteToken(WriteToken(st, a), b), c), d)
BY DEF WriteTokens

LEMMA ReadOne ==
  ASSUME NEW st, NEW a
  PROVE  ReadTokens(st, <<a>>) = ReadToken(st, a)
BY DEF ReadTokens

LEMMA ReadTwo ==
  ASSUME NEW st, NEW a, NEW b
  PROVE  ReadTokens(st, <<a, b>>) = ReadToken(ReadToken(st, a), b)
BY DEF ReadTokens

LEMMA ReadFour ==
  ASSUME NEW st, NEW a, NEW b, NEW c, NEW d
  PROVE  ReadTokens(st, <<a, b, c, d>>) =
           ReadToken(ReadToken(ReadToken(ReadToken(st, a), b), c), d)
BY DEF ReadTokens

(* How a message begins: its pattern is taken off.                         *)
Starting(a) == [hs |-> [a EXCEPT !.left = Tail(@)], out |-> <<>>]
Opening(a, msg) == [hs |-> [a EXCEPT !.left = Tail(@)], in |-> msg, ok |-> TRUE]

LEMMA StartingIs ==
  ASSUME NEW a, NEW r, NEW ck, NEW h, NEW k, NEW n, NEW re, NEW rs, NEW left,
         IsHs(a, r, ck, h, k, n, re, rs, left)
  PROVE  /\ WrShape(Starting(a)) /\ Starting(a).out = <<>>
         /\ IsHs(Starting(a).hs, r, ck, h, k, n, re, rs, Tail(left))
BY DEF Starting, WrShape, IsHs, HsShape

LEMMA OpeningIs ==
  ASSUME NEW a, NEW r, NEW ck, NEW h, NEW k, NEW n, NEW re, NEW rs, NEW left,
         IsHs(a, r, ck, h, k, n, re, rs, left), NEW msg
  PROVE  LET st == Opening(a, msg)
         IN  /\ RdShape(st) /\ st.in = msg /\ st.ok
             /\ IsHs(st.hs, r, ck, h, k, n, re, rs, Tail(left))
<1>1. IsHs([a EXCEPT !.left = Tail(@)], r, ck, h, k, n, re, rs, Tail(left))
  BY DEF IsHs, HsShape
<1> QED
  BY <1>1 DEF Opening, RdShape, IsHs

LEMMA HandshakeStateIs ==
  ASSUME NEW r, NEW prologue
  PROVE  IsHs(HandshakeState(r, prologue), r, <<>>, h0(prologue), NoKey, 0, NoPub, NoPub, XXMessages)
<1>1. IsSs(InitializeSymmetric, <<>>, <<>>, NoKey, 0)
  BY DEF InitializeSymmetric, IsSs, SsShape
<1> DEFINE ss == MixHash(InitializeSymmetric, Clear(<<"", prologue>>))
<1>2. IsSs(ss, <<>>, h0(prologue), NoKey, 0)
  BY <1>1, MixHashIs DEF h0
<1> HIDE DEF ss
<1>3. HandshakeState(r, prologue) =
        [role |-> r, ss |-> ss, re |-> NoPub, rs |-> NoPub, left |-> XXMessages]
  BY DEF HandshakeState, ss
<1> QED
  BY <1>2, <1>3 DEF IsHs, HsShape, IsSs

(* The payload at the end of a message.                                    *)
Sealing(st, payload) ==
  [hs |-> [st.hs EXCEPT !.ss = EncryptAndHash(st.hs.ss, payload)],
   out |-> Append(st.out, Seal(st.hs.ss, st.hs.ss.h, payload))]

LEMMA WriteIsSealing ==
  ASSUME NEW a, NEW payload, WriteTokens(Starting(a), Head(a.left)).hs.ss.k # NoKey
  PROVE  WriteMessage(a, payload) = Sealing(WriteTokens(Starting(a), Head(a.left)), payload)
BY DEF WriteMessage, Starting, Sealing

LEMMA SealingOut ==
  ASSUME NEW st, NEW payload
  PROVE  Sealing(st, payload).out = Append(st.out, Seal(st.hs.ss, st.hs.ss.h, payload))
BY DEF Sealing

LEMMA SealingIs ==
  ASSUME NEW st, NEW r, NEW ck, NEW h, NEW k, NEW n, NEW re, NEW rs, NEW left,
         IsHs(st.hs, r, ck, h, k, n, re, rs, left), k # NoKey, NEW payload
  PROVE  LET piece == AeadEncrypt(k, n, h, payload)
         IN  /\ Seal(st.hs.ss, st.hs.ss.h, payload) = piece
             /\ IsHs(Sealing(st, payload).hs, r, ck, Append(h, piece), k, n + 1, re, rs, left)
<1> DEFINE ss == EncryptAndHash(st.hs.ss, payload)
           piece == AeadEncrypt(k, n, h, payload)
<1>1. IsSs(ss, ck, Append(h, piece), k, n + 1) /\ Seal(st.hs.ss, st.hs.ss.h, payload) = piece
  BY EncryptAndHashIs DEF IsHs
<1>2. Sealing(st, payload) = [hs |-> [st.hs EXCEPT !.ss = ss], out |-> Append(st.out, piece)]
  BY <1>1 DEF Sealing
<1> HIDE DEF ss, piece
<1>3. IsHs([st.hs EXCEPT !.ss = ss], r, ck, Append(h, piece), k, n + 1, re, rs, left)
  BY <1>1 DEF IsHs, HsShape, IsSs
<1> QED
  BY <1>1, <1>2, <1>3 DEF piece

LEMMA ReadPayload ==
  ASSUME NEW a, NEW msg, NEW st, st = ReadTokens(Opening(a, msg), Head(a.left)), st.ok,
         NEW r, NEW ck, NEW h, NEW k, NEW n, NEW re, NEW rs, NEW left,
         HsShape(st.hs), IsHs(st.hs, r, ck, h, k, n, re, rs, left), k # NoKey,
         NEW p, st.in = <<AeadEncrypt(k, n, h, p)>>
  PROVE  LET rd == ReadMessage(a, msg)
         IN  /\ rd.ok
             /\ IsHs(rd.hs, r, ck, Append(h, AeadEncrypt(k, n, h, p)), k, n + 1, re, rs, left)
<1> DEFINE piece == AeadEncrypt(k, n, h, p)
           ss == DecryptAndHash(st.hs.ss, piece)
<1>1. IsSs(ss, ck, Append(h, piece), k, n + 1) /\ Opens(st.hs.ss, st.hs.ss.h, piece)
  BY DecryptAndHashIs, OpensIs DEF IsHs
<1>2. st.hs.ss.k = k /\ st.in # <<>> /\ Head(st.in) = piece
  BY Tuple1 DEF IsHs, IsSs
<1>3. ReadMessage(a, msg) = [hs |-> [st.hs EXCEPT !.ss = ss], ok |-> Opens(st.hs.ss, st.hs.ss.h, piece)]
  BY <1>2 DEF ReadMessage, Opening
<1> HIDE DEF ss, piece
<1>4. IsHs([st.hs EXCEPT !.ss = ss], r, ck, Append(h, piece), k, n + 1, re, rs, left)
  BY <1>1 DEF IsHs, HsShape, IsSs
<1>5. ReadMessage(a, msg).ok /\ ReadMessage(a, msg).hs = [st.hs EXCEPT !.ss = ss]
  BY <1>1, <1>3
<1> QED
  BY <1>4, <1>5 DEF piece

(* An error in the tokens is an error of the message.                      *)
LEMMA ReadRefused ==
  ASSUME NEW a, NEW msg, ~ReadTokens(Opening(a, msg), Head(a.left)).ok
  PROVE  ~ReadMessage(a, msg).ok
BY DEF ReadMessage, Opening

-----------------------------------------------------------------------------
(* Leg 1, -> e.                                                            *)
LEMMA HelloWritten ==
  ASSUME NEW a, IsHs(a, Initiator, <<>>, h0(Prologue), NoKey, 0, NoPub, NoPub, XXMessages)
  PROVE  LET w == WriteMessage(a, Empty)
         IN  /\ w.out = <<pE1>>
             /\ IsHs(w.hs, Initiator, <<>>, h1(Prologue), NoKey, 0, NoPub, NoPub, Left1)
<1> DEFINE s0 == Starting(a)
           s1 == WriteToken(s0, "e")
<1>1. /\ WrShape(s0) /\ s0.out = <<>>
      /\ IsHs(s0.hs, Initiator, <<>>, h0(Prologue), NoKey, 0, NoPub, NoPub, Left1)
  BY StartingIs DEF Left1
<1> HIDE DEF s0
<1>2. /\ s1.out = Append(<<>>, pE1)
      /\ IsHs(s1.hs, Initiator, <<>>, h1(Prologue), NoKey, 0, NoPub, NoPub, Left1)
  BY <1>1, WriteEIs DEF h1, pE1
<1>3. WriteTokens(s0, Head(a.left)) = s1
  <2>1. Head(a.left) = <<"e">>
    BY Patterns DEF IsHs
  <2> QED
    BY <2>1, WriteOne
<1>4. s1.hs.ss.k = NoKey
  BY <1>2 DEF IsHs, IsSs
<1> HIDE DEF s1
<1>5. WriteMessage(a, Empty) = s1
  BY <1>3, <1>4 DEF WriteMessage, s0, Starting
<1> QED
  BY <1>2, <1>5, Tuple1

LEMMA HelloIsRead ==
  ASSUME NEW prologue, NEW a,
         IsHs(a, Responder, <<>>, h0(prologue), NoKey, 0, NoPub, NoPub, XXMessages)
  PROVE  LET rd == ReadMessage(a, <<pE1>>)
         IN  IsHs(rd.hs, Responder, <<>>, h1(prologue), NoKey, 0, Ephemeral(Initiator), NoPub, Left1)
<1> DEFINE s0 == Opening(a, <<pE1>>)
           s1 == ReadToken(s0, "e")
<1>1. /\ RdShape(s0) /\ s0.in = <<pE1>> /\ s0.ok
      /\ IsHs(s0.hs, Responder, <<>>, h0(prologue), NoKey, 0, NoPub, NoPub, Left1)
  BY OpeningIs DEF Left1
<1>2. s0.in # <<>> /\ Head(s0.in) = pE1 /\ Tail(s0.in) = <<>> /\ pE1.p = Ephemeral(Initiator)
  BY <1>1, Tuple1 DEF pE1, Clear
<1> HIDE DEF s0
<1>3. /\ s1.in = <<>> /\ s1.ok
      /\ IsHs(s1.hs, Responder, <<>>, h1(prologue), NoKey, 0, Ephemeral(Initiator), NoPub, Left1)
  BY <1>1, <1>2, ReadEIs DEF h1
<1>4. ReadTokens(s0, Head(a.left)) = s1
  <2>1. Head(a.left) = <<"e">>
    BY Patterns DEF IsHs
  <2> QED
    BY <2>1, ReadOne
<1>5. s1.hs.ss.k = NoKey
  BY <1>3 DEF IsHs, IsSs
<1> HIDE DEF s1
<1>6. ReadMessage(a, <<pE1>>).hs = s1.hs
  BY <1>3, <1>4, <1>5 DEF ReadMessage, s0, Opening
<1> QED
  BY <1>3, <1>6

(* Leg 2, <- e, ee, s, es.  The prologue is the responder's.               *)
LEMMA ReplyWritten ==
  ASSUME NEW prologue, NEW a,
         IsHs(a, Responder, <<>>, h1(prologue), NoKey, 0, Ephemeral(Initiator), NoPub, Left1)
  PROVE  LET w == WriteMessage(a, Empty)
         IN  /\ w.out = <<pE2, pS2(prologue), pP2(prologue)>>
             /\ IsHs(w.hs, Responder, k2, h4(prologue), k2, 1, Ephemeral(Initiator), NoPub, Left2)
<1> DEFINE s0 == Starting(a)
           s1 == WriteToken(s0, "e")
           s2 == WriteToken(s1, "ee")
           s3 == WriteToken(s2, "s")
           s4 == WriteToken(s3, "es")
           eI == Ephemeral(Initiator)
<1>1. /\ WrShape(s0) /\ s0.out = <<>>
      /\ IsHs(s0.hs, Responder, <<>>, h1(prologue), NoKey, 0, eI, NoPub, Left2)
  BY StartingIs DEF Left2
<1> HIDE DEF s0
<1>2. /\ WrShape(s1) /\ s1.out = Append(<<>>, pE2)
      /\ IsHs(s1.hs, Responder, <<>>, h2(prologue), NoKey, 0, eI, NoPub, Left2)
  BY <1>1, WriteEIs DEF h2, pE2
<1> HIDE DEF s1
<1>3. Dh(s1.hs, "ee") = dEE
  BY <1>2 DEF Dh, dEE, DhOutput, IsHs
<1>4. /\ WrShape(s2) /\ s2.out = Append(<<>>, pE2)
      /\ IsHs(s2.hs, Responder, k1, h2(prologue), k1, 0, eI, NoPub, Left2)
  BY <1>2, <1>3, WriteDhIs DEF k1
<1> HIDE DEF s2
<1>5. /\ WrShape(s3) /\ s3.out = Append(Append(<<>>, pE2), pS2(prologue))
      /\ IsHs(s3.hs, Responder, k1, h3(prologue), k1, 1, eI, NoPub, Left2)
  <2>1. k1 # NoKey
    BY KeysNotEmpty
  <2> DEFINE t == WriteToken(s2, "s")
             piece == AeadEncrypt(k1, 0, h2(prologue), Static(Responder))
  <2>2. /\ WrShape(t) /\ t.out = Append(s2.out, piece)
        /\ IsHs(t.hs, Responder, k1, Append(h2(prologue), piece), k1, 0 + 1, eI, NoPub, Left2)
    BY ONLY <1>4, <2>1, WriteSIs
  <2>3. 0 + 1 = 1
    OBVIOUS
  <2> QED
    BY ONLY <1>4, <2>2, <2>3 DEF h3, pS2
<1> HIDE DEF s3
<1>6. Dh(s3.hs, "es") = dES
  BY <1>5 DEF Dh, dES, DhOutput, IsHs, Initiator, Responder
<1>7. /\ WrShape(s4) /\ s4.out = Append(Append(<<>>, pE2), pS2(prologue))
      /\ IsHs(s4.hs, Responder, k2, h3(prologue), k2, 0, eI, NoPub, Left2)
  BY <1>5, <1>6, WriteDhIs DEF k2
<1>8. s4 = WriteTokens(s0, <<"e", "ee", "s", "es">>)
  BY WriteFour DEF s1, s2, s3
<1>9. Head(a.left) = <<"e", "ee", "s", "es">>
  BY Patterns DEF IsHs
<1> HIDE DEF s4
<1>10. /\ WriteMessage(a, Empty).out = Append(s4.out, pP2(prologue))
       /\ IsHs(WriteMessage(a, Empty).hs, Responder, k2, h4(prologue), k2, 1, eI, NoPub, Left2)
  <2>1. s4 = WriteTokens(Starting(a), Head(a.left))
    BY ONLY <1>8, <1>9 DEF s0
  <2>3. k2 # NoKey /\ 0 + 1 = 1 /\ HsShape(s4.hs)
    BY <1>7, KeysNotEmpty DEF WrShape
  <2> DEFINE w == WriteMessage(a, Empty)
             piece == AeadEncrypt(k2, 0, h3(prologue), Empty)
  <2>2. /\ w.out = Append(s4.out, piece)
        /\ IsHs(w.hs, Responder, k2, Append(h3(prologue), piece), k2, 0 + 1, eI, NoPub, Left2)
    <3>1. w = Sealing(s4, Empty)
      BY <1>7, <2>1, <2>3, WriteIsSealing DEF IsHs, IsSs
    <3>2. k2 # NoKey /\ IsHs(s4.hs, Responder, k2, h3(prologue), k2, 0, eI, NoPub, Left2)
      BY <1>7, <2>3
    <3>3. Sealing(s4, Empty).out = Append(s4.out, piece)
      <4>1. Seal(s4.hs.ss, s4.hs.ss.h, Empty) = piece
        BY ONLY <3>2, EncryptAndHashIs DEF IsHs
      <4> QED
        BY ONLY <4>1, SealingOut, Zenon
    <3>4. IsHs(Sealing(s4, Empty).hs, Responder, k2, Append(h3(prologue), piece), k2, 0 + 1, eI, NoPub, Left2)
      BY ONLY <3>2, SealingIs
    <3> QED
      BY ONLY <3>1, <3>3, <3>4
  <2> QED
    BY ONLY <2>3, <2>2 DEF h4, pP2
<1> QED
  <2>1. WriteMessage(a, Empty).out = <<pE2, pS2(prologue), pP2(prologue)>>
    <3>1. Append(<<>>, pE2) = <<pE2>> /\ Append(<<pE2>>, pS2(prologue)) = <<pE2, pS2(prologue)>>
      BY ONLY Tuple1, Tuple2, Zenon
    <3>2. Append(<<pE2, pS2(prologue)>>, pP2(prologue)) = <<pE2, pS2(prologue), pP2(prologue)>>
      BY ONLY Tuple3, Zenon
    <3> QED
      BY ONLY <1>7, <1>10, <3>1, <3>2, Zenon
  <2> QED
    BY <2>1, <1>10

(* The initiator's side of leg 2, up to where the prologues matter.        *)
LEMMA ReplyOpening ==
  ASSUME NEW a,
         IsHs(a, Initiator, <<>>, h1(Prologue), NoKey, 0, NoPub, NoPub, Left1),
         NEW msg, msg # <<>>, Head(msg) = pE2
  PROVE  LET s == ReadToken(ReadToken(Opening(a, msg), "e"), "ee")
         IN  /\ RdShape(s) /\ s.ok /\ s.in = Tail(msg)
             /\ IsHs(s.hs, Initiator, k1, h2(Prologue), k1, 0, Ephemeral(Responder), NoPub, Left2)
<1> DEFINE s0 == Opening(a, msg)
           s1 == ReadToken(s0, "e")
           eR == Ephemeral(Responder)
<1>1. /\ RdShape(s0) /\ s0.in = msg /\ s0.ok
      /\ IsHs(s0.hs, Initiator, <<>>, h1(Prologue), NoKey, 0, NoPub, NoPub, Left2)
  BY OpeningIs DEF Left2
<1>2. pE2.p = eR
  BY DEF pE2, Clear
<1> HIDE DEF s0
<1>3. /\ RdShape(s1) /\ s1.in = Tail(msg) /\ s1.ok
      /\ IsHs(s1.hs, Initiator, <<>>, h2(Prologue), NoKey, 0, eR, NoPub, Left2)
  <2> DEFINE t == ReadToken(s0, "e")
  <2>1. s0.in # <<>> /\ Head(s0.in) = pE2 /\ Tail(s0.in) = Tail(msg)
    BY <1>1, Zenon
  <2>2. /\ RdShape(t) /\ t.ok /\ t.in = Tail(s0.in)
        /\ IsHs(t.hs, Initiator, <<>>, Append(h1(Prologue), Head(s0.in)), NoKey, 0, Head(s0.in).p,
                NoPub, Left2)
    BY ONLY <1>1, <2>1, ReadEIs, Zenon
  <2> QED
    BY ONLY <1>2, <2>1, <2>2, Zenon DEF h2
<1> HIDE DEF s1
<1>4. Dh(s1.hs, "ee") = dEE
  BY <1>3 DEF Dh, dEE, DhOutput, IsHs
<1> QED
  BY <1>3, <1>4, ReadDhIs DEF k1, s1, s0

LEMMA ReplyIsRead ==
  ASSUME NEW a, IsHs(a, Initiator, <<>>, h1(Prologue), NoKey, 0, NoPub, NoPub, Left1)
  PROVE  LET rd == ReadMessage(a, <<pE2, pS2(Prologue), pP2(Prologue)>>)
         IN  /\ rd.ok
             /\ IsHs(rd.hs, Initiator, k2, h4(Prologue), k2, 1, Ephemeral(Responder),
                     Static(Responder), Left2)
<1> DEFINE msg == <<pE2, pS2(Prologue), pP2(Prologue)>>
           s2 == ReadToken(ReadToken(Opening(a, msg), "e"), "ee")
           s3 == ReadToken(s2, "s")
           s4 == ReadToken(s3, "es")
           eR == Ephemeral(Responder)
           sR == Static(Responder)
<1>1. /\ msg # <<>> /\ Head(msg) = pE2 /\ Tail(msg) = <<pS2(Prologue), pP2(Prologue)>>
      /\ Tail(msg) # <<>> /\ Head(Tail(msg)) = pS2(Prologue) /\ Tail(Tail(msg)) = <<pP2(Prologue)>>
  BY Tuple1, Tuple2, Tuple3
<1> HIDE DEF msg
<1>2. /\ RdShape(s2) /\ s2.ok /\ s2.in = Tail(msg)
      /\ IsHs(s2.hs, Initiator, k1, h2(Prologue), k1, 0, eR, NoPub, Left2)
  BY <1>1, ReplyOpening
<1>3. s4 = ReadTokens(Opening(a, msg), <<"e", "ee", "s", "es">>)
  BY ReadFour
<1> HIDE DEF s2
<1>4. Opens(s2.hs.ss, s2.hs.ss.h, pS2(Prologue)) /\ pS2(Prologue).p = sR
  BY <1>2, OpensIs, KeysNotEmpty DEF IsHs, pS2, AeadEncrypt
<1>5. /\ RdShape(s3) /\ s3.ok /\ s3.in = <<pP2(Prologue)>>
      /\ IsHs(s3.hs, Initiator, k1, h3(Prologue), k1, 1, eR, sR, Left2)
  <2>1. k1 # NoKey /\ 0 + 1 = 1 /\ s2.in # <<>> /\ Head(s2.in) = pS2(Prologue)
        /\ Tail(s2.in) = <<pP2(Prologue)>>
    BY <1>1, <1>2, KeysNotEmpty
  <2> DEFINE t == ReadToken(s2, "s")
  <2>2. /\ RdShape(t) /\ (t.ok <=> Opens(s2.hs.ss, s2.hs.ss.h, Head(s2.in)))
        /\ t.in = Tail(s2.in)
        /\ IsHs(t.hs, Initiator, k1, Append(h2(Prologue), Head(s2.in)), k1, 0 + 1, eR,
                Head(s2.in).p, Left2)
    BY ONLY <1>2, <2>1, ReadSIs
  <2> QED
    BY ONLY <1>4, <2>1, <2>2 DEF h3
<1> HIDE DEF s3
<1>6. Dh(s3.hs, "es") = dES
  BY <1>5 DEF Dh, dES, DhOutput, IsHs
<1>7. /\ RdShape(s4) /\ s4.ok /\ s4.in = <<pP2(Prologue)>>
      /\ IsHs(s4.hs, Initiator, k2, h3(Prologue), k2, 0, eR, sR, Left2)
  BY <1>5, <1>6, ReadDhIs DEF k2
<1>8. Head(a.left) = <<"e", "ee", "s", "es">>
  BY Patterns DEF IsHs
<1> HIDE DEF s4
<1> QED
  <2>1. s4 = ReadTokens(Opening(a, msg), Head(a.left))
    BY ONLY <1>3, <1>8
  <2>4. k2 # NoKey /\ 0 + 1 = 1 /\ HsShape(s4.hs)
    BY <1>7, KeysNotEmpty DEF RdShape
  <2> DEFINE rd == ReadMessage(a, msg)
             piece == AeadEncrypt(k2, 0, h3(Prologue), Empty)
  <2>2. s4.ok /\ s4.in = <<piece>>
    BY <1>7 DEF pP2
  <2>3. /\ rd.ok
        /\ IsHs(rd.hs, Initiator, k2, Append(h3(Prologue), piece), k2, 0 + 1, eR, sR, Left2)
    BY ONLY <1>7, <2>1, <2>2, <2>4, ReadPayload
  <2> QED
    BY ONLY <2>4, <2>3 DEF h4, pP2, msg

(* Leg 3, -> s, se.                                                        *)
LEMMA FinishWritten ==
  ASSUME NEW a, IsHs(a, Initiator, k2, h4(Prologue), k2, 1, Ephemeral(Responder),
                     Static(Responder), Left2)
  PROVE  LET w == WriteMessage(a, Login)
         IN  /\ w.out = <<pS3, pP3>>
             /\ IsHs(w.hs, Initiator, k3, h6, k3, 1, Ephemeral(Responder), Static(Responder), Left3)
<1> DEFINE s0 == Starting(a)
           s1 == WriteToken(s0, "s")
           s2 == WriteToken(s1, "se")
           eR == Ephemeral(Responder)
           sR == Static(Responder)
<1>1. /\ WrShape(s0) /\ s0.out = <<>>
      /\ IsHs(s0.hs, Initiator, k2, h4(Prologue), k2, 1, eR, sR, Left3)
  BY StartingIs DEF Left3
<1> HIDE DEF s0
<1>2. /\ WrShape(s1) /\ s1.out = Append(<<>>, pS3)
      /\ IsHs(s1.hs, Initiator, k2, h5, k2, 2, eR, sR, Left3)
  <2>1. k2 # NoKey /\ 1 + 1 = 2
    BY KeysNotEmpty
  <2> DEFINE t == WriteToken(s0, "s")
             piece == AeadEncrypt(k2, 1, h4(Prologue), Static(Initiator))
  <2>2. /\ WrShape(t) /\ t.out = Append(s0.out, piece)
        /\ IsHs(t.hs, Initiator, k2, Append(h4(Prologue), piece), k2, 1 + 1, eR, sR, Left3)
    BY ONLY <1>1, <2>1, WriteSIs
  <2> QED
    BY ONLY <1>1, <2>1, <2>2 DEF h5, pS3
<1> HIDE DEF s1
<1>3. Dh(s1.hs, "se") = dSE
  BY <1>2 DEF Dh, dSE, DhOutput, IsHs
<1>4. /\ WrShape(s2) /\ s2.out = Append(<<>>, pS3)
      /\ IsHs(s2.hs, Initiator, k3, h5, k3, 0, eR, sR, Left3)
  BY <1>2, <1>3, WriteDhIs DEF k3
<1>5. s2 = WriteTokens(s0, <<"s", "se">>)
  BY WriteTwo DEF s1
<1>6. Head(a.left) = <<"s", "se">>
  BY Patterns DEF IsHs
<1> HIDE DEF s2
<1>7. /\ WriteMessage(a, Login).out = Append(s2.out, pP3)
      /\ IsHs(WriteMessage(a, Login).hs, Initiator, k3, h6, k3, 1, eR, sR, Left3)
  <2>1. s2 = WriteTokens(Starting(a), Head(a.left))
    BY ONLY <1>5, <1>6 DEF s0
  <2>3. k3 # NoKey /\ 0 + 1 = 1 /\ HsShape(s2.hs)
    BY <1>4, KeysNotEmpty DEF WrShape
  <2> DEFINE w == WriteMessage(a, Login)
             piece == AeadEncrypt(k3, 0, h5, Login)
  <2>2. /\ w.out = Append(s2.out, piece)
        /\ IsHs(w.hs, Initiator, k3, Append(h5, piece), k3, 0 + 1, eR, sR, Left3)
    <3>1. w = Sealing(s2, Login)
      BY <1>4, <2>1, <2>3, WriteIsSealing DEF IsHs, IsSs
    <3> QED
      <4>2. k3 # NoKey /\ IsHs(s2.hs, Initiator, k3, h5, k3, 0, eR, sR, Left3)
        BY <1>4, <2>3
      <4>3. Sealing(s2, Login).out = Append(s2.out, piece)
        <5>1. Seal(s2.hs.ss, s2.hs.ss.h, Login) = piece
          BY ONLY <4>2, EncryptAndHashIs DEF IsHs
        <5> QED
          BY ONLY <5>1, SealingOut, Zenon
      <4>4. IsHs(Sealing(s2, Login).hs, Initiator, k3, Append(h5, piece), k3, 0 + 1, eR, sR, Left3)
        BY ONLY <4>2, SealingIs
      <4> QED
        BY ONLY <3>1, <4>3, <4>4
  <2> QED
    BY ONLY <2>3, <2>2 DEF h6, pP3
<1> QED
  <2>1. WriteMessage(a, Login).out = <<pS3, pP3>>
    <3>1. Append(<<>>, pS3) = <<pS3>> /\ Append(<<pS3>>, pP3) = <<pS3, pP3>>
      BY ONLY Tuple1, Tuple2, Zenon
    <3> QED
      BY ONLY <1>4, <1>7, <3>1, Zenon
  <2> QED
    BY <2>1, <1>7

LEMMA FinishIsRead ==
  ASSUME NEW a, IsHs(a, Responder, k2, h4(Prologue), k2, 1, Ephemeral(Initiator), NoPub, Left2)
  PROVE  LET rd == ReadMessage(a, <<pS3, pP3>>)
         IN  /\ rd.ok
             /\ IsHs(rd.hs, Responder, k3, h6, k3, 1, Ephemeral(Initiator), Static(Initiator), Left3)
<1> DEFINE msg == <<pS3, pP3>>
           s0 == Opening(a, msg)
           s1 == ReadToken(s0, "s")
           s2 == ReadToken(s1, "se")
           eI == Ephemeral(Initiator)
           sI == Static(Initiator)
<1>1. msg # <<>> /\ Head(msg) = pS3 /\ Tail(msg) = <<pP3>>
  BY Tuple1, Tuple2, Tuple3
<1> HIDE DEF msg
<1>2. /\ RdShape(s0) /\ s0.in = msg /\ s0.ok
      /\ IsHs(s0.hs, Responder, k2, h4(Prologue), k2, 1, eI, NoPub, Left3)
  BY OpeningIs DEF Left3
<1> HIDE DEF s0
<1>3. Opens(s0.hs.ss, s0.hs.ss.h, pS3) /\ pS3.p = sI
  BY <1>2, OpensIs, KeysNotEmpty DEF IsHs, pS3, AeadEncrypt
<1>4. /\ RdShape(s1) /\ s1.ok /\ s1.in = <<pP3>>
      /\ IsHs(s1.hs, Responder, k2, h5, k2, 2, eI, sI, Left3)
  <2>1. k2 # NoKey /\ 1 + 1 = 2 /\ s0.in # <<>> /\ Head(s0.in) = pS3 /\ Tail(s0.in) = <<pP3>>
    BY <1>1, <1>2, KeysNotEmpty
  <2> DEFINE t == ReadToken(s0, "s")
  <2>2. /\ RdShape(t) /\ (t.ok <=> Opens(s0.hs.ss, s0.hs.ss.h, Head(s0.in)))
        /\ t.in = Tail(s0.in)
        /\ IsHs(t.hs, Responder, k2, Append(h4(Prologue), Head(s0.in)), k2, 1 + 1, eI,
                Head(s0.in).p, Left3)
    BY ONLY <1>2, <2>1, ReadSIs
  <2> QED
    BY ONLY <1>3, <2>1, <2>2 DEF h5
<1> HIDE DEF s1
<1>5. Dh(s1.hs, "se") = dSE
  BY <1>4 DEF Dh, dSE, DhOutput, IsHs, Initiator, Responder
<1>6. /\ RdShape(s2) /\ s2.ok /\ s2.in = <<pP3>>
      /\ IsHs(s2.hs, Responder, k3, h5, k3, 0, eI, sI, Left3)
  BY <1>4, <1>5, ReadDhIs DEF k3
<1>7. s2 = ReadTokens(s0, <<"s", "se">>)
  BY ReadTwo DEF s1
<1>8. Head(a.left) = <<"s", "se">>
  BY Patterns DEF IsHs
<1> HIDE DEF s2
<1> QED
  <2>1. s2 = ReadTokens(Opening(a, msg), Head(a.left))
    BY ONLY <1>7, <1>8 DEF s0
  <2>4. k3 # NoKey /\ 0 + 1 = 1 /\ HsShape(s2.hs)
    BY <1>6, KeysNotEmpty DEF RdShape
  <2> DEFINE rd == ReadMessage(a, msg)
             piece == AeadEncrypt(k3, 0, h5, Login)
  <2>2. s2.ok /\ s2.in = <<piece>>
    BY <1>6 DEF pP3
  <2>3. rd.ok /\ IsHs(rd.hs, Responder, k3, Append(h5, piece), k3, 0 + 1, eI, sI, Left3)
    BY ONLY <1>6, <2>1, <2>2, <2>4, ReadPayload
  <2> QED
    BY ONLY <2>4, <2>3 DEF h6, pP3, msg

(* A peer with another prologue has another hash, and its s does not open. *)
LEMMA HashTellsPrologue ==
  ASSUME NEW x, NEW y, h2(x) = h2(y)
  PROVE  x = y
<1>1. \A z : h2(z) = <<Clear(<<"", z>>), pE1, pE2>>
  <2> TAKE z
  <2> DEFINE c == Clear(<<"", z>>)
  <2>1. h2(z) = Append(Append(Append(<<>>, c), pE1), pE2)
    BY Zenon DEF h0, h1, h2
  <2> HIDE DEF c
  <2>2. Append(<<>>, c) = <<c>> /\ Append(<<c>>, pE1) = <<c, pE1>>
        /\ Append(<<c, pE1>>, pE2) = <<c, pE1, pE2>>
    <3>1. Append(<<>>, c) = <<c>>
      BY ONLY Tuple1, Zenon
    <3>2. Append(<<c>>, pE1) = <<c, pE1>>
      BY ONLY Tuple2, Zenon
    <3>3. Append(<<c, pE1>>, pE2) = <<c, pE1, pE2>>
      BY ONLY Tuple3, Zenon
    <3> QED
      BY ONLY <3>1, <3>2, <3>3, Zenon
  <2>3. h2(z) = <<c, pE1, pE2>>
    BY ONLY <2>1, <2>2, Zenon
  <2> QED
    BY <2>3 DEF c
<1>2. <<Clear(<<"", x>>), pE1, pE2>> = <<Clear(<<"", y>>), pE1, pE2>>
  BY <1>1, Zenon
<1>3. Clear(<<"", x>>) = Clear(<<"", y>>)
  BY ONLY <1>2
<1>4. Clear(<<"", x>>).p = <<"", x>> /\ Clear(<<"", y>>).p = <<"", y>>
  BY DEF Clear
<1>5. <<"", x>> = <<"", y>>
  BY <1>3, <1>4, Zenon
<1> QED
  BY ONLY <1>5

BadHello(bad) == bad \in {<<>>, <<pE2>>, <<pE2, pS2("other")>>, <<pE2, pS2("other"), pP2("other")>>}

LEMMA BadHellosAre ==
  ASSUME IsHs(hs[Responder], Responder, <<>>, h0(Prologue), NoKey, 0, NoPub, NoPub, XXMessages),
         NEW bad \in BadHellos(<<pE1>>)
  PROVE  BadHello(bad)
<1> DEFINE other == [hs[Responder] EXCEPT !.ss = HandshakeState(Responder, "other").ss]
           w == WriteMessage(ReadMessage(other, <<pE1>>).hs, Empty)
<1>1. IsSs(HandshakeState(Responder, "other").ss, <<>>, h0("other"), NoKey, 0)
  BY HandshakeStateIs DEF IsHs
<1>2. IsHs(other, Responder, <<>>, h0("other"), NoKey, 0, NoPub, NoPub, XXMessages)
  BY <1>1 DEF IsHs, HsShape, IsSs
<1>3. bad \in {<<>>, SubSeq(w.out, 1, 1), SubSeq(w.out, 1, 2), w.out}
  BY Zenon DEF BadHellos
<1> HIDE DEF other
<1>4. IsHs(ReadMessage(other, <<pE1>>).hs, Responder, <<>>, h1("other"), NoKey, 0,
           Ephemeral(Initiator), NoPub, Left1)
  BY <1>2, HelloIsRead
<1>5. w.out = <<pE2, pS2("other"), pP2("other")>>
  BY <1>4, ReplyWritten
<1> HIDE DEF w
<1>6. \A x, y, z : SubSeq(<<x, y, z>>, 1, 1) = <<x>> /\ SubSeq(<<x, y, z>>, 1, 2) = <<x, y>>
  <2> TAKE x, y, z
  <2> DEFINE t == <<x, y, z>>
  <2>1. t \in Seq({x, y, z}) /\ Len(t) = 3 /\ t[1] = x /\ t[2] = y
    OBVIOUS
  <2> HIDE DEF t
  <2>2. SubSeq(t, 1, 1) \in Seq({x, y, z}) /\ SubSeq(t, 1, 2) \in Seq({x, y, z})
    BY <2>1
  <2>3. /\ Len(SubSeq(t, 1, 1)) = 1 /\ SubSeq(t, 1, 1)[1] = x
        /\ Len(SubSeq(t, 1, 2)) = 2 /\ SubSeq(t, 1, 2)[1] = x /\ SubSeq(t, 1, 2)[2] = y
    BY <2>1
  <2>4. SubSeq(t, 1, 1) = <<x>>
    <3> DEFINE u == SubSeq(t, 1, 1)
               v == <<x>>
    <3>1. u \in Seq({x, y, z}) /\ v \in Seq({x, y, z}) /\ Len(u) = 1 /\ Len(v) = 1 /\ u[1] = v[1]
      BY <2>2, <2>3
    <3> HIDE DEF u, v
    <3>2. u = v
      BY <3>1, SeqEqual
    <3> QED
      BY <3>2 DEF u, v
  <2>5. SubSeq(t, 1, 2) = <<x, y>>
    <3> DEFINE u == SubSeq(t, 1, 2)
               v == <<x, y>>
    <3>1. /\ u \in Seq({x, y, z}) /\ v \in Seq({x, y, z}) /\ Len(u) = 2 /\ Len(v) = 2
          /\ u[1] = v[1] /\ u[2] = v[2]
      BY <2>2, <2>3
    <3> HIDE DEF u, v
    <3>2. u = v
      BY <3>1, SeqEqual
    <3> QED
      BY <3>2 DEF u, v
  <2> QED
    BY <2>4, <2>5 DEF t
<1> QED
  BY ONLY <1>3, <1>5, <1>6, Zenon DEF BadHello

LEMMA BadHelloRefused ==
  ASSUME NEW a, IsHs(a, Initiator, <<>>, h1(Prologue), NoKey, 0, NoPub, NoPub, Left1),
         NEW bad, BadHello(bad)
  PROVE  ~ReadMessage(a, bad).ok
<1> DEFINE s0 == Opening(a, bad)
           s1 == ReadToken(s0, "e")
           s2 == ReadToken(s1, "ee")
           s3 == ReadToken(s2, "s")
           s4 == ReadToken(s3, "es")
<1>1. Head(a.left) = <<"e", "ee", "s", "es">>
  BY Patterns DEF IsHs
<1>2. ReadTokens(s0, Head(a.left)) = s4
  BY ONLY <1>1, ReadFour
<1> SUFFICES ~s4.ok
  BY <1>2, ReadRefused, Zenon
<1>3. CASE bad = <<>>
  <2>1. RdShape(s0) /\ s0.in = <<>>
    BY <1>3, OpeningIs
  <2> HIDE DEF s0
  <2>2. ~s1.ok
    BY ONLY <2>1, ReadShort
  <2> HIDE DEF s1
  <2>3. s2 = s1
    BY ONLY <2>2, ReadFails, Zenon
  <2>4. s3 = s2
    BY ONLY <2>2, <2>3, ReadFails, Zenon
  <2>5. s4 = s3
    BY ONLY <2>2, <2>3, <2>4, ReadFails, Zenon
  <2> QED
    BY ONLY <2>2, <2>3, <2>4, <2>5, Zenon
<1>4. CASE bad # <<>>
  <2>1. /\ Head(bad) = pE2
        /\ Tail(bad) = <<>> \/ (Tail(bad) # <<>> /\ Head(Tail(bad)) = pS2("other"))
    <3>1. CASE bad = <<pE2>>
      BY ONLY <3>1, Tuple1, Zenon
    <3>2. CASE bad = <<pE2, pS2("other")>>
      BY ONLY <3>2, Tuple1, Tuple2
    <3>3. CASE bad = <<pE2, pS2("other"), pP2("other")>>
      BY ONLY <3>3, Tuple2, Tuple3
    <3> QED
      BY ONLY <1>4, BadHello(bad), <3>1, <3>2, <3>3, Zenon DEF BadHello
  <2>2. /\ RdShape(s2) /\ s2.ok /\ s2.in = Tail(bad)
        /\ IsHs(s2.hs, Initiator, k1, h2(Prologue), k1, 0, Ephemeral(Responder), NoPub, Left2)
    BY <1>4, <2>1, ReplyOpening
  <2> HIDE DEF s2
  <2>3. ~s3.ok
    <3>1. CASE s2.in = <<>>
      BY ONLY <3>1, <2>2, ReadShort
    <3>2. CASE s2.in # <<>>
      <4>1. Head(s2.in) = pS2("other")
        BY ONLY <3>2, <2>1, <2>2, Zenon
      <4>2. h2("other") # h2(Prologue)
        BY HashTellsPrologue DEF Prologue
      <4>3. k1 # NoKey
        BY KeysNotEmpty
      <4>4. ~Opens(s2.hs.ss, s2.hs.ss.h, pS2("other"))
        BY ONLY <2>2, <4>2, <4>3, OpensIs DEF IsHs, pS2
      <4>5. s3.ok <=> Opens(s2.hs.ss, s2.hs.ss.h, Head(s2.in))
        BY ONLY <2>2, <3>2, <4>3, ReadSIs
      <4> QED
        BY ONLY <4>1, <4>4, <4>5
    <3> QED
      BY ONLY <3>1, <3>2
  <2> HIDE DEF s3
  <2>4. s4 = s3
    BY ONLY <2>3, ReadFails, Zenon
  <2> QED
    BY ONLY <2>3, <2>4, Zenon
<1> QED
  BY ONLY <1>3, <1>4
-----------------------------------------------------------------------------
(***************************************************************************)
(* The inductive invariant.                                                *)
(***************************************************************************)
Label(r) == IF r = Initiator THEN {"c1"} ELSE {"c2"}

(* The key of a direction after e rekeys: the chain of the handshake, the  *)
(* half of split, and one step per rekey.                                  *)
KeyOf(r, e) ==
  [i \in 1 .. 4 + e |-> IF i <= 3 THEN k3[i] ELSE IF i = 4 THEN Label(r) ELSE {"rekey"}]

(* A cipher state of r's direction that has counted x frames.              *)
Place(cs, r, x) ==
  \E e \in Nat : /\ DOMAIN cs = {"k", "n"} /\ cs.k = KeyOf(r, e)
                 /\ cs.n \in 0 .. RekeyInterval /\ x = e * RekeyInterval + cs.n

(* The i-th frame of r.                                                    *)
SealedAt(piece, r, i) ==
  \E e \in Nat : /\ piece.k = KeyOf(r, e) /\ piece.ad = <<>> /\ piece.p = <<r, i>>
                 /\ piece.n \in 0 .. RekeyInterval - 1
                 /\ i = e * RekeyInterval + piece.n + 1

IsSeq(s) == \E S : s \in Seq(S)

Types ==
  /\ pc \in [Roles -> {"start", "hello", "deviant", "open", "failed"}]
  /\ up \in BOOLEAN
  /\ DOMAIN hs = Roles
  /\ DOMAIN wire = Roles /\ \A r \in Roles : IsSeq(wire[r])
  /\ DOMAIN sendCs = Roles /\ DOMAIN recvCs = Roles
  /\ DOMAIN pending = Roles
  /\ reading \in [Roles -> {"idle", "await", "stopped"}]
  /\ limit \in [Roles -> Nat]
  /\ calls \in [Roles -> 0 .. MaxMsgs]
  /\ accepted \in [Roles -> Seq(Roles \X Nat)]
  /\ delivered \in [Roles -> Seq(Roles \X Nat)]

(* Where the two sides are, taken together.                                *)
Phases ==
  /\ pc[Initiator] # "deviant"
  /\ pc[Initiator] = "start" => pc[Responder] \in {"start", "failed"}
  /\ pc[Initiator] = "open" => pc[Responder] \in {"hello", "open", "failed"}
  /\ pc[Responder] = "open" => pc[Initiator] = "open"
  /\ pc[Responder] \in {"deviant", "hello"} => pc[Initiator] # "start"
  /\ \A r \in Roles : pc[r] = "failed" => ~up

(* What each side has made of the handshake.                               *)
States ==
  /\ pc[Initiator] = "start" =>
       IsHs(hs[Initiator], Initiator, <<>>, h0(Prologue), NoKey, 0, NoPub, NoPub, XXMessages)
  /\ pc[Initiator] = "hello" =>
       IsHs(hs[Initiator], Initiator, <<>>, h1(Prologue), NoKey, 0, NoPub, NoPub, Left1)
  /\ pc[Initiator] = "open" =>
       IsHs(hs[Initiator], Initiator, k3, h6, k3, 1, Ephemeral(Responder), Static(Responder), Left3)
  /\ pc[Responder] = "start" =>
       IsHs(hs[Responder], Responder, <<>>, h0(Prologue), NoKey, 0, NoPub, NoPub, XXMessages)
  /\ pc[Responder] = "hello" =>
       IsHs(hs[Responder], Responder, k2, h4(Prologue), k2, 1, Ephemeral(Initiator), NoPub, Left2)
  /\ pc[Responder] = "open" =>
       IsHs(hs[Responder], Responder, k3, h6, k3, 1, Ephemeral(Initiator), Static(Initiator), Left3)

(* The handshake's frames on the wire.                                     *)
Reply == <<pE2, pS2(Prologue), pP2(Prologue)>>

Greetings ==
  /\ pc[Initiator] = "start" => wire[Initiator] = <<>>
  /\ pc[Responder] = "start" => wire[Responder] = <<>>
  /\ pc[Responder] = "start" => wire[Initiator] \in {<<>>, << <<pE1>> >>}
  /\ pc[Initiator] # "open" /\ pc[Responder] \in {"hello", "deviant"} => wire[Initiator] = <<>>
  /\ pc[Initiator] = "hello" /\ pc[Responder] = "hello" => wire[Responder] \in {<<>>, <<Reply>>}
  /\ pc[Responder] = "deviant" =>
       wire[Responder] = <<>> \/ \E bad : BadHello(bad) /\ wire[Responder] = <<bad>>
  /\ pc[Initiator] = "open" /\ pc[Responder] # "open" => wire[Responder] = <<>>
  /\ pc[Initiator] = "open" /\ pc[Responder] = "hello" /\ wire[Initiator] # <<>> =>
       wire[Initiator][1] = <<pS3, pP3>>
  /\ pc[Initiator] = "open" /\ pc[Responder] = "failed" => wire[Initiator] = <<>>

(* A side that is not open has neither sent nor read.                      *)
Closed ==
  \A r \in Roles : pc[r] # "open" =>
    /\ sendCs[r] = NoCipher /\ recvCs[r] = NoCipher /\ pending[r] = <<>> /\ reading[r] = "idle"
    /\ calls[r] = 0 /\ accepted[r] = <<>> /\ delivered[r] = <<>>
    /\ delivered[Other(r)] = <<>>

(* The counters: both ends of a direction follow the same chain of keys.   *)
Counters ==
  \A r \in Roles : pc[r] = "open" =>
    /\ Place(sendCs[r], r, calls[r])
    /\ Place(recvCs[r], Other(r), Len(delivered[Other(r)]))
    /\ reading[r] = "await" => recvCs[r].n < RekeyInterval

Sealed == \A a \in sealed : \E r \in Roles : \E i \in Nat : i <= calls[r] /\ SealedAt(a, r, i)

(* The task in the lock holds the last frame that was sealed.              *)
InLock ==
  \A r \in Roles :
    pending[r] = <<>> \/ \E piece : pending[r] = <<piece>> /\ SealedAt(piece, r, calls[r])

(* Up to the limit the j-th accepted message is the j-th of send; beyond   *)
(* it a later one.                                                         *)
Tally(r) ==
  \/ limit[r] = Unlimited /\ Len(accepted[r]) + Len(pending[r]) = calls[r]
  \/ limit[r] <= Len(accepted[r]) /\ Len(accepted[r]) + Len(pending[r]) < calls[r]

Ordered(r) ==
  \A j \in 1 .. Len(accepted[r]) :
    /\ accepted[r][j][1] = r
    /\ j <= limit[r] => accepted[r][j][2] = j
    /\ j > limit[r] => accepted[r][j][2] > j

Numbered == \A r \in Roles : Tally(r) /\ Ordered(r)

(* The frames of r on the wire are the accepted ones that were not taken,  *)
(* behind the last of the handshake while that was not taken.              *)
Off(r) == IF pc[Other(r)] = "open" THEN 0 ELSE 1

OnWire(r) ==
  pc[r] = "open" /\ reading[Other(r)] # "stopped" =>
    /\ up => Len(delivered[r]) + Len(wire[r]) = Len(accepted[r]) + Off(r)
    /\ \A q \in 1 .. Len(wire[r]) : q > Off(r) =>
         LET j == Len(delivered[r]) + q - Off(r)
         IN  /\ j <= Len(accepted[r])
             /\ \E piece : wire[r][q] = <<piece>> /\ SealedAt(piece, r, accepted[r][j][2])

OnTheWire == \A r \in Roles : OnWire(r)

IInv ==
  /\ Types /\ Phases /\ States /\ Greetings /\ Closed
  /\ Counters /\ Sealed /\ InLock /\ Numbered /\ OnTheWire

-----------------------------------------------------------------------------
(* Sequences of anything.                                                  *)
LEMMA SeqFacts ==
  ASSUME NEW s, IsSeq(s)
  PROVE  /\ Len(s) \in Nat /\ (s = <<>> <=> Len(s) = 0)
         /\ s # <<>> => Head(s) = s[1]
<1> PICK S : s \in Seq(S)
  BY DEF IsSeq
<1>1. s = <<>> <=> Len(s) = 0
  BY EmptySeq
<1> QED
  BY <1>1

LEMMA AppendFacts ==
  ASSUME NEW s, IsSeq(s), NEW x
  PROVE  /\ IsSeq(Append(s, x)) /\ Len(Append(s, x)) = Len(s) + 1
         /\ \A i \in 1 .. Len(s) : Append(s, x)[i] = s[i]
         /\ Append(s, x)[Len(s) + 1] = x
<1> PICK S : s \in Seq(S)
  BY DEF IsSeq
<1> DEFINE T == S \cup {x}
<1>1. s \in Seq(T) /\ x \in T
  OBVIOUS
<1> HIDE DEF T
<1>2. Append(s, x) \in Seq(T)
  BY <1>1
<1>3. IsSeq(Append(s, x))
  BY <1>2 DEF IsSeq
<1> QED
  BY <1>1, <1>3

LEMMA TailFacts ==
  ASSUME NEW s, IsSeq(s), s # <<>>
  PROVE  /\ IsSeq(Tail(s)) /\ Len(s) >= 1 /\ Len(Tail(s)) = Len(s) - 1
         /\ \A i \in 1 .. Len(s) - 1 : Tail(s)[i] = s[i + 1]
<1> PICK S : s \in Seq(S)
  BY DEF IsSeq
<1>1. Len(s) >= 1
  BY SeqFacts
<1>2. Tail(s) \in Seq(S)
  BY <1>1
<1>3. IsSeq(Tail(s))
  BY <1>2 DEF IsSeq
<1> QED
  BY <1>1, <1>3

LEMMA PrefixFacts ==
  ASSUME NEW s, IsSeq(s), NEW n \in Nat, n <= Len(s)
  PROVE  /\ IsSeq(SubSeq(s, 1, n)) /\ Len(SubSeq(s, 1, n)) = n
         /\ \A i \in 1 .. n : SubSeq(s, 1, n)[i] = s[i]
<1> PICK S : s \in Seq(S)
  BY DEF IsSeq
<1>1. SubSeq(s, 1, n) \in Seq(S)
  OBVIOUS
<1>2. IsSeq(SubSeq(s, 1, n))
  BY <1>1 DEF IsSeq
<1> QED
  BY <1>2

LEMMA OneFacts ==
  ASSUME NEW x
  PROVE  IsSeq(<<x>>) /\ Len(<<x>>) = 1 /\ <<x>>[1] = x /\ Tail(<<x>>) = <<>> /\ Head(<<x>>) = x
<1>1. <<x>> \in Seq({x})
  OBVIOUS
<1>2. IsSeq(<<x>>)
  BY <1>1 DEF IsSeq
<1> QED
  BY <1>2

LEMMA EmptyFacts == IsSeq(<<>>) /\ Len(<<>>) = 0
<1>1. <<>> \in Seq({})
  OBVIOUS
<1> QED
  BY <1>1 DEF IsSeq

LEMMA RemoveOnly ==
  ASSUME NEW x, NEW i \in DOMAIN <<x>>
  PROVE  i = 1 /\ RemoveAt(<<x>>, i) = <<>>
<1>1. i = 1
  OBVIOUS
<1>2. SubSeq(<<x>>, 1, 0) = <<>> /\ SubSeq(<<x>>, 2, 1) = <<>> /\ Len(<<x>>) = 1
  OBVIOUS
<1>3. RemoveAt(<<x>>, i) = SubSeq(<<x>>, 1, 0) \o SubSeq(<<x>>, 2, 1)
  BY <1>1, <1>2 DEF RemoveAt
<1>4. <<>> \o <<>> = <<>>
  OBVIOUS
<1> QED
  BY ONLY <1>1, <1>2, <1>3, <1>4, Zenon

LEMMA SmallerOf ==
  ASSUME NEW a \in Nat, NEW b \in Nat
  PROVE  Min({a, b}) = IF a <= b THEN a ELSE b
BY DEF Min

-----------------------------------------------------------------------------
(* The keys of a direction are all different.                              *)
LEMMA AppendSeq ==
  ASSUME NEW T, NEW s \in Seq(T), NEW x \in T
  PROVE  /\ Append(s, x) \in Seq(T) /\ Len(Append(s, x)) = Len(s) + 1
         /\ \A i \in 1 .. Len(s) : Append(s, x)[i] = s[i]
         /\ Append(s, x)[Len(s) + 1] = x
OBVIOUS

LEMMA FunIsSeq ==
  ASSUME NEW T, NEW n \in Nat, NEW s \in [1 .. n -> T]
  PROVE  s \in Seq(T) /\ Len(s) = n
OBVIOUS

LEMMA KeyChain ==
  ASSUME NEW r \in Roles, NEW e \in Nat
  PROVE  /\ KeyOf(r, e) # NoKey
         /\ Append(k3, Label(r)) = KeyOf(r, 0)
         /\ Append(KeyOf(r, e), {"rekey"}) = KeyOf(r, e + 1)
<1> DEFINE T == {dEE, dES, dSE, Label(r), {"rekey"}}
<1>1. k3 \in Seq(T) /\ Len(k3) = 3
  <2>1. k1 \in Seq(T) /\ Len(k1) = 1
    BY DEF k1
  <2>2. dES \in T /\ dSE \in T
    OBVIOUS
  <2> HIDE DEF T
  <2>3. k2 \in Seq(T) /\ Len(k2) = 2
    BY ONLY <2>1, <2>2, AppendSeq DEF k2
  <2> QED
    <3>1. k3 = Append(k2, dSE)
      BY DEF k3
    <3>2. Append(k2, dSE) \in Seq(T) /\ Len(Append(k2, dSE)) = Len(k2) + 1
      BY ONLY <2>2, <2>3, AppendSeq, Zenon
    <3>3. Len(k2) + 1 = 3
      BY ONLY <2>3
    <3> QED
      BY ONLY <3>1, <3>2, <3>3, Zenon
<1>2. Label(r) \in T /\ {"rekey"} \in T
  OBVIOUS
<1> HIDE DEF T
<1>3. \A m \in Nat : KeyOf(r, m) \in Seq(T) /\ Len(KeyOf(r, m)) = 4 + m
  <2> TAKE m \in Nat
  <2> DEFINE k == KeyOf(r, m)
  <2>1. \A i \in 1 .. 3 : k3[i] \in T
    BY ONLY <1>1
  <2>2. k \in [1 .. 4 + m -> T]
    BY <1>2, <2>1 DEF KeyOf
  <2>3. 4 + m \in Nat
    OBVIOUS
  <2> HIDE DEF k
  <2>4. k \in Seq(T)
    BY ONLY <2>2, <2>3, FunIsSeq
  <2>5. Len(k) = 4 + m
    BY ONLY <2>2, <2>3, FunIsSeq
  <2> QED
    BY <2>4, <2>5 DEF k
<1>4. Append(k3, Label(r)) = KeyOf(r, 0)
  <2> DEFINE u == Append(k3, Label(r))
             v == KeyOf(r, 0)
  <2>1. /\ u \in Seq(T) /\ Len(u) = 4
        /\ \A i \in 1 .. 3 : u[i] = k3[i]
        /\ u[4] = Label(r)
    <3>1. /\ u \in Seq(T) /\ Len(u) = Len(k3) + 1
          /\ \A i \in 1 .. Len(k3) : u[i] = k3[i]
          /\ u[Len(k3) + 1] = Label(r)
      BY ONLY <1>1, <1>2, AppendSeq, Zenon
    <3>2. Len(k3) + 1 = 4 /\ Len(k3) = 3
      BY ONLY <1>1
    <3> QED
      BY ONLY <3>1, <3>2, Zenon
  <2>2. v \in Seq(T) /\ Len(v) = 4
    <3>1. KeyOf(r, 0) \in Seq(T) /\ Len(KeyOf(r, 0)) = 4 + 0
      BY ONLY <1>3
    <3> QED
      BY ONLY <3>1
  <2>3. v[4] = Label(r) /\ \A i \in 1 .. 3 : v[i] = k3[i]
    BY ONLY TRUE DEF KeyOf
  <2> HIDE DEF u, v
  <2>4. \A i \in 1 .. 4 : u[i] = v[i]
    BY ONLY <2>1, <2>3
  <2>5. u = v
    BY ONLY <2>1, <2>2, <2>4, SeqEqual
  <2> QED
    BY <2>5 DEF u, v
<1>5. Append(KeyOf(r, e), {"rekey"}) = KeyOf(r, e + 1)
  <2> DEFINE k == KeyOf(r, e)
             u == Append(k, {"rekey"})
             v == KeyOf(r, e + 1)
  <2>1. k \in Seq(T) /\ Len(k) = 4 + e
    BY <1>3
  <2>2. v \in Seq(T) /\ Len(v) = 5 + e
    BY <1>3
  <2>3. v[5 + e] = {"rekey"} /\ \A i \in 1 .. 4 + e : v[i] = k[i]
    BY DEF KeyOf
  <2> HIDE DEF k, v
  <2>4. /\ u \in Seq(T) /\ Len(u) = 5 + e
        /\ \A i \in 1 .. 4 + e : u[i] = k[i]
        /\ u[5 + e] = {"rekey"}
    BY <2>1, <1>2, AppendSeq
  <2> HIDE DEF u
  <2>5. \A i \in 1 .. 5 + e : u[i] = v[i]
    <3> TAKE i \in 1 .. 5 + e
    <3>1. i = 5 + e \/ i \in 1 .. 4 + e
      OBVIOUS
    <3> QED
      BY ONLY <3>1, <2>3, <2>4, Zenon
  <2>6. u = v
    BY ONLY <2>2, <2>4, <2>5, SeqEqual
  <2> QED
    BY <2>6 DEF u, v, k
<1>6. KeyOf(r, e) # NoKey
  BY <1>3 DEF NoKey
<1> QED
  BY <1>4, <1>5, <1>6

LEMMA KeysDiffer ==
  ASSUME NEW r \in Roles, NEW q \in Roles, NEW e \in Nat, NEW m \in Nat, KeyOf(r, e) = KeyOf(q, m)
  PROVE  r = q /\ e = m
<1>1. 1 .. 4 + e = 1 .. 4 + m
  <2>1. DOMAIN KeyOf(r, e) = 1 .. 4 + e /\ DOMAIN KeyOf(q, m) = 1 .. 4 + m
    BY DEF KeyOf
  <2> QED
    BY <2>1, Zenon
<1>2. e = m
  <2>1. 4 + e \in 1 .. 4 + m /\ 4 + m \in 1 .. 4 + e
    BY <1>1
  <2> QED
    BY <2>1
<1>3. Label(r) = Label(q)
  <2>1. KeyOf(r, e)[4] = Label(r) /\ KeyOf(q, m)[4] = Label(q)
    BY DEF KeyOf
  <2> QED
    BY <2>1, Zenon
<1> QED
  BY <1>2, <1>3 DEF Label, Roles, Initiator, Responder

-----------------------------------------------------------------------------
(* The counters of a direction.                                            *)
LEMMA NextInterval ==
  ASSUME NEW e \in Nat
  PROVE  /\ e * RekeyInterval \in Nat
         /\ (e + 1) * RekeyInterval = e * RekeyInterval + RekeyInterval
         /\ 0 * RekeyInterval = 0
BY TransportAssumption

LEMMA IntervalsApart ==
  ASSUME NEW e \in Nat, NEW m \in Nat, e < m
  PROVE  e * RekeyInterval + RekeyInterval <= m * RekeyInterval
<1> DEFINE d == m - e - 1
<1>1. d \in Nat /\ m = e + 1 + d
  OBVIOUS
<1> HIDE DEF d
<1>2. d * RekeyInterval \in Nat
  BY <1>1, TransportAssumption
<1>3. m * RekeyInterval = e * RekeyInterval + RekeyInterval + d * RekeyInterval
  BY <1>1, TransportAssumption
<1>4. e * RekeyInterval \in Nat /\ RekeyInterval \in Nat
  BY NextInterval, TransportAssumption
<1> QED
  BY <1>2, <1>3, <1>4

LEMMA StartPlace ==
  ASSUME NEW r \in Roles, NEW ss, ss.ck = k3
  PROVE  Place(Split(ss, r), r, 0)
<1>1. Split(ss, r) = [k |-> Append(k3, Label(r)), n |-> 0]
  BY DEF Split, Hkdf, Label
<1>2. Append(k3, Label(r)) = KeyOf(r, 0) /\ 0 \in Nat
  BY ONLY KeyChain, r \in Roles, 0 \in Nat
<1>3. Split(ss, r) = [k |-> KeyOf(r, 0), n |-> 0]
  BY ONLY <1>1, <1>2, Zenon
<1>4. 0 = 0 * RekeyInterval + 0 /\ 0 \in 0 .. RekeyInterval
  BY TransportAssumption
<1>5. DOMAIN Split(ss, r) = {"k", "n"} /\ Split(ss, r).k = KeyOf(r, 0) /\ Split(ss, r).n = 0
  BY ONLY <1>3
<1> QED
  BY ONLY <1>2, <1>4, <1>5 DEF Place

LEMMA FreshPlace ==
  ASSUME NEW r \in Roles, NEW x \in Nat, NEW cs, Place(cs, r, x)
  PROVE  Place(Fresh(cs), r, x) /\ Fresh(cs).n < RekeyInterval
<1> PICK e \in Nat : /\ DOMAIN cs = {"k", "n"} /\ cs.k = KeyOf(r, e)
                     /\ cs.n \in 0 .. RekeyInterval /\ x = e * RekeyInterval + cs.n
  BY DEF Place
<1>1. CASE ~Due(cs)
  <2>1. Fresh(cs) = cs /\ cs.n < RekeyInterval
    BY <1>1, TransportAssumption DEF Fresh, Due
  <2> QED
    BY <2>1
<1>2. CASE Due(cs)
  <2>1. Fresh(cs) = [k |-> Append(cs.k, {"rekey"}), n |-> 0]
    BY <1>2 DEF Fresh, Rekey
  <2>2. Append(cs.k, {"rekey"}) = KeyOf(r, e + 1)
    BY KeyChain
  <2>3. Fresh(cs) = [k |-> KeyOf(r, e + 1), n |-> 0]
    BY ONLY <2>1, <2>2, Zenon
  <2>4. DOMAIN Fresh(cs) = {"k", "n"} /\ Fresh(cs).k = KeyOf(r, e + 1) /\ Fresh(cs).n = 0
    BY ONLY <2>3
  <2>5. cs.n = RekeyInterval
    BY <1>2, TransportAssumption DEF Due
  <2>6. x = (e + 1) * RekeyInterval + 0 /\ e + 1 \in Nat /\ 0 \in 0 .. RekeyInterval
    BY <2>5, NextInterval, TransportAssumption
  <2>7. 0 < RekeyInterval
    BY TransportAssumption
  <2> QED
    BY ONLY <2>4, <2>6, <2>7 DEF Place
<1> QED
  BY <1>1, <1>2

LEMMA CountedPlace ==
  ASSUME NEW r \in Roles, NEW x \in Nat, NEW cs, Place(cs, r, x), cs.n < RekeyInterval
  PROVE  Place(Counted(cs), r, x + 1)
<1> PICK e \in Nat : /\ DOMAIN cs = {"k", "n"} /\ cs.k = KeyOf(r, e)
                     /\ cs.n \in 0 .. RekeyInterval /\ x = e * RekeyInterval + cs.n
  BY DEF Place
<1>1. cs.k # NoKey
  BY KeyChain
<1>2. Counted(cs) = [cs EXCEPT !.n = @ + 1]
  BY <1>1 DEF Counted
<1>3. /\ DOMAIN Counted(cs) = {"k", "n"} /\ Counted(cs).k = KeyOf(r, e)
      /\ Counted(cs).n = cs.n + 1
  BY <1>2
<1>4. /\ x + 1 = e * RekeyInterval + Counted(cs).n
      /\ Counted(cs).n \in 0 .. RekeyInterval
  BY <1>3, NextInterval, TransportAssumption
<1> QED
  BY <1>3, <1>4 DEF Place

LEMMA SealPlace ==
  ASSUME NEW r \in Roles, NEW x \in Nat, NEW cs, Place(cs, r, x), cs.n < RekeyInterval
  PROVE  SealedAt(Seal(cs, <<>>, <<r, x + 1>>), r, x + 1)
<1> PICK e \in Nat : /\ DOMAIN cs = {"k", "n"} /\ cs.k = KeyOf(r, e)
                     /\ cs.n \in 0 .. RekeyInterval /\ x = e * RekeyInterval + cs.n
  BY DEF Place
<1> DEFINE piece == Seal(cs, <<>>, <<r, x + 1>>)
<1>1. cs.k # NoKey
  BY KeyChain
<1>2. piece.k = KeyOf(r, e) /\ piece.n = cs.n /\ piece.ad = <<>> /\ piece.p = <<r, x + 1>>
  BY <1>1 DEF Seal, AeadEncrypt
<1>3. /\ cs.n \in 0 .. RekeyInterval - 1
      /\ x + 1 = e * RekeyInterval + cs.n + 1
  BY NextInterval, TransportAssumption
<1> HIDE DEF piece
<1>4. SealedAt(piece, r, x + 1)
  BY ONLY <1>2, <1>3, e \in Nat DEF SealedAt
<1> QED
  BY <1>4 DEF piece

(* A frame opens at its place and nowhere else.                            *)
LEMMA OpensPlace ==
  ASSUME NEW r \in Roles, NEW x \in Nat, NEW cs, Place(cs, r, x), cs.n < RekeyInterval,
         NEW piece, NEW i \in Nat, SealedAt(piece, r, i)
  PROVE  Opens(cs, <<>>, piece) <=> i = x + 1
<1> PICK e \in Nat : /\ DOMAIN cs = {"k", "n"} /\ cs.k = KeyOf(r, e)
                     /\ cs.n \in 0 .. RekeyInterval /\ x = e * RekeyInterval + cs.n
  BY DEF Place
<1> PICK m \in Nat : /\ piece.k = KeyOf(r, m) /\ piece.ad = <<>> /\ piece.p = <<r, i>>
                     /\ piece.n \in 0 .. RekeyInterval - 1
                     /\ i = m * RekeyInterval + piece.n + 1
  BY DEF SealedAt
<1>1. cs.k # NoKey
  BY KeyChain
<1>2. Opens(cs, <<>>, piece) <=> piece.k = cs.k /\ piece.n = cs.n
  BY <1>1 DEF Opens, AeadDecrypts
<1>3. piece.k = cs.k <=> m = e
  BY KeysDiffer
<1>4. i = x + 1 => m = e
  <2>0. /\ e * RekeyInterval \in Nat /\ m * RekeyInterval \in Nat /\ RekeyInterval \in Nat
        /\ cs.n \in Nat /\ piece.n \in Nat /\ piece.n < RekeyInterval
    BY NextInterval, TransportAssumption
  <2> DEFINE a == e * RekeyInterval
             b == m * RekeyInterval
  <2>3. a \in Nat /\ b \in Nat /\ x = a + cs.n /\ i = b + piece.n + 1
    BY <2>0
  <2>1. ASSUME i = x + 1, m < e PROVE FALSE
    <3>1. b + RekeyInterval <= a
      BY ONLY m \in Nat, e \in Nat, <2>1, IntervalsApart
    <3> HIDE DEF a, b
    <3> QED
      BY ONLY <2>0, <2>1, <2>3, <3>1, cs.n < RekeyInterval
  <2>2. ASSUME i = x + 1, e < m PROVE FALSE
    <3>1. a + RekeyInterval <= b
      BY ONLY m \in Nat, e \in Nat, <2>2, IntervalsApart
    <3> HIDE DEF a, b
    <3> QED
      BY ONLY <2>0, <2>2, <2>3, <3>1, cs.n < RekeyInterval
  <2> QED
    BY <2>1, <2>2
<1>5. m = e => (i = x + 1 <=> piece.n = cs.n)
  BY NextInterval, TransportAssumption
<1> QED
  BY ONLY <1>2, <1>3, <1>4, <1>5

LEMMA OneFrame ==
  ASSUME NEW a, NEW b, NEW r \in Roles, NEW q \in Roles, NEW i \in Nat, NEW j \in Nat,
         SealedAt(a, r, i), SealedAt(b, q, j), a.k = b.k, a.n = b.n
  PROVE  a.p = b.p
<1> PICK e \in Nat : a.k = KeyOf(r, e) /\ a.p = <<r, i>> /\ i = e * RekeyInterval + a.n + 1
  BY DEF SealedAt
<1> PICK m \in Nat : b.k = KeyOf(q, m) /\ b.p = <<q, j>> /\ j = m * RekeyInterval + b.n + 1
  BY DEF SealedAt
<1>1. KeyOf(r, e) = KeyOf(q, m)
  OBVIOUS
<1>2. r = q /\ e = m
  BY ONLY <1>1, r \in Roles, q \in Roles, e \in Nat, m \in Nat, KeysDiffer
<1> QED
  BY <1>2

-----------------------------------------------------------------------------
LEMMA InitIInv == Init => IInv
<1> SUFFICES ASSUME Init PROVE IInv
  OBVIOUS
<1> USE TransportAssumption DEF Init
<1>1. Types
  BY EmptyFacts DEF Types, Unlimited
<1>2. Phases
  BY DEF Phases, Roles, Initiator, Responder
<1>3. States
  BY HandshakeStateIs DEF States, Roles, Initiator, Responder
<1>4. Greetings
  BY DEF Greetings, Roles, Initiator, Responder
<1>5. Closed
  BY DEF Closed, Other, Roles
<1>6. Counters /\ Sealed /\ InLock /\ OnTheWire
  BY DEF Counters, Sealed, InLock, OnTheWire, OnWire
<1>7. Numbered
  BY EmptyFacts DEF Numbered, Tally, Ordered, Unlimited
<1> QED
  BY <1>1, <1>2, <1>3, <1>4, <1>5, <1>6, <1>7 DEF IInv

LEMMA RolesAre ==
  /\ Initiator \in Roles /\ Responder \in Roles /\ Initiator # Responder
  /\ Other(Initiator) = Responder /\ Other(Responder) = Initiator
  /\ \A r \in Roles : r = Initiator \/ r = Responder
BY DEF Roles, Other, Initiator, Responder

(* A step that leaves the transport alone, for a side that does not open.  *)
LEMMA TransportKept ==
  ASSUME IInv, UNCHANGED csVars, pc' \in [Roles -> {"start", "hello", "deviant", "open", "failed"}],
         \A r \in Roles : pc'[r] = "open" <=> pc[r] = "open"
  PROVE  Closed' /\ Counters' /\ Sealed' /\ InLock' /\ Numbered'
<1> USE DEF IInv, csVars
<1>1. Closed'
  BY DEF Closed
<1>2. Counters'
  BY DEF Counters
<1>3. Sealed' /\ InLock'
  BY DEF Sealed, InLock
<1>4. Numbered'
  BY DEF Numbered, Tally, Ordered
<1> QED
  BY <1>1, <1>2, <1>3, <1>4

LEMMA ClientHelloStep ==
  ASSUME IInv, ClientHello
  PROVE  IInv'
<1> DEFINE w == WriteMessage(hs[Initiator], Empty)
<1> USE RolesAre
<1>1. IsHs(hs[Initiator], Initiator, <<>>, h0(Prologue), NoKey, 0, NoPub, NoPub, XXMessages)
  BY DEF IInv, States, ClientHello
<1>2. /\ w.out = <<pE1>>
      /\ IsHs(w.hs, Initiator, <<>>, h1(Prologue), NoKey, 0, NoPub, NoPub, Left1)
  BY <1>1, HelloWritten
<1>3. /\ pc[Initiator] = "start" /\ up
      /\ hs' = [hs EXCEPT ![Initiator] = w.hs]
      /\ wire' = [wire EXCEPT ![Initiator] = Append(@, w.out)]
      /\ pc' = [pc EXCEPT ![Initiator] = "hello"]
      /\ UNCHANGED <<up, csVars>>
  BY DEF ClientHello
<1> HIDE DEF w
<1>4. pc[Responder] = "start" /\ wire[Initiator] = <<>> /\ wire[Responder] = <<>>
  BY <1>3 DEF IInv, Phases, Greetings, Types
<1>5. wire'[Initiator] = << <<pE1>> >> /\ wire'[Responder] = <<>> /\ DOMAIN wire' = Roles
  <2>1. Append(<<>>, <<pE1>>) = << <<pE1>> >>
    BY ONLY Tuple1, Zenon
  <2>2. wire'[Initiator] = Append(wire[Initiator], w.out) /\ wire'[Responder] = wire[Responder]
        /\ DOMAIN wire' = Roles
    BY <1>3 DEF IInv, Types
  <2> QED
    BY ONLY <1>2, <1>4, <2>1, <2>2, Zenon
<1>6. pc' = [pc EXCEPT ![Initiator] = "hello"] /\ pc'[Initiator] = "hello" /\ pc'[Responder] = "start"
      /\ pc' \in [Roles -> {"start", "hello", "deviant", "open", "failed"}]
  BY <1>3, <1>4 DEF IInv, Types
<1>7. Types'
  <2>1. IsSeq(wire'[Initiator]) /\ IsSeq(wire'[Responder])
    BY ONLY <1>5, OneFacts, EmptyFacts, Zenon
  <2>2. DOMAIN hs' = Roles
    BY <1>3 DEF IInv, Types
  <2> QED
    BY <1>3, <1>5, <1>6, <2>1, <2>2 DEF IInv, Types, csVars
<1>8. Phases'
  BY <1>3, <1>6 DEF Phases
<1>9. States'
  <2>1. hs'[Initiator] = w.hs /\ hs'[Responder] = hs[Responder]
    BY <1>3 DEF IInv, Types
  <2> QED
    BY <1>2, <1>4, <1>6, <2>1 DEF IInv, States
<1>10. Greetings'
  BY <1>5, <1>6 DEF Greetings
<1>11. Closed' /\ Counters' /\ Sealed' /\ InLock' /\ Numbered'
  BY <1>3, <1>4, <1>6, TransportKept
<1>12. OnTheWire'
  BY <1>6 DEF OnTheWire, OnWire
<1> QED
  BY <1>7, <1>8, <1>9, <1>10, <1>11, <1>12 DEF IInv

(* When the responder hears the first message.                             *)
LEMMA HelloArrives ==
  ASSUME IInv, pc[Responder] = "start", up, wire[Initiator] # <<>>
  PROVE  /\ pc[Initiator] = "hello" /\ wire[Responder] = <<>>
         /\ Head(wire[Initiator]) = <<pE1>> /\ Tail(wire[Initiator]) = <<>>
         /\ IsHs(hs[Responder], Responder, <<>>, h0(Prologue), NoKey, 0, NoPub, NoPub, XXMessages)
<1>1. pc[Initiator] = "hello"
  BY RolesAre DEF IInv, Types, Phases, Greetings
<1>2. wire[Initiator] = << <<pE1>> >>
  BY DEF IInv, Greetings
<1>3. Head(wire[Initiator]) = <<pE1>> /\ Tail(wire[Initiator]) = <<>>
  BY ONLY <1>2, Tuple1, Zenon
<1> QED
  BY <1>1, <1>3 DEF IInv, States, Greetings

LEMMA ServerHelloStep ==
  ASSUME IInv, ServerHello
  PROVE  IInv'
<1> USE RolesAre
<1> DEFINE w == HelloReply(Head(wire[Initiator]))
<1>1. /\ pc[Responder] = "start" /\ up /\ wire[Initiator] # <<>>
      /\ hs' = [hs EXCEPT ![Responder] = w.hs]
      /\ wire' = [wire EXCEPT ![Initiator] = Tail(@), ![Responder] = <<w.out>>]
      /\ pc' = [pc EXCEPT ![Responder] = "hello"]
      /\ UNCHANGED <<up, csVars>>
  BY DEF ServerHello
<1>2. /\ pc[Initiator] = "hello" /\ wire[Responder] = <<>>
      /\ Head(wire[Initiator]) = <<pE1>> /\ Tail(wire[Initiator]) = <<>>
      /\ IsHs(hs[Responder], Responder, <<>>, h0(Prologue), NoKey, 0, NoPub, NoPub, XXMessages)
  BY <1>1, HelloArrives
<1>3. w = WriteMessage(ReadMessage(hs[Responder], <<pE1>>).hs, Empty)
  BY ONLY <1>2, Zenon DEF HelloReply
<1>4. IsHs(ReadMessage(hs[Responder], <<pE1>>).hs, Responder, <<>>, h1(Prologue), NoKey, 0,
           Ephemeral(Initiator), NoPub, Left1)
  BY <1>2, HelloIsRead
<1>5. /\ w.out = Reply
      /\ IsHs(w.hs, Responder, k2, h4(Prologue), k2, 1, Ephemeral(Initiator), NoPub, Left2)
  BY ONLY <1>3, <1>4, ReplyWritten DEF Reply
<1> HIDE DEF w
<1>6. wire'[Initiator] = <<>> /\ wire'[Responder] = <<Reply>> /\ DOMAIN wire' = Roles
  <2>1. wire'[Initiator] = Tail(wire[Initiator]) /\ wire'[Responder] = <<w.out>> /\ DOMAIN wire' = Roles
    BY <1>1 DEF IInv, Types
  <2> QED
    BY ONLY <1>2, <1>5, <2>1, Zenon
<1>7. pc'[Initiator] = "hello" /\ pc'[Responder] = "hello"
      /\ pc' \in [Roles -> {"start", "hello", "deviant", "open", "failed"}]
  BY <1>1, <1>2 DEF IInv, Types
<1>8. Types'
  <2>1. IsSeq(wire'[Initiator]) /\ IsSeq(wire'[Responder])
    BY ONLY <1>6, OneFacts, EmptyFacts, Zenon
  <2>2. DOMAIN hs' = Roles
    BY <1>1 DEF IInv, Types
  <2> QED
    BY <1>1, <1>6, <1>7, <2>1, <2>2 DEF IInv, Types, csVars
<1>9. Phases'
  BY <1>1, <1>7 DEF Phases
<1>10. States'
  <2>1. hs'[Responder] = w.hs /\ hs'[Initiator] = hs[Initiator]
    BY <1>1 DEF IInv, Types
  <2> QED
    BY <1>2, <1>5, <1>7, <2>1 DEF IInv, States
<1>11. Greetings'
  BY <1>6, <1>7 DEF Greetings
<1>12. Closed' /\ Counters' /\ Sealed' /\ InLock' /\ Numbered'
  BY <1>1, <1>2, <1>7, TransportKept
<1>13. OnTheWire'
  BY <1>7 DEF OnTheWire, OnWire
<1> QED
  BY <1>8, <1>9, <1>10, <1>11, <1>12, <1>13 DEF IInv

LEMMA ServerHelloBadStep ==
  ASSUME IInv, ServerHelloBad
  PROVE  IInv'
<1> USE RolesAre
<1>1. PICK bad \in BadHellos(Head(wire[Initiator])) :
        wire' = [wire EXCEPT ![Initiator] = Tail(@), ![Responder] = <<bad>>]
  BY DEF ServerHelloBad
<1>2. /\ pc[Responder] = "start" /\ up /\ wire[Initiator] # <<>>
      /\ pc' = [pc EXCEPT ![Responder] = "deviant"]
      /\ UNCHANGED <<hs, up, csVars>>
  BY DEF ServerHelloBad
<1>3. /\ pc[Initiator] = "hello" /\ wire[Responder] = <<>>
      /\ Head(wire[Initiator]) = <<pE1>> /\ Tail(wire[Initiator]) = <<>>
      /\ IsHs(hs[Responder], Responder, <<>>, h0(Prologue), NoKey, 0, NoPub, NoPub, XXMessages)
  BY <1>2, HelloArrives
<1>4. BadHello(bad)
  <2>1. bad \in BadHellos(<<pE1>>)
    BY ONLY bad \in BadHellos(Head(wire[Initiator])), <1>3, Zenon
  <2> QED
    BY ONLY <2>1, <1>3, BadHellosAre
<1>5. wire'[Initiator] = <<>> /\ wire'[Responder] = <<bad>> /\ DOMAIN wire' = Roles
  <2>1. wire'[Initiator] = Tail(wire[Initiator]) /\ wire'[Responder] = <<bad>> /\ DOMAIN wire' = Roles
    BY <1>1 DEF IInv, Types
  <2> QED
    BY ONLY <1>3, <2>1, Zenon
<1>6. pc'[Initiator] = "hello" /\ pc'[Responder] = "deviant"
      /\ pc' \in [Roles -> {"start", "hello", "deviant", "open", "failed"}]
  BY <1>2, <1>3 DEF IInv, Types
<1>7. Types'
  <2>1. IsSeq(wire'[Initiator]) /\ IsSeq(wire'[Responder])
    BY ONLY <1>5, OneFacts, EmptyFacts, Zenon
  <2> QED
    BY <1>2, <1>5, <1>6, <2>1 DEF IInv, Types, csVars
<1>8. Phases'
  BY <1>2, <1>6 DEF Phases
<1>9. States'
  BY <1>2, <1>3, <1>6 DEF IInv, States
<1>10. Greetings'
  BY <1>4, <1>5, <1>6 DEF Greetings
<1>11. Closed' /\ Counters' /\ Sealed' /\ InLock' /\ Numbered'
  BY <1>2, <1>3, <1>6, TransportKept
<1>12. OnTheWire'
  BY <1>6 DEF OnTheWire, OnWire
<1> QED
  BY <1>7, <1>8, <1>9, <1>10, <1>11, <1>12 DEF IInv

(* What the initiator hears is the reply of a peer that follows the        *)
(* pattern, or it is refused.                                              *)
LEMMA ReplyArrives ==
  ASSUME IInv, pc[Initiator] = "hello", wire[Responder] # <<>>
  PROVE  /\ pc[Responder] = "hello" =>
              /\ Head(wire[Responder]) = Reply /\ Tail(wire[Responder]) = <<>>
              /\ HelloRead(Head(wire[Responder])).ok
              /\ IsHs(HelloRead(Head(wire[Responder])).hs, Initiator, k2, h4(Prologue), k2, 1,
                      Ephemeral(Responder), Static(Responder), Left2)
         /\ pc[Responder] = "deviant" => ~HelloRead(Head(wire[Responder])).ok
         /\ up => pc[Responder] \in {"hello", "deviant"}
<1> USE RolesAre
<1>1. IsHs(hs[Initiator], Initiator, <<>>, h1(Prologue), NoKey, 0, NoPub, NoPub, Left1)
  BY DEF IInv, States
<1>2. ASSUME pc[Responder] = "hello"
      PROVE  /\ Head(wire[Responder]) = Reply /\ Tail(wire[Responder]) = <<>>
             /\ HelloRead(Head(wire[Responder])).ok
             /\ IsHs(HelloRead(Head(wire[Responder])).hs, Initiator, k2, h4(Prologue), k2, 1,
                     Ephemeral(Responder), Static(Responder), Left2)
  <2>1. wire[Responder] = <<Reply>>
    BY <1>2 DEF IInv, Greetings
  <2>2. Head(wire[Responder]) = Reply /\ Tail(wire[Responder]) = <<>>
    BY ONLY <2>1, Tuple1, Zenon
  <2>3. HelloRead(Head(wire[Responder])) = ReadMessage(hs[Initiator], Reply)
    BY ONLY <2>2, Zenon DEF HelloRead
  <2>4. /\ ReadMessage(hs[Initiator], Reply).ok
        /\ IsHs(ReadMessage(hs[Initiator], Reply).hs, Initiator, k2, h4(Prologue), k2, 1,
                Ephemeral(Responder), Static(Responder), Left2)
    BY ONLY <1>1, ReplyIsRead DEF Reply
  <2> QED
    BY ONLY <2>2, <2>3, <2>4, Zenon
<1>3. ASSUME pc[Responder] = "deviant"
      PROVE  ~HelloRead(Head(wire[Responder])).ok
  <2>1. PICK bad : BadHello(bad) /\ wire[Responder] = <<bad>>
    BY <1>3 DEF IInv, Greetings
  <2>2. Head(wire[Responder]) = bad
    BY ONLY <2>1, Tuple1, Zenon
  <2> QED
    BY ONLY <1>1, <2>1, <2>2, BadHelloRefused DEF HelloRead
<1>4. up => pc[Responder] \in {"hello", "deviant"}
  BY DEF IInv, Types, Phases, Greetings
<1> QED
  BY ONLY <1>2, <1>3, <1>4

LEMMA ClientRejectsStep ==
  ASSUME IInv, ClientRejects
  PROVE  IInv'
<1> USE RolesAre
<1>1. /\ pc[Initiator] = "hello" /\ pc' = [pc EXCEPT ![Initiator] = "failed"] /\ up' = FALSE
      /\ wire' = [r \in Roles |-> <<>>] /\ UNCHANGED <<hs, csVars>>
  BY DEF ClientRejects
<1>2. /\ pc' \in [Roles -> {"start", "hello", "deviant", "open", "failed"}]
      /\ pc'[Initiator] = "failed" /\ pc'[Responder] = pc[Responder] /\ pc[Responder] # "open"
  BY <1>1 DEF IInv, Types, Phases
<1>3. wire'[Initiator] = <<>> /\ wire'[Responder] = <<>> /\ DOMAIN wire' = Roles
  BY <1>1
<1>4. Types'
  <2>1. IsSeq(wire'[Initiator]) /\ IsSeq(wire'[Responder])
    BY ONLY <1>3, EmptyFacts, Zenon
  <2> QED
    BY <1>1, <1>2, <1>3, <2>1 DEF IInv, Types, csVars
<1>5. Phases'
  BY <1>1, <1>2 DEF IInv, Phases
<1>6. States'
  BY <1>1, <1>2 DEF IInv, States
<1>7. Greetings'
  BY <1>2, <1>3 DEF Greetings
<1>8. Closed' /\ Counters' /\ Sealed' /\ InLock' /\ Numbered'
  BY <1>1, <1>2, TransportKept
<1>9. OnTheWire'
  BY <1>2 DEF OnTheWire, OnWire
<1> QED
  BY <1>4, <1>5, <1>6, <1>7, <1>8, <1>9 DEF IInv

LEMMA HandshakeBrokenStep ==
  ASSUME IInv, NEW r \in Roles, HandshakeBroken(r)
  PROVE  IInv'
<1> USE RolesAre
<1>1. /\ pc[r] \in {"start", "hello"} /\ ~up
      /\ r = Initiator \/ pc[r] = "start" \/ wire[Other(r)] = <<>>
      /\ pc' = [pc EXCEPT ![r] = "failed"] /\ UNCHANGED <<hs, up, wire, csVars>>
  BY DEF HandshakeBroken
<1>2. /\ pc' \in [Roles -> {"start", "hello", "deviant", "open", "failed"}]
      /\ pc'[r] = "failed" /\ \A q \in Roles : q # r => pc'[q] = pc[q]
      /\ \A q \in Roles : pc'[q] = "open" <=> pc[q] = "open"
  BY <1>1 DEF IInv, Types
<1>3. Types'
  BY <1>1, <1>2 DEF IInv, Types, csVars
<1>4. Phases'
  BY <1>1, <1>2 DEF IInv, Phases
<1>5. States'
  BY <1>1, <1>2 DEF IInv, States
<1>6. Greetings'
  <2>1. CASE r = Initiator
    BY <1>1, <1>2, <2>1 DEF IInv, Greetings, Phases
  <2>2. CASE r = Responder
    BY <1>1, <1>2, <2>2 DEF IInv, Greetings, Phases
  <2> QED
    BY <2>1, <2>2
<1>7. Closed' /\ Counters' /\ Sealed' /\ InLock' /\ Numbered'
  BY <1>1, <1>2, TransportKept
<1>8. OnTheWire'
  <2>1. \A q \in Roles : Off(q)' = Off(q)
    BY <1>2 DEF Off
  <2> QED
    BY <1>1, <1>2, <2>1 DEF IInv, OnTheWire, OnWire, csVars
<1> QED
  BY <1>3, <1>4, <1>5, <1>6, <1>7, <1>8 DEF IInv

LEMMA ClientFinishStep ==
  ASSUME IInv, ClientFinish
  PROVE  IInv'
<1> USE RolesAre
<1> DEFINE rd == HelloRead(Head(wire[Responder]))
           w == WriteMessage(rd.hs, Login)
<1>1. /\ pc[Initiator] = "hello" /\ up /\ wire[Responder] # <<>> /\ rd.ok
      /\ hs' = [hs EXCEPT ![Initiator] = w.hs]
      /\ wire' = [wire EXCEPT ![Responder] = Tail(@), ![Initiator] = Append(@, w.out)]
      /\ Established(Initiator, w.hs.ss)
      /\ UNCHANGED <<up, pending, reading, cancels, limit, calls, accepted, delivered, sealed>>
  BY DEF ClientFinish
<1>2. /\ pc[Responder] = "hello" /\ Tail(wire[Responder]) = <<>>
      /\ IsHs(rd.hs, Initiator, k2, h4(Prologue), k2, 1, Ephemeral(Responder), Static(Responder), Left2)
  BY <1>1, ReplyArrives
<1>3. /\ w.out = <<pS3, pP3>>
      /\ IsHs(w.hs, Initiator, k3, h6, k3, 1, Ephemeral(Responder), Static(Responder), Left3)
  BY <1>2, FinishWritten
<1> HIDE DEF w, rd
<1>4. wire[Initiator] = <<>>
  BY <1>1, <1>2 DEF IInv, Greetings
<1>5. wire'[Initiator] = << <<pS3, pP3>> >> /\ wire'[Responder] = <<>> /\ DOMAIN wire' = Roles
  <2>1. Append(<<>>, <<pS3, pP3>>) = << <<pS3, pP3>> >>
    BY ONLY Tuple1, Zenon
  <2>2. wire'[Initiator] = Append(wire[Initiator], w.out) /\ wire'[Responder] = Tail(wire[Responder])
        /\ DOMAIN wire' = Roles
    BY <1>1 DEF IInv, Types
  <2> QED
    BY ONLY <1>2, <1>3, <1>4, <2>1, <2>2, Zenon
<1>6. /\ pc'[Initiator] = "open" /\ pc'[Responder] = "hello"
      /\ pc' \in [Roles -> {"start", "hello", "deviant", "open", "failed"}]
  BY <1>1, <1>2 DEF IInv, Types, Established
<1>7. /\ sendCs'[Initiator] = Split(w.hs.ss, Initiator) /\ recvCs'[Initiator] = Split(w.hs.ss, Responder)
      /\ sendCs'[Responder] = sendCs[Responder] /\ recvCs'[Responder] = recvCs[Responder]
      /\ DOMAIN sendCs' = Roles /\ DOMAIN recvCs' = Roles
  BY <1>1 DEF IInv, Types, Established, Ciphers
<1>8. Types'
  <2>1. IsSeq(wire'[Initiator]) /\ IsSeq(wire'[Responder])
    BY ONLY <1>5, OneFacts, EmptyFacts, Zenon
  <2>2. DOMAIN hs' = Roles
    BY <1>1 DEF IInv, Types
  <2> QED
    BY <1>1, <1>5, <1>6, <1>7, <2>1, <2>2 DEF IInv, Types
<1>9. Phases'
  BY <1>1, <1>6 DEF Phases
<1>10. States'
  <2>1. hs'[Initiator] = w.hs /\ hs'[Responder] = hs[Responder]
    BY <1>1 DEF IInv, Types
  <2> QED
    BY <1>2, <1>3, <1>6, <2>1 DEF IInv, States
<1>11. Greetings'
  <2>1. wire'[Initiator][1] = <<pS3, pP3>>
    BY ONLY <1>5, OneFacts, Zenon
  <2> QED
    BY <1>5, <1>6, <2>1 DEF Greetings
<1>12. /\ calls[Initiator] = 0 /\ delivered[Responder] = <<>> /\ delivered[Initiator] = <<>>
       /\ accepted[Initiator] = <<>> /\ reading[Initiator] = "idle"
  BY <1>1, <1>2 DEF IInv, Closed
<1>13. Closed'
  BY <1>1, <1>2, <1>6, <1>7 DEF IInv, Closed
<1>14. Counters'
  <2>1. w.hs.ss.ck = k3
    BY <1>3 DEF IsHs, IsSs
  <2>2. Place(sendCs'[Initiator], Initiator, 0) /\ Place(recvCs'[Initiator], Responder, 0)
    BY <1>7, <2>1, StartPlace
  <2>3. calls'[Initiator] = 0 /\ Len(delivered'[Responder]) = 0 /\ reading'[Initiator] = "idle"
    BY <1>1, <1>12, EmptyFacts
  <2> QED
    BY <1>6, <2>2, <2>3 DEF Counters
<1>15. Sealed' /\ InLock' /\ Numbered'
  BY <1>1 DEF IInv, Sealed, InLock, Numbered, Tally, Ordered
<1>16. OnTheWire'
  <2>1. Off(Initiator)' = 1
    BY <1>6 DEF Off
  <2>2. Len(delivered'[Initiator]) = 0 /\ Len(accepted'[Initiator]) = 0 /\ Len(wire'[Initiator]) = 1
    <3>1. delivered'[Initiator] = <<>> /\ accepted'[Initiator] = <<>>
      BY <1>1, <1>12
    <3> QED
      BY ONLY <1>5, <3>1, EmptyFacts, OneFacts, Zenon
  <2>3. OnWire(Initiator)'
    BY <2>1, <2>2 DEF OnWire
  <2>4. OnWire(Responder)'
    BY <1>6 DEF OnWire
  <2> QED
    BY <2>3, <2>4 DEF OnTheWire
<1> QED
  BY <1>8, <1>9, <1>10, <1>11, <1>13, <1>14, <1>15, <1>16 DEF IInv

LEMMA FinishArrives ==
  ASSUME IInv, pc[Responder] = "hello", wire[Initiator] # <<>>
  PROVE  LET rd == ReadMessage(hs[Responder], Head(wire[Initiator]))
         IN  /\ pc[Initiator] = "open" /\ rd.ok
             /\ IsHs(rd.hs, Responder, k3, h6, k3, 1, Ephemeral(Initiator), Static(Initiator), Left3)
<1>1. pc[Initiator] = "open"
  BY DEF IInv, Greetings
<1>2. IsSeq(wire[Initiator])
  BY RolesAre DEF IInv, Types
<1>3. Head(wire[Initiator]) = <<pS3, pP3>>
  BY <1>1, <1>2, SeqFacts DEF IInv, Greetings
<1>4. IsHs(hs[Responder], Responder, k2, h4(Prologue), k2, 1, Ephemeral(Initiator), NoPub, Left2)
  BY DEF IInv, States
<1> DEFINE rd == ReadMessage(hs[Responder], <<pS3, pP3>>)
<1>5. rd.ok /\ IsHs(rd.hs, Responder, k3, h6, k3, 1, Ephemeral(Initiator), Static(Initiator), Left3)
  BY ONLY <1>4, FinishIsRead
<1> QED
  BY ONLY <1>1, <1>3, <1>5, Zenon

LEMMA ServerFinishStep ==
  ASSUME IInv, ServerFinish
  PROVE  IInv'
<1> USE RolesAre
<1> DEFINE rd == ReadMessage(hs[Responder], Head(wire[Initiator]))
<1>1. /\ pc[Responder] = "hello" /\ wire[Initiator] # <<>>
      /\ wire' = [wire EXCEPT ![Initiator] = Tail(@)]
      /\ rd.ok => hs' = [hs EXCEPT ![Responder] = rd.hs] /\ Established(Responder, rd.hs.ss)
      /\ UNCHANGED <<up, pending, reading, cancels, limit, calls, accepted, delivered, sealed>>
  BY DEF ServerFinish
<1>2. /\ pc[Initiator] = "open" /\ rd.ok
      /\ IsHs(rd.hs, Responder, k3, h6, k3, 1, Ephemeral(Initiator), Static(Initiator), Left3)
  BY <1>1, FinishArrives
<1> HIDE DEF rd
<1>3. wire'[Initiator] = Tail(wire[Initiator]) /\ wire'[Responder] = wire[Responder]
      /\ DOMAIN wire' = Roles /\ IsSeq(wire[Initiator]) /\ IsSeq(wire[Responder])
  BY <1>1 DEF IInv, Types
<1>4. /\ IsSeq(wire'[Initiator]) /\ Len(wire[Initiator]) \in Nat /\ Len(wire[Initiator]) >= 1
      /\ Len(wire'[Initiator]) = Len(wire[Initiator]) - 1
      /\ \A i \in 1 .. Len(wire[Initiator]) - 1 : wire'[Initiator][i] = wire[Initiator][i + 1]
  BY <1>1, <1>3, TailFacts, SeqFacts
<1>5. /\ pc'[Initiator] = "open" /\ pc'[Responder] = "open"
      /\ pc' \in [Roles -> {"start", "hello", "deviant", "open", "failed"}]
  <2>1. pc \in [Roles -> {"start", "hello", "deviant", "open", "failed"}]
    BY DEF IInv, Types
  <2>2. pc' = [pc EXCEPT ![Responder] = "open"]
    BY ONLY <1>1, <1>2 DEF Established
  <2> QED
    BY ONLY <1>2, <2>1, <2>2, RolesAre
<1>6. /\ sendCs'[Responder] = Split(rd.hs.ss, Responder) /\ recvCs'[Responder] = Split(rd.hs.ss, Initiator)
      /\ sendCs'[Initiator] = sendCs[Initiator] /\ recvCs'[Initiator] = recvCs[Initiator]
      /\ DOMAIN sendCs' = Roles /\ DOMAIN recvCs' = Roles
  BY <1>1, <1>2 DEF IInv, Types, Established, Ciphers
<1>7. Types'
  <2>1. DOMAIN hs' = Roles
    BY <1>1, <1>2 DEF IInv, Types
  <2> QED
    BY <1>1, <1>3, <1>4, <1>5, <1>6, <2>1 DEF IInv, Types
<1>8. Phases'
  BY <1>5 DEF Phases
<1>9. States'
  <2>1. hs'[Responder] = rd.hs /\ hs'[Initiator] = hs[Initiator]
    BY <1>1, <1>2 DEF IInv, Types
  <2> QED
    BY <1>2, <1>5, <2>1 DEF IInv, States
<1>10. Greetings'
  BY <1>5 DEF Greetings
<1>11. Closed'
  BY <1>5 DEF Closed
<1>12. /\ calls[Responder] = 0 /\ delivered[Initiator] = <<>> /\ accepted[Responder] = <<>>
       /\ reading[Responder] = "idle" /\ wire[Responder] = <<>>
  BY <1>1, <1>2 DEF IInv, Closed, Greetings
<1>13. delivered[Responder] = <<>>
  BY <1>1 DEF IInv, Closed
<1>14. Counters'
  <2>1. rd.hs.ss.ck = k3
    BY <1>2 DEF IsHs, IsSs
  <2>2. Place(sendCs'[Responder], Responder, 0) /\ Place(recvCs'[Responder], Initiator, 0)
    BY <1>6, <2>1, StartPlace
  <2>3. calls'[Responder] = 0 /\ Len(delivered'[Initiator]) = 0 /\ reading'[Responder] = "idle"
    BY <1>1, <1>12, EmptyFacts
  <2> QED
    BY <1>1, <1>2, <1>5, <1>6, <2>2, <2>3 DEF IInv, Counters
<1>15. Sealed' /\ InLock' /\ Numbered'
  BY <1>1 DEF IInv, Sealed, InLock, Numbered, Tally, Ordered
<1>16. OnTheWire'
  <2>1. Off(Initiator)' = 0 /\ Off(Responder)' = 0 /\ Off(Initiator) = 1
    BY <1>1, <1>5 DEF Off
  <2>2. Len(delivered'[Initiator]) = 0 /\ Len(delivered[Initiator]) = 0
    BY <1>1, <1>12, EmptyFacts
  <2>3. Len(accepted[Initiator]) \in Nat /\ accepted' = accepted /\ up' = up
    BY <1>1 DEF IInv, Types
  <2>4. /\ up => Len(wire[Initiator]) = Len(accepted[Initiator]) + 1
        /\ \A q \in 1 .. Len(wire[Initiator]) : q > 1 =>
             /\ q - 1 <= Len(accepted[Initiator])
             /\ \E piece : /\ wire[Initiator][q] = <<piece>>
                           /\ SealedAt(piece, Initiator, accepted[Initiator][q - 1][2])
    <3>1. pc[Initiator] = "open" /\ reading[Other(Initiator)] # "stopped" /\ Initiator \in Roles
      BY <1>2, <1>12
    <3>2. /\ up => Len(delivered[Initiator]) + Len(wire[Initiator]) = Len(accepted[Initiator]) + Off(Initiator)
          /\ \A q \in 1 .. Len(wire[Initiator]) : q > Off(Initiator) =>
               LET j == Len(delivered[Initiator]) + q - Off(Initiator)
               IN  /\ j <= Len(accepted[Initiator])
                   /\ \E piece : /\ wire[Initiator][q] = <<piece>>
                                 /\ SealedAt(piece, Initiator, accepted[Initiator][j][2])
      BY ONLY <3>1, IInv DEF IInv, OnTheWire, OnWire
    <3>3. \A q \in 1 .. Len(wire[Initiator]) : 0 + q - 1 = q - 1
      BY <1>4
    <3> QED
      BY ONLY <2>1, <2>2, <2>3, <3>2, <3>3, <1>4
  <2>5. ASSUME NEW q \in 1 .. Len(wire'[Initiator])
        PROVE  /\ 0 + q - 0 <= Len(accepted[Initiator])
               /\ \E piece : /\ wire'[Initiator][q] = <<piece>>
                             /\ SealedAt(piece, Initiator, accepted[Initiator][0 + q - 0][2])
    <3>1. q + 1 \in 1 .. Len(wire[Initiator]) /\ q + 1 > 1 /\ q + 1 - 1 = q /\ 0 + q - 0 = q
          /\ wire'[Initiator][q] = wire[Initiator][q + 1]
      BY <1>4
    <3> QED
      BY ONLY <2>4, <3>1
  <2>6. Len(delivered'[Responder]) + Len(wire'[Responder]) = Len(accepted'[Responder]) + Off(Responder)'
        /\ Len(wire'[Responder]) = 0
    <3>1. /\ delivered'[Responder] = <<>> /\ wire'[Responder] = <<>> /\ accepted'[Responder] = <<>>
      BY <1>1, <1>3, <1>12, <1>13
    <3> QED
      BY ONLY <2>1, <3>1, EmptyFacts
  <2>7. OnWire(Initiator)'
    <3>1. up' => Len(delivered'[Initiator]) + Len(wire'[Initiator]) = Len(accepted'[Initiator]) + Off(Initiator)'
      BY <1>4, <2>1, <2>2, <2>3, <2>4
    <3> QED
      BY ONLY <2>1, <2>2, <2>3, <2>5, <3>1 DEF OnWire
  <2>8. OnWire(Responder)'
    BY ONLY <2>6 DEF OnWire
  <2> QED
    BY <2>7, <2>8 DEF OnTheWire
<1> QED
  BY <1>7, <1>8, <1>9, <1>10, <1>11, <1>14, <1>15, <1>16 DEF IInv

LEMMA PrefixOfOne ==
  ASSUME NEW x, NEW n \in Nat, n <= 1
  PROVE  SubSeq(<<x>>, 1, n) \in {<<>>, <<x>>}
<1>1. n = 0 \/ n = 1
  OBVIOUS
<1>2. SubSeq(<<x>>, 1, 0) = <<>>
  OBVIOUS
<1>3. SubSeq(<<x>>, 1, 1) = <<x>>
  <2> DEFINE u == SubSeq(<<x>>, 1, 1)
             v == <<x>>
  <2>1. u \in Seq({x}) /\ v \in Seq({x}) /\ Len(u) = 1 /\ Len(v) = 1 /\ u[1] = v[1]
    OBVIOUS
  <2> HIDE DEF u, v
  <2>2. u = v
    BY <2>1, SeqEqual
  <2> QED
    BY <2>2 DEF u, v
<1> QED
  BY ONLY <1>1, <1>2, <1>3, Zenon

LEMMA CloseStep ==
  ASSUME IInv, Close
  PROVE  IInv'
<1> USE RolesAre
<1>1. PICK keep \in [Roles -> 0 .. MaxMsgs + 1] :
        /\ \A r \in Roles : keep[r] <= Len(wire[r])
        /\ wire' = [r \in Roles |-> SubSeq(wire[r], 1, keep[r])]
  BY DEF Close
<1>2. up /\ up' = FALSE /\ UNCHANGED <<hsVars, csVars>>
  BY DEF Close
<1>3. pc' = pc /\ hs' = hs /\ UNCHANGED csVars
  BY <1>2 DEF hsVars
<1>4. \A r \in Roles : /\ keep[r] \in Nat /\ keep[r] <= Len(wire[r]) /\ IsSeq(wire[r])
                        /\ wire'[r] = SubSeq(wire[r], 1, keep[r])
  <2> TAKE r \in Roles
  <2>1. keep[r] \in Nat
    BY TransportAssumption
  <2>2. wire'[r] = SubSeq(wire[r], 1, keep[r]) /\ keep[r] <= Len(wire[r])
    BY ONLY <1>1, r \in Roles
  <2>3. IsSeq(wire[r])
    BY DEF IInv, Types
  <2> QED
    BY <2>1, <2>2, <2>3
<1>5. \A r \in Roles : /\ IsSeq(wire'[r]) /\ Len(wire'[r]) = keep[r]
                        /\ \A i \in 1 .. keep[r] : wire'[r][i] = wire[r][i]
  <2> TAKE r \in Roles
  <2>1. /\ IsSeq(SubSeq(wire[r], 1, keep[r])) /\ Len(SubSeq(wire[r], 1, keep[r])) = keep[r]
        /\ \A i \in 1 .. keep[r] : SubSeq(wire[r], 1, keep[r])[i] = wire[r][i]
    BY ONLY <1>4, r \in Roles, PrefixFacts, Zenon
  <2>2. wire'[r] = SubSeq(wire[r], 1, keep[r])
    BY <1>4
  <2> QED
    BY ONLY <2>1, <2>2, Zenon
<1>6. \A r \in Roles : wire[r] = <<>> => wire'[r] = <<>>
  BY <1>4, <1>5, SeqFacts
<1>7. \A r \in Roles : \A x : wire[r] = <<x>> => wire'[r] \in {<<>>, <<x>>}
  <2> TAKE r \in Roles
  <2> TAKE x
  <2>1. ASSUME wire[r] = <<x>> PROVE wire'[r] \in {<<>>, <<x>>}
    <3>1. keep[r] \in Nat /\ keep[r] <= 1 /\ wire'[r] = SubSeq(<<x>>, 1, keep[r])
      BY <1>4, <2>1, OneFacts
    <3> QED
      BY ONLY <3>1, PrefixOfOne
  <2> QED
    BY <2>1
<1>8. Types'
  BY <1>1, <1>2, <1>3, <1>5 DEF IInv, Types, csVars
<1>9. Phases'
  BY <1>2, <1>3 DEF IInv, Phases
<1>10. States'
  BY <1>3 DEF IInv, States
<1>11. Greetings'
  <2>1. Greetings
    BY DEF IInv
  <2>2. pc[Responder] = "start" => wire'[Initiator] \in {<<>>, << <<pE1>> >>}
    BY ONLY <2>1, <1>6, <1>7, RolesAre, Zenon DEF Greetings
  <2>3. pc[Initiator] = "hello" /\ pc[Responder] = "hello" => wire'[Responder] \in {<<>>, <<Reply>>}
    BY ONLY <2>1, <1>6, <1>7, RolesAre, Zenon DEF Greetings
  <2>4. pc[Responder] = "deviant" =>
          wire'[Responder] = <<>> \/ \E bad : BadHello(bad) /\ wire'[Responder] = <<bad>>
    BY ONLY <2>1, <1>6, <1>7, RolesAre, Zenon DEF Greetings
  <2>5. ASSUME pc[Initiator] = "open", pc[Responder] = "hello", wire'[Initiator] # <<>>
        PROVE  wire'[Initiator][1] = <<pS3, pP3>>
    <3>1. wire[Initiator] # <<>> /\ keep[Initiator] # 0 /\ 1 \in 1 .. keep[Initiator]
      BY <1>4, <1>5, <1>6, <2>5, SeqFacts
    <3>2. wire'[Initiator][1] = wire[Initiator][1]
      BY <1>5, <3>1
    <3> QED
      BY <2>1, <2>5, <3>1, <3>2 DEF Greetings
  <2> QED
    BY ONLY <2>1, <2>2, <2>3, <2>4, <2>5, <1>3, <1>6, RolesAre, Zenon DEF Greetings
<1>12. Closed' /\ Counters' /\ Sealed' /\ InLock' /\ Numbered'
  BY <1>3, TransportKept DEF IInv, Types
<1>13. OnTheWire'
  <2> SUFFICES ASSUME NEW r \in Roles PROVE OnWire(r)'
    BY DEF OnTheWire
  <2>1. Off(r)' = Off(r) /\ Off(r) \in {0, 1}
    BY <1>3 DEF Off
  <2>2. OnWire(r)
    BY DEF IInv, OnTheWire
  <2>3. Len(wire[r]) \in Nat
    BY <1>4, SeqFacts
  <2>4. /\ keep[r] \in Nat /\ keep[r] <= Len(wire[r]) /\ Len(wire'[r]) = keep[r]
        /\ \A i \in 1 .. keep[r] : wire'[r][i] = wire[r][i]
    BY ONLY <1>4, <1>5, r \in Roles
  <2>5. /\ pc' = pc /\ reading' = reading /\ delivered' = delivered /\ accepted' = accepted
        /\ up' = FALSE
    BY <1>2, <1>3 DEF csVars
  <2>6. ASSUME pc[r] = "open", reading[Other(r)] # "stopped", NEW q \in 1 .. keep[r], q > Off(r)
        PROVE  LET j == Len(delivered[r]) + q - Off(r)
               IN  /\ j <= Len(accepted[r])
                   /\ \E piece : wire'[r][q] = <<piece>> /\ SealedAt(piece, r, accepted[r][j][2])
    <3>1. q \in 1 .. Len(wire[r]) /\ wire'[r][q] = wire[r][q]
      BY <2>3, <2>4
    <3> QED
      BY ONLY <2>2, <2>6, <3>1 DEF OnWire
  <2> QED
    BY ONLY <2>1, <2>4, <2>5, <2>6 DEF OnWire
<1> QED
  BY <1>8, <1>9, <1>10, <1>11, <1>12, <1>13 DEF IInv

-----------------------------------------------------------------------------
(* The transport leaves the handshake alone.                               *)
LEMMA HandshakeKept ==
  ASSUME IInv, UNCHANGED <<hsVars, up, wire>>
  PROVE  Phases' /\ States' /\ Greetings'
BY DEF IInv, Phases, States, Greetings, hsVars

LEMMA SendStep ==
  ASSUME IInv, NEW r \in Roles, Send(r)
  PROVE  IInv'
<1> DEFINE cs == Fresh(sendCs[r])
           piece == Seal(cs, <<>>, <<r, calls[r] + 1>>)
<1>1. /\ pc[r] = "open" /\ calls[r] < MaxMsgs /\ pending[r] = <<>>
      /\ sendCs' = [sendCs EXCEPT ![r] = Counted(cs)]
      /\ pending' = [pending EXCEPT ![r] = Append(@, piece)]
      /\ sealed' = sealed \cup {piece}
      /\ calls' = [calls EXCEPT ![r] = @ + 1]
      /\ UNCHANGED <<hsVars, up, wire, recvCs, reading, cancels, limit, accepted, delivered>>
  BY DEF Send, Message, LockFree
<1>2. Types
  BY DEF IInv
<1>3. calls[r] \in Nat /\ calls[r] + 1 \in Nat
  BY <1>2, TransportAssumption DEF Types
<1>4. Place(cs, r, calls[r]) /\ cs.n < RekeyInterval
  BY <1>1, <1>3, FreshPlace DEF IInv, Counters
<1>5. Place(Counted(cs), r, calls[r] + 1)
  BY <1>3, <1>4, CountedPlace
<1>6. SealedAt(piece, r, calls[r] + 1)
  BY <1>3, <1>4, SealPlace
<1> HIDE DEF cs, piece
<1>7. /\ pending'[r] = <<piece>> /\ \A q \in Roles \ {r} : pending'[q] = pending[q]
      /\ DOMAIN pending' = Roles
  <2>1. pending'[r] = Append(pending[r], piece) /\ DOMAIN pending' = Roles
        /\ \A q \in Roles \ {r} : pending'[q] = pending[q]
    BY <1>1, <1>2 DEF Types
  <2>2. Append(<<>>, piece) = <<piece>>
    BY ONLY Tuple1, Zenon
  <2> QED
    BY ONLY <1>1, <2>1, <2>2, Zenon
<1>8. /\ calls'[r] = calls[r] + 1 /\ \A q \in Roles \ {r} : calls'[q] = calls[q]
      /\ calls' \in [Roles -> 0 .. MaxMsgs]
  BY <1>1, <1>2, TransportAssumption DEF Types
<1>9. /\ sendCs'[r] = Counted(cs) /\ \A q \in Roles \ {r} : sendCs'[q] = sendCs[q]
      /\ DOMAIN sendCs' = Roles
  BY <1>1, <1>2 DEF Types
<1>10. Types'
  BY <1>1, <1>2, <1>7, <1>8, <1>9 DEF Types, hsVars
<1>11. Phases' /\ States' /\ Greetings'
  BY <1>1, HandshakeKept
<1>12. Closed'
  BY <1>1, <1>7, <1>8, <1>9 DEF IInv, Closed, hsVars
<1>13. Counters'
  BY <1>1, <1>5, <1>8, <1>9 DEF IInv, Counters, hsVars
<1>14. Sealed'
  <2> SUFFICES ASSUME NEW a \in sealed'
               PROVE  \E q \in Roles : \E i \in Nat : i <= calls'[q] /\ SealedAt(a, q, i)
    BY DEF Sealed
  <2>1. CASE a = piece
    BY <1>3, <1>6, <1>8, <2>1
  <2>2. CASE a \in sealed
    <3>1. PICK q \in Roles : \E i \in Nat : i <= calls[q] /\ SealedAt(a, q, i)
      BY <2>2 DEF IInv, Sealed
    <3>2. calls[q] <= calls'[q] /\ calls[q] \in Nat /\ calls'[q] \in Nat
      <4>1. calls[q] \in Nat
        BY <1>2, TransportAssumption DEF Types
      <4>2. calls'[q] = calls[q] \/ calls'[q] = calls[q] + 1
        BY <1>8
      <4> QED
        BY ONLY <4>1, <4>2
    <3> QED
      BY <3>1, <3>2
  <2> QED
    BY <1>1, <2>1, <2>2
<1>15. InLock'
  BY <1>6, <1>7, <1>8 DEF IInv, InLock
<1>16. Numbered'
  <2>1. Len(pending'[r]) = 1 /\ Len(pending[r]) = 0
    BY ONLY <1>1, <1>7, OneFacts, EmptyFacts, Zenon
  <2>2. Len(accepted[r]) \in Nat
    BY <1>2 DEF Types
  <2>3. accepted' = accepted /\ limit' = limit
    BY <1>1
  <2>4. Numbered
    BY DEF IInv
  <2> QED
    <3>1. ASSUME NEW q \in Roles PROVE Ordered(q)'
      BY ONLY <2>3, <2>4, q \in Roles DEF Numbered, Ordered
    <3>2. ASSUME NEW q \in Roles \ {r} PROVE Tally(q)'
      BY ONLY <1>7, <1>8, <2>3, <2>4, q \in Roles \ {r} DEF Numbered, Tally
    <3>3. Tally(r)'
      <4>1. Tally(r)
        BY <2>4 DEF Numbered
      <4>2. Len(accepted[r]) + 0 = Len(accepted[r]) /\ limit'[r] = limit[r] /\ accepted'[r] = accepted[r]
        BY <2>2, <2>3
      <4>3. calls'[r] = calls[r] + 1
        BY <1>8
      <4> QED
        BY ONLY <1>3, <2>1, <2>2, <4>1, <4>2, <4>3 DEF Tally
    <3> QED
      BY ONLY <3>1, <3>2, <3>3 DEF Numbered
<1>17. OnTheWire'
  BY <1>1 DEF IInv, OnTheWire, OnWire, Off, hsVars
<1> QED
  BY <1>10, <1>11, <1>12, <1>13, <1>14, <1>15, <1>16, <1>17 DEF IInv

(* The task in the lock.                                                   *)
LEMMA LockHeld ==
  ASSUME IInv, NEW r \in Roles, NEW i \in DOMAIN pending[r]
  PROVE  /\ pc[r] = "open" /\ i = 1 /\ Len(pending[r]) = 1 /\ RemoveAt(pending[r], i) = <<>>
         /\ SealedAt(pending[r][i], r, calls[r])
         /\ pending[r][i].p = <<r, calls[r]>>
<1>1. pending[r] # <<>>
  <2>1. DOMAIN <<>> = {}
    OBVIOUS
  <2> QED
    BY <2>1, Zenon
<1>2. PICK piece : pending[r] = <<piece>> /\ SealedAt(piece, r, calls[r])
  BY <1>1 DEF IInv, InLock
<1>3. i \in DOMAIN <<piece>>
  BY ONLY <1>2, i \in DOMAIN pending[r], Zenon
<1>4. i = 1 /\ RemoveAt(<<piece>>, i) = <<>>
  BY ONLY <1>3, RemoveOnly
<1>5. pending[r][i] = piece /\ Len(pending[r]) = 1
  BY ONLY <1>2, <1>4, OneFacts, Zenon
<1>6. piece.p = <<r, calls[r]>>
  BY <1>2 DEF SealedAt
<1>7. pc[r] = "open"
  BY <1>1 DEF IInv, Closed
<1> QED
  BY ONLY <1>2, <1>4, <1>5, <1>6, <1>7, Zenon

LEMMA FrameSentStep ==
  ASSUME IInv, NEW r \in Roles, NEW i \in DOMAIN pending[r], FrameSent(r, i)
  PROVE  IInv'
<1> USE RolesAre
<1> DEFINE piece == pending[r][i]
<1>1. /\ up /\ wire' = [wire EXCEPT ![r] = Append(@, <<piece>>)]
      /\ pending' = [pending EXCEPT ![r] = RemoveAt(@, i)]
      /\ accepted' = [accepted EXCEPT ![r] = Append(@, piece.p)]
      /\ UNCHANGED <<hsVars, up, sendCs, recvCs, reading, cancels, limit, calls, delivered, sealed>>
  BY DEF FrameSent
<1>2. /\ pc[r] = "open" /\ Len(pending[r]) = 1 /\ RemoveAt(pending[r], i) = <<>>
      /\ SealedAt(piece, r, calls[r]) /\ piece.p = <<r, calls[r]>>
  BY LockHeld
<1> HIDE DEF piece
<1>3. Types /\ pc' = pc /\ hs' = hs
  BY <1>1 DEF IInv, hsVars
<1>4. calls[r] \in Nat /\ Len(accepted[r]) \in Nat /\ Len(delivered[r]) \in Nat
  BY <1>3, TransportAssumption DEF Types
<1>5. /\ IsSeq(wire[r]) /\ Len(wire[r]) \in Nat
      /\ wire'[r] = Append(wire[r], <<piece>>) /\ \A q \in Roles \ {r} : wire'[q] = wire[q]
      /\ DOMAIN wire' = Roles
  BY <1>1, <1>3, SeqFacts DEF Types
<1>6. /\ IsSeq(wire'[r]) /\ Len(wire'[r]) = Len(wire[r]) + 1
      /\ \A j \in 1 .. Len(wire[r]) : wire'[r][j] = wire[r][j]
      /\ wire'[r][Len(wire[r]) + 1] = <<piece>>
  <2>1. /\ IsSeq(Append(wire[r], <<piece>>)) /\ Len(Append(wire[r], <<piece>>)) = Len(wire[r]) + 1
        /\ \A j \in 1 .. Len(wire[r]) : Append(wire[r], <<piece>>)[j] = wire[r][j]
        /\ Append(wire[r], <<piece>>)[Len(wire[r]) + 1] = <<piece>>
    BY ONLY <1>5, AppendFacts, Zenon
  <2> QED
    BY ONLY <1>5, <2>1, Zenon
<1>7. /\ accepted'[r] \in Seq(Roles \X Nat) /\ Len(accepted'[r]) = Len(accepted[r]) + 1
      /\ \A j \in 1 .. Len(accepted[r]) : accepted'[r][j] = accepted[r][j]
      /\ accepted'[r][Len(accepted[r]) + 1] = <<r, calls[r]>>
      /\ \A q \in Roles \ {r} : accepted'[q] = accepted[q]
      /\ DOMAIN accepted' = Roles
  <2>1. accepted'[r] = Append(accepted[r], <<r, calls[r]>>) /\ accepted[r] \in Seq(Roles \X Nat)
        /\ \A q \in Roles \ {r} : accepted'[q] = accepted[q]
        /\ DOMAIN accepted' = Roles
    BY <1>1, <1>2, <1>3 DEF Types
  <2> QED
    <3> DEFINE s == accepted[r]
               M == Roles \X Nat
               x == <<r, calls[r]>>
    <3>1. s \in Seq(M) /\ x \in M
      BY <1>4, <2>1
    <3>2. accepted'[r] = Append(s, x)
      BY <2>1
    <3> HIDE DEF M, s, x
    <3>3. Append(s, x) \in Seq(M) /\ Len(Append(s, x)) = Len(s) + 1
      BY ONLY <3>1, AppendSeq
    <3>4. \A j \in 1 .. Len(s) : Append(s, x)[j] = s[j]
      BY ONLY <3>1, AppendSeq
    <3>5. Append(s, x)[Len(s) + 1] = x
      BY ONLY <3>1, AppendSeq
    <3>6. /\ accepted'[r] \in Seq(M) /\ Len(accepted'[r]) = Len(s) + 1
          /\ \A j \in 1 .. Len(s) : accepted'[r][j] = s[j]
          /\ accepted'[r][Len(s) + 1] = x
      BY ONLY <3>2, <3>3, <3>4, <3>5, Zenon
    <3> QED
      BY <2>1, <3>6 DEF s, M, x
<1>18. /\ Len(wire[r]) \in Nat /\ Len(wire'[r]) = Len(wire[r]) + 1
       /\ Len(accepted'[r]) = Len(accepted[r]) + 1 /\ Len(pending[r]) = 1
  BY ONLY <1>2, <1>5, <1>6, <1>7, Zenon
<1>8. /\ pending'[r] = <<>> /\ \A q \in Roles \ {r} : pending'[q] = pending[q]
      /\ DOMAIN pending' = Roles
  BY <1>1, <1>2, <1>3 DEF Types
<1>9. Types'
  <2>1. \A q \in Roles : accepted'[q] \in Seq(Roles \X Nat)
    BY ONLY <1>3, <1>7 DEF Types
  <2>2. accepted' \in [Roles -> Seq(Roles \X Nat)]
    BY ONLY <1>1, <1>3, <1>7, <2>1 DEF Types
  <2>3. \A q \in Roles : IsSeq(wire'[q])
    BY ONLY <1>3, <1>5, <1>6 DEF Types
  <2> QED
    BY <1>1, <1>3, <1>5, <1>8, <2>2, <2>3 DEF Types
<1>10. Phases' /\ States'
  BY <1>1, <1>3 DEF IInv, Phases, States
<1>11. ASSUME pc[Other(r)] # "open"
       PROVE  wire[r] # <<>> \/ reading[Other(r)] = "stopped"
  <2>1. delivered[r] = <<>>
    BY <1>11 DEF IInv, Closed
  <2>2. Off(r) = 1
    BY <1>11 DEF Off
  <2>3. OnWire(r)
    BY DEF IInv, OnTheWire
  <2>4. Len(wire[r]) = 0 => reading[Other(r)] = "stopped"
    BY <1>1, <1>2, <1>4, <2>1, <2>2, <2>3, EmptyFacts DEF OnWire
  <2> QED
    BY <1>5, <2>4, EmptyFacts
<1>12. Greetings'
  <2>1. CASE r = Responder
    <3>1. pc[Initiator] = "open" /\ pc[Responder] = "open"
      BY <1>2, <2>1 DEF IInv, Phases
    <3> QED
      BY <1>3, <3>1 DEF Greetings
  <2>2. CASE r = Initiator
    <3>1. pc[Initiator] = "open" /\ pc[Responder] # "failed" /\ wire'[Responder] = wire[Responder]
      BY <1>1, <1>2, <1>5, <2>2 DEF IInv, Phases
    <3>2. ASSUME pc[Responder] = "hello" PROVE wire'[Initiator][1] = <<pS3, pP3>>
      <4>1. wire[Initiator] # <<>>
        <5>1. reading[Responder] = "idle"
          BY <3>2 DEF IInv, Closed
        <5> QED
          BY <1>11, <2>2, <3>2, <5>1
      <4>2. 1 \in 1 .. Len(wire[Initiator])
        BY <1>5, <2>2, <4>1, SeqFacts
      <4> QED
        BY <1>6, <2>2, <3>1, <3>2, <4>1, <4>2 DEF IInv, Greetings
    <3> QED
      BY <1>3, <3>1, <3>2 DEF IInv, Greetings, Phases
  <2> QED
    BY <2>1, <2>2
<1>13. Closed'
  BY <1>1, <1>2, <1>3, <1>7, <1>8 DEF IInv, Closed
<1>14. Counters' /\ Sealed'
  BY <1>1, <1>3 DEF IInv, Counters, Sealed
<1>15. InLock'
  BY <1>1, <1>8 DEF IInv, InLock
<1>16. Numbered'
  <2>1. Numbered /\ limit' = limit /\ calls' = calls
    BY <1>1 DEF IInv
  <2>2. ASSUME NEW q \in Roles \ {r} PROVE Tally(q)' /\ Ordered(q)'
    BY ONLY <1>7, <1>8, <2>1, q \in Roles \ {r} DEF Numbered, Tally, Ordered
  <2>3. Tally(r) /\ Ordered(r) /\ limit[r] \in Nat /\ calls[r] <= MaxMsgs
    BY <1>3, <2>1, TransportAssumption DEF Numbered, Types
  <2>4. Tally(r)'
    <3>1. Len(pending'[r]) = 0 /\ limit'[r] = limit[r] /\ calls'[r] = calls[r]
      BY <1>8, <2>1, EmptyFacts
    <3> QED
      BY ONLY <1>2, <1>4, <1>7, <2>3, <3>1 DEF Tally
  <2>5. Ordered(r)'
    <3> DEFINE m == Len(accepted[r])
    <3>1. ASSUME NEW j \in 1 .. m
          PROVE  /\ accepted'[r][j][1] = r
                 /\ j <= limit'[r] => accepted'[r][j][2] = j
                 /\ j > limit'[r] => accepted'[r][j][2] > j
      BY <1>7, <2>1, <2>3 DEF Ordered
    <3>2. /\ accepted'[r][m + 1][1] = r
          /\ m + 1 <= limit'[r] => accepted'[r][m + 1][2] = m + 1
          /\ m + 1 > limit'[r] => accepted'[r][m + 1][2] > m + 1
      <4>1. accepted'[r][m + 1][1] = r /\ accepted'[r][m + 1][2] = calls[r]
        BY <1>7
      <4>2. (limit[r] = MaxMsgs + 1 /\ m + 1 = calls[r]) \/ (limit[r] <= m /\ m + 1 < calls[r])
        <5>1. Tally(r) /\ m = Len(accepted[r])
          BY ONLY <2>3, Zenon
        <5> HIDE DEF m
        <5> QED
          BY ONLY <1>4, <1>18, <5>1 DEF Tally, Unlimited
      <4>3. limit'[r] = limit[r] /\ MaxMsgs \in Nat
        BY <2>1, TransportAssumption
      <4> QED
        BY ONLY <1>4, <2>3, <4>1, <4>2, <4>3
    <3>3. \A j \in 1 .. Len(accepted'[r]) : j \in 1 .. m \/ j = m + 1
      BY <1>4, <1>7
    <3> HIDE DEF m
    <3> QED
      BY ONLY <3>1, <3>2, <3>3 DEF Ordered
  <2> QED
    BY ONLY <2>2, <2>4, <2>5 DEF Numbered
<1>17. OnTheWire'
  <2>1. ASSUME NEW q \in Roles \ {r} PROVE OnWire(q)'
    BY <1>1, <1>3, <1>5, <1>7 DEF IInv, OnTheWire, OnWire, Off
  <2>2. OnWire(r)'
    <3>1. OnWire(r) /\ Off(r)' = Off(r) /\ Off(r) \in {0, 1}
      BY <1>3 DEF IInv, OnTheWire, Off
    <3>2. delivered' = delivered /\ reading' = reading /\ up' = up /\ up
      BY <1>1
    <3>3. SUFFICES ASSUME reading[Other(r)] # "stopped"
                   PROVE  OnWire(r)'
      BY <3>2 DEF OnWire
    <3>4. Len(delivered[r]) + Len(wire[r]) = Len(accepted[r]) + Off(r)
      BY <1>2, <3>1, <3>2, <3>3 DEF OnWire
    <3>5. ASSUME NEW q \in 1 .. Len(wire'[r]), q > Off(r)
          PROVE  LET j == Len(delivered[r]) + q - Off(r)
                 IN  /\ j <= Len(accepted'[r])
                     /\ \E p : wire'[r][q] = <<p>> /\ SealedAt(p, r, accepted'[r][j][2])
      <4> DEFINE j == Len(delivered[r]) + q - Off(r)
      <4>1. CASE q \in 1 .. Len(wire[r])
        <5>1. /\ j <= Len(accepted[r])
              /\ \E p : wire[r][q] = <<p>> /\ SealedAt(p, r, accepted[r][j][2])
          BY <1>2, <3>1, <3>3, <3>5, <4>1 DEF OnWire
        <5>2. j \in 1 .. Len(accepted[r])
          <6> DEFINE d == Len(delivered[r])
                     c == Len(accepted[r])
                     o == Off(r)
          <6>1. d \in Nat /\ c \in Nat /\ o \in {0, 1} /\ q > o /\ d + q - o <= c
            BY ONLY <1>4, <3>1, <3>5, <5>1, Zenon
          <6>2. q \in Int
            BY ONLY <1>18, <4>1
          <6> HIDE DEF d, c, o
          <6>3. d + q - o \in 1 .. c
            BY ONLY <6>1, <6>2
          <6> QED
            BY <6>3 DEF d, c, o
        <5>3. accepted'[r][j] = accepted[r][j] /\ wire'[r][q] = wire[r][q] /\ j <= Len(accepted'[r])
          <6> HIDE DEF j
          <6>1. accepted'[r][j] = accepted[r][j]
            BY ONLY <1>7, <5>2, Zenon
          <6>2. wire'[r][q] = wire[r][q]
            BY ONLY <1>6, <4>1, Zenon
          <6>3. j <= Len(accepted'[r])
            BY ONLY <1>4, <1>18, <5>2
          <6> QED
            BY ONLY <6>1, <6>2, <6>3, Zenon
        <5> HIDE DEF j
        <5>4. /\ j <= Len(accepted'[r])
              /\ \E p : wire'[r][q] = <<p>> /\ SealedAt(p, r, accepted'[r][j][2])
          BY ONLY <5>1, <5>3, Zenon
        <5> QED
          BY <5>4 DEF j
      <4>2. CASE q = Len(wire[r]) + 1
        <5>1. j = Len(accepted[r]) + 1
          <6>1. Len(delivered[r]) + (Len(wire[r]) + 1) - Off(r) = Len(accepted[r]) + 1
            <7> DEFINE d == Len(delivered[r])
                       b == Len(wire[r])
                       c == Len(accepted[r])
                       o == Off(r)
            <7>1. d \in Nat /\ b \in Nat /\ c \in Nat /\ o \in {0, 1} /\ d + b = c + o
              BY ONLY <1>4, <1>18, <3>1, <3>4, Zenon
            <7> HIDE DEF d, b, c, o
            <7>2. d + (b + 1) - o = c + 1
              BY ONLY <7>1
            <7> QED
              BY ONLY <7>2, Zenon DEF d, b, c, o
          <6> QED
            BY ONLY <4>2, <6>1, Zenon
        <5>2. accepted'[r][j][2] = calls[r] /\ j <= Len(accepted'[r]) /\ wire'[r][q] = <<piece>>
          BY <1>4, <1>6, <1>7, <4>2, <5>1
        <5> HIDE DEF j
        <5>3. /\ j <= Len(accepted'[r])
              /\ \E p : wire'[r][q] = <<p>> /\ SealedAt(p, r, accepted'[r][j][2])
          BY ONLY <1>2, <5>2, Zenon
        <5> QED
          BY <5>3 DEF j
      <4>3. q \in 1 .. Len(wire[r]) \/ q = Len(wire[r]) + 1
        BY <1>5, <1>6
      <4> QED
        BY <4>1, <4>2, <4>3
    <3>6. Len(delivered'[r]) + Len(wire'[r]) = Len(accepted'[r]) + Off(r)'
      <4>1. delivered'[r] = delivered[r]
        BY <3>2
      <4> QED
        <5>1. Len(delivered[r]) + (Len(wire[r]) + 1) = (Len(accepted[r]) + 1) + Off(r)
          <6> DEFINE d == Len(delivered[r])
                     b == Len(wire[r])
                     c == Len(accepted[r])
                     o == Off(r)
          <6>1. d \in Nat /\ b \in Nat /\ c \in Nat /\ o \in {0, 1} /\ d + b = c + o
            BY ONLY <1>4, <1>18, <3>1, <3>4, Zenon
          <6> HIDE DEF d, b, c, o
          <6>2. d + (b + 1) = (c + 1) + o
            BY ONLY <6>1
          <6> QED
            BY <6>2 DEF d, b, c, o
        <5> QED
          BY ONLY <1>18, <3>1, <4>1, <5>1, Zenon
    <3> QED
      BY ONLY <3>1, <3>2, <3>5, <3>6 DEF OnWire
  <2> QED
    BY <2>1, <2>2 DEF OnTheWire
<1> QED
  BY <1>9, <1>10, <1>12, <1>13, <1>14, <1>15, <1>16, <1>17 DEF IInv

LEMMA FrameRefusedStep ==
  ASSUME IInv, NEW r \in Roles, NEW i \in DOMAIN pending[r], FrameRefused(r, i)
  PROVE  IInv'
<1>1. /\ pending' = [pending EXCEPT ![r] = RemoveAt(@, i)]
      /\ limit' = [limit EXCEPT ![r] = Min({@, Len(accepted[r])})]
      /\ UNCHANGED <<hsVars, up, wire, sendCs, recvCs, reading, cancels, calls, accepted, delivered,
                     sealed>>
  BY DEF FrameRefused
<1>2. pc[r] = "open" /\ Len(pending[r]) = 1 /\ RemoveAt(pending[r], i) = <<>>
  BY LockHeld
<1>3. Types
  BY DEF IInv
<1>4. limit[r] \in Nat /\ Len(accepted[r]) \in Nat /\ calls[r] \in Nat /\ calls[r] <= MaxMsgs
      /\ MaxMsgs \in Nat
  BY <1>3, TransportAssumption DEF Types
<1>5. /\ limit'[r] = IF limit[r] <= Len(accepted[r]) THEN limit[r] ELSE Len(accepted[r])
      /\ \A q \in Roles \ {r} : limit'[q] = limit[q]
      /\ limit' \in [Roles -> Nat]
  <2>1. limit' = [limit EXCEPT ![r] = IF limit[r] <= Len(accepted[r]) THEN limit[r] ELSE Len(accepted[r])]
    BY <1>1, <1>4, SmallerOf
  <2> QED
    BY <1>3, <1>4, <2>1 DEF Types
<1>6. /\ pending'[r] = <<>> /\ \A q \in Roles \ {r} : pending'[q] = pending[q]
      /\ DOMAIN pending' = Roles
  BY <1>1, <1>2, <1>3 DEF Types
<1>7. Types'
  BY <1>1, <1>3, <1>5, <1>6 DEF Types, hsVars
<1>8. Phases' /\ States' /\ Greetings'
  BY <1>1, HandshakeKept
<1>9. Closed'
  BY <1>1, <1>6 DEF IInv, Closed, hsVars
<1>10. Counters' /\ Sealed'
  BY <1>1 DEF IInv, Counters, Sealed, hsVars
<1>11. InLock'
  BY <1>1, <1>6 DEF IInv, InLock
<1>12. Numbered'
  <2>1. Numbered /\ accepted' = accepted /\ calls' = calls
    BY <1>1 DEF IInv
  <2>2. ASSUME NEW q \in Roles \ {r} PROVE Tally(q)' /\ Ordered(q)'
    BY ONLY <1>5, <1>6, <2>1, q \in Roles \ {r} DEF Numbered, Tally, Ordered
  <2>3. Tally(r) /\ Ordered(r)
    BY <2>1 DEF Numbered
  <2>4. Len(pending'[r]) = 0
    BY <1>6, EmptyFacts
  <2>5. Tally(r)'
    BY ONLY <1>2, <1>4, <1>5, <2>1, <2>3, <2>4 DEF Tally, Unlimited
  <2>6. Ordered(r)'
    <3>1. ASSUME NEW j \in 1 .. Len(accepted[r])
          PROVE  (j <= limit'[r] <=> j <= limit[r]) /\ (j > limit'[r] <=> j > limit[r])
      BY ONLY <1>2, <1>4, <1>5, <2>3, j \in 1 .. Len(accepted[r]) DEF Tally, Unlimited
    <3> QED
      BY ONLY <2>1, <2>3, <3>1 DEF Ordered
  <2> QED
    BY ONLY <2>2, <2>5, <2>6 DEF Numbered
<1>13. OnTheWire'
  BY <1>1 DEF IInv, OnTheWire, OnWire, Off, hsVars
<1> QED
  BY <1>7, <1>8, <1>9, <1>10, <1>11, <1>12, <1>13 DEF IInv

-----------------------------------------------------------------------------
LEMMA RecvStep ==
  ASSUME IInv, NEW r \in Roles, Recv(r)
  PROVE  IInv'
<1> USE RolesAre
<1> DEFINE x == Len(delivered[Other(r)])
<1>1. /\ pc[r] = "open" /\ reading[r] = "idle"
      /\ recvCs' = [recvCs EXCEPT ![r] = Fresh(@)]
      /\ reading' = [reading EXCEPT ![r] = "await"]
      /\ UNCHANGED <<hsVars, up, wire, sendCs, pending, cancels, limit, calls, accepted, delivered,
                     sealed>>
  BY DEF Recv, RecvFresh, Fresh
<1>2. Types /\ Other(r) \in Roles
  BY DEF IInv
<1>3. x \in Nat
  BY <1>2 DEF Types
<1>4. Place(Fresh(recvCs[r]), Other(r), x) /\ Fresh(recvCs[r]).n < RekeyInterval
  BY <1>1, <1>2, <1>3, FreshPlace DEF IInv, Counters
<1>5. /\ recvCs'[r] = Fresh(recvCs[r]) /\ \A q \in Roles \ {r} : recvCs'[q] = recvCs[q]
      /\ DOMAIN recvCs' = Roles
  BY <1>1, <1>2 DEF Types
<1>6. /\ reading'[r] = "await" /\ \A q \in Roles \ {r} : reading'[q] = reading[q]
      /\ reading' \in [Roles -> {"idle", "await", "stopped"}]
  BY <1>1, <1>2 DEF Types
<1>7. Types'
  BY <1>1, <1>2, <1>5, <1>6 DEF Types, hsVars
<1>8. Phases' /\ States' /\ Greetings'
  BY <1>1, HandshakeKept
<1>9. Closed'
  BY <1>1, <1>5, <1>6 DEF IInv, Closed, hsVars
<1>10. Counters'
  BY <1>1, <1>4, <1>5, <1>6 DEF IInv, Counters, hsVars
<1>11. Sealed' /\ InLock'
  BY <1>1 DEF IInv, Sealed, InLock
<1>12. Numbered'
  BY <1>1 DEF IInv, Numbered, Tally, Ordered
<1>13. \A q \in Roles : reading'[q] = "stopped" <=> reading[q] = "stopped"
  BY <1>1, <1>6
<1>14. OnTheWire'
  <2>1. ASSUME NEW q \in Roles PROVE OnWire(q)'
    <3>1. reading'[Other(q)] # "stopped" => reading[Other(q)] # "stopped"
      BY <1>13
    <3>2. OnWire(q)
      BY DEF IInv, OnTheWire
    <3>3. pc' = pc /\ UNCHANGED <<up, wire, accepted, delivered>>
      BY <1>1 DEF hsVars
    <3> QED
      BY ONLY <3>1, <3>2, <3>3 DEF OnWire, Off
  <2> QED
    BY <2>1 DEF OnTheWire
<1> QED
  BY <1>7, <1>8, <1>9, <1>10, <1>11, <1>12, <1>14 DEF IInv

(* The reader stops, or gives up this call.                                *)
LEMMA ReaderStep ==
  ASSUME IInv, NEW r \in Roles, RecvCancelled(r) \/ RecvClosed(r)
  PROVE  IInv'
<1> USE RolesAre
<1>1. /\ reading[r] = "await"
      /\ reading' = [reading EXCEPT ![r] = "idle"] \/ reading' = [reading EXCEPT ![r] = "stopped"]
      /\ UNCHANGED <<hsVars, up, wire, sendCs, recvCs, pending, limit, calls, accepted, delivered,
                     sealed>>
  BY DEF RecvCancelled, RecvClosed
<1>2. Types /\ pc[r] = "open"
  BY <1>1 DEF IInv, Closed
<1>3. /\ reading'[r] # "await" /\ \A q \in Roles \ {r} : reading'[q] = reading[q]
      /\ reading' \in [Roles -> {"idle", "await", "stopped"}]
  <2>1. reading \in [Roles -> {"idle", "await", "stopped"}]
    BY ONLY <1>2 DEF Types
  <2> QED
    BY ONLY <1>1, <2>1, r \in Roles
<1>4. Types'
  BY <1>1, <1>2, <1>3 DEF Types, hsVars
<1>5. Phases' /\ States' /\ Greetings'
  BY <1>1, HandshakeKept
<1>6. Closed'
  BY <1>1, <1>2, <1>3 DEF IInv, Closed, hsVars
<1>7. Counters'
  BY <1>1, <1>3 DEF IInv, Counters, hsVars
<1>8. Sealed' /\ InLock'
  BY <1>1 DEF IInv, Sealed, InLock
<1>9. Numbered'
  BY <1>1 DEF IInv, Numbered, Tally, Ordered
<1>10. \A q \in Roles : reading'[q] # "stopped" => reading[q] # "stopped"
  BY <1>1, <1>3
<1>11. OnTheWire'
  <2>1. ASSUME NEW q \in Roles PROVE OnWire(q)'
    <3>1. reading'[Other(q)] # "stopped" => reading[Other(q)] # "stopped"
      BY <1>10
    <3>2. OnWire(q)
      BY DEF IInv, OnTheWire
    <3>3. pc' = pc /\ UNCHANGED <<up, wire, accepted, delivered>>
      BY <1>1 DEF hsVars
    <3> QED
      BY ONLY <3>1, <3>2, <3>3 DEF OnWire, Off
  <2> QED
    BY <2>1 DEF OnTheWire
<1> QED
  BY <1>4, <1>5, <1>6, <1>7, <1>8, <1>9, <1>11 DEF IInv

(* The frame that a waiting reader takes is the next one that was written, *)
(* and it opens exactly when no frame before it was refused.               *)
LEMMA FrameArrives ==
  ASSUME IInv, NEW r \in Roles, reading[r] = "await", wire[Other(r)] # <<>>
  PROVE  LET q == Other(r)
             d == Len(delivered[q])
             piece == Head(Head(wire[q]))
         IN  /\ pc[r] = "open" /\ pc[q] = "open"
             /\ d \in Nat /\ d + 1 <= Len(accepted[q])
             /\ SealedAt(piece, q, accepted[q][d + 1][2])
             /\ accepted[q][d + 1] \in Roles \X Nat
             /\ accepted[q][d + 1][1] = q
             /\ Opens(recvCs[r], <<>>, piece) <=> d + 1 <= limit[q]
             /\ Opens(recvCs[r], <<>>, piece) => accepted[q][d + 1][2] = d + 1
<1> DEFINE q == Other(r)
           d == Len(delivered[q])
           piece == Head(Head(wire[q]))
           x == accepted[q][d + 1][2]
<1>1. Types /\ q \in Roles /\ Other(q) = r
  BY RolesAre DEF IInv
<1>2. pc[r] = "open"
  BY DEF IInv, Closed
<1>3. pc[q] = "open"
  BY <1>2, RolesAre DEF IInv, Phases, Greetings
<1> HIDE DEF q
<1>4. d \in Nat /\ Len(accepted[q]) \in Nat /\ limit[q] \in Nat /\ accepted[q] \in Seq(Roles \X Nat)
  BY <1>1 DEF Types
<1>5. IsSeq(wire[q]) /\ wire[q] # <<>>
  BY <1>1 DEF Types, q
<1>6. Len(wire[q]) \in Nat /\ Len(wire[q]) # 0 /\ Head(wire[q]) = wire[q][1]
  BY ONLY <1>5, SeqFacts
<1>7. Off(q) = 0 /\ reading[Other(q)] # "stopped" /\ OnWire(q)
  BY <1>1, <1>2 DEF Off, IInv, OnTheWire
<1>8. 1 \in 1 .. Len(wire[q]) /\ 1 > Off(q) /\ d + 1 - Off(q) = d + 1
  BY <1>4, <1>6, <1>7
<1>9. PICK p : d + 1 <= Len(accepted[q]) /\ wire[q][1] = <<p>> /\ SealedAt(p, q, x)
  <2>1. /\ d + 1 - Off(q) <= Len(accepted[q])
        /\ \E p : wire[q][1] = <<p>> /\ SealedAt(p, q, accepted[q][d + 1 - Off(q)][2])
    BY <1>3, <1>7, <1>8 DEF OnWire
  <2> QED
    BY ONLY <1>8, <2>1, Zenon
<1>10. piece = p
  BY ONLY <1>6, <1>9, OneFacts, Zenon
<1>11. d + 1 \in 1 .. Len(accepted[q])
  BY <1>4, <1>9
<1>12. accepted[q][d + 1] \in Roles \X Nat /\ x \in Nat
  BY <1>4, <1>11
<1>13. /\ accepted[q][d + 1][1] = q
       /\ d + 1 <= limit[q] => x = d + 1
       /\ d + 1 > limit[q] => x > d + 1
  BY <1>1, <1>11 DEF IInv, Numbered, Ordered
<1>14. Place(recvCs[r], q, d) /\ recvCs[r].n < RekeyInterval
  BY <1>2 DEF IInv, Counters, q
<1>15. SealedAt(piece, q, x)
  BY ONLY <1>9, <1>10, Zenon
<1> HIDE DEF d, piece, x
<1>16. Opens(recvCs[r], <<>>, piece) <=> x = d + 1
  BY ONLY <1>1, <1>4, <1>12, <1>14, <1>15, OpensPlace
<1>17. x = d + 1 <=> d + 1 <= limit[q]
  BY ONLY <1>4, <1>12, <1>13
<1> QED
  BY ONLY <1>2, <1>3, <1>4, <1>9, <1>12, <1>13, <1>15, <1>16, <1>17, Zenon DEF q, d, piece, x


LEMMA RecvFrameStep ==
  ASSUME IInv, NEW r \in Roles, RecvFrame(r)
  PROVE  IInv'
<1> DEFINE q == Other(r)
           d == Len(delivered[q])
           piece == Head(Head(wire[q]))
           opens == Opens(recvCs[r], <<>>, piece)
<1>1. /\ reading[r] = "await" /\ wire[q] # <<>>
      /\ wire' = [wire EXCEPT ![q] = Tail(@)]
      /\ opens => /\ recvCs' = [recvCs EXCEPT ![r] = Counted(@)]
                  /\ delivered' = [delivered EXCEPT ![q] = Append(@, piece.p)]
                  /\ reading' = [reading EXCEPT ![r] = "idle"]
      /\ ~opens => /\ reading' = [reading EXCEPT ![r] = "stopped"]
                   /\ UNCHANGED <<recvCs, delivered>>
      /\ UNCHANGED <<hsVars, up, sendCs, pending, cancels, limit, calls, accepted, sealed>>
  BY DEF RecvFrame
<1>2. /\ pc[r] = "open" /\ pc[q] = "open"
      /\ d \in Nat /\ d + 1 <= Len(accepted[q])
      /\ SealedAt(piece, q, accepted[q][d + 1][2])
      /\ accepted[q][d + 1] \in Roles \X Nat
      /\ opens => accepted[q][d + 1][2] = d + 1
  BY <1>1, FrameArrives
<1>3. /\ Types /\ pc' = pc /\ hs' = hs /\ q \in Roles /\ Other(q) = r /\ q # r
      /\ \A t \in Roles : t # q => t = r
  BY <1>1, RolesAre DEF IInv, hsVars
<1> HIDE DEF q, opens, piece
<1>4. /\ IsSeq(wire[q]) /\ wire'[q] = Tail(wire[q])
      /\ \A t \in Roles \ {q} : wire'[t] = wire[t]
      /\ DOMAIN wire' = Roles
  BY <1>1, <1>3 DEF Types
<1>5. /\ Len(wire[q]) \in Nat /\ Len(wire[q]) >= 1 /\ IsSeq(wire'[q]) /\ Len(wire'[q]) = Len(wire[q]) - 1
      /\ \A i \in 1 .. Len(wire[q]) - 1 : wire'[q][i] = wire[q][i + 1]
  <2>1. /\ IsSeq(Tail(wire[q])) /\ Len(wire[q]) >= 1 /\ Len(Tail(wire[q])) = Len(wire[q]) - 1
        /\ \A i \in 1 .. Len(wire[q]) - 1 : Tail(wire[q])[i] = wire[q][i + 1]
    BY ONLY <1>1, <1>4, TailFacts
  <2>2. Len(wire[q]) \in Nat
    BY <1>4, SeqFacts
  <2> QED
    BY ONLY <1>4, <2>1, <2>2, Zenon
<1>6. /\ \A t \in Roles \ {r} : reading'[t] = reading[t]
      /\ reading' \in [Roles -> {"idle", "await", "stopped"}]
      /\ reading'[r] = IF opens THEN "idle" ELSE "stopped"
  BY <1>1, <1>3 DEF Types
<1>7. /\ DOMAIN recvCs' = Roles /\ \A t \in Roles \ {r} : recvCs'[t] = recvCs[t]
      /\ opens => recvCs'[r] = Counted(recvCs[r])
      /\ ~opens => recvCs'[r] = recvCs[r]
  BY <1>1, <1>3 DEF Types
<1>8. /\ delivered' \in [Roles -> Seq(Roles \X Nat)]
      /\ \A t \in Roles \ {q} : delivered'[t] = delivered[t]
      /\ opens => Len(delivered'[q]) = d + 1
      /\ ~opens => delivered'[q] = delivered[q]
  <2>1. CASE ~opens
    BY <1>1, <1>3, <2>1 DEF Types
  <2>2. CASE opens
    <3>1. piece.p \in Roles \X Nat
      <4>1. piece.p = <<q, accepted[q][d + 1][2]>>
        BY <1>2 DEF SealedAt
      <4> QED
        BY <1>2, <1>3, <4>1
    <3>2. delivered[q] \in Seq(Roles \X Nat) /\ delivered \in [Roles -> Seq(Roles \X Nat)]
      BY <1>3 DEF Types
    <3>3. Append(delivered[q], piece.p) \in Seq(Roles \X Nat)
          /\ Len(Append(delivered[q], piece.p)) = d + 1
      BY ONLY <3>1, <3>2, AppendSeq
    <3>4. delivered' = [delivered EXCEPT ![q] = Append(delivered[q], piece.p)]
      BY <1>1, <2>2
    <3> QED
      BY ONLY <1>3, <2>2, <3>2, <3>3, <3>4
  <2> QED
    BY <2>1, <2>2
<1>9. Types'
  <2>1. \A t \in Roles : IsSeq(wire'[t])
    BY ONLY <1>3, <1>4, <1>5 DEF Types
  <2> QED
    BY <1>1, <1>3, <1>4, <1>6, <1>7, <1>8, <2>1 DEF Types
<1>10. Phases' /\ States'
  BY <1>1, <1>3 DEF IInv, Phases, States
<1>11. Greetings'
  <2>1. pc'[Initiator] = "open" /\ pc'[Responder] = "open"
    BY <1>2, <1>3, RolesAre
  <2> QED
    BY <2>1 DEF Greetings
<1>12. Closed'
  <2>1. \A t \in Roles : pc'[t] = "open"
    BY <1>2, <1>3
  <2> QED
    BY <2>1 DEF Closed
<1>13. Counters'
  <2>1. /\ Place(recvCs[r], q, d) /\ recvCs[r].n < RekeyInterval
        /\ Place(sendCs[r], r, calls[r])
    BY <1>1, <1>2, <1>3 DEF IInv, Counters, q
  <2>2. /\ Place(sendCs[q], q, calls[q]) /\ Place(recvCs[q], r, Len(delivered[r]))
        /\ reading[q] = "await" => recvCs[q].n < RekeyInterval
    BY <1>2, <1>3 DEF IInv, Counters
  <2>3. Place(Counted(recvCs[r]), q, d + 1)
    BY <1>2, <1>3, <2>1, CountedPlace
  <2>4. Place(recvCs'[r], q, Len(delivered'[q]))
    BY <1>7, <1>8, <2>1, <2>3
  <2>5. recvCs'[q] = recvCs[q] /\ delivered'[r] = delivered[r] /\ reading'[q] = reading[q]
        /\ sendCs' = sendCs /\ calls' = calls
    BY <1>1, <1>3, <1>6, <1>7, <1>8
  <2>6. reading'[r] # "await"
    BY <1>6
  <2> QED
    <3>1. ASSUME NEW t \in Roles, t = r
          PROVE  /\ Place(sendCs'[t], t, calls'[t])
                 /\ Place(recvCs'[t], Other(t), Len(delivered'[Other(t)]))
                 /\ reading'[t] = "await" => recvCs'[t].n < RekeyInterval
      BY ONLY <2>1, <2>4, <2>5, <2>6, <3>1, Zenon DEF q
    <3>2. ASSUME NEW t \in Roles, t = q
          PROVE  /\ Place(sendCs'[t], t, calls'[t])
                 /\ Place(recvCs'[t], Other(t), Len(delivered'[Other(t)]))
                 /\ reading'[t] = "await" => recvCs'[t].n < RekeyInterval
      BY ONLY <1>3, <2>2, <2>5, <3>2, Zenon
    <3> QED
      BY ONLY <1>3, <3>1, <3>2 DEF Counters
<1>14. Sealed' /\ InLock'
  BY <1>1 DEF IInv, Sealed, InLock
<1>15. Numbered'
  BY <1>1 DEF IInv, Numbered, Tally, Ordered
<1>16. OnWire(r)'
  <2>1. OnWire(r) /\ wire'[r] = wire[r] /\ delivered'[r] = delivered[r] /\ reading'[q] = reading[q]
    BY <1>3, <1>4, <1>6, <1>8 DEF IInv, OnTheWire
  <2>2. accepted' = accepted /\ up' = up
    BY <1>1
  <2> QED
    BY ONLY <1>3, <2>1, <2>2 DEF OnWire, Off, q
<1>17. OnWire(q)'
  <2>1. CASE ~opens
    BY ONLY <1>3, <1>6, <2>1 DEF OnWire
  <2>2. CASE opens
    <3>1. OnWire(q) /\ reading[r] # "stopped" /\ Off(q) = 0 /\ Off(q)' = 0
      BY <1>1, <1>2, <1>3 DEF IInv, OnTheWire, Off
    <3>2. accepted' = accepted /\ up' = up
      BY <1>1
    <3>3. Len(accepted[q]) \in Nat
      BY <1>3 DEF Types
    <3>4. Len(delivered'[q]) = d + 1
      BY <1>8, <2>2
    <3>5. up => d + Len(wire[q]) = Len(accepted[q]) + 0
      BY ONLY <1>2, <1>3, <3>1 DEF OnWire
    <3>6. up => Len(delivered'[q]) + Len(wire'[q]) = Len(accepted[q]) + 0
      <4> DEFINE b == Len(wire[q])
                 c == Len(accepted[q])
      <4>1. b \in Nat /\ c \in Nat /\ d \in Nat /\ (up => d + b = c + 0) /\ Len(wire'[q]) = b - 1
        BY ONLY <1>2, <1>5, <3>3, <3>5, Zenon
      <4> HIDE DEF b, c, d
      <4>2. up => (d + 1) + (b - 1) = c + 0
        BY ONLY <4>1
      <4> QED
        BY ONLY <3>4, <4>1, <4>2, Zenon DEF c
    <3>7. ASSUME NEW i \in 1 .. Len(wire'[q])
          PROVE  /\ (d + 1) + i - 0 <= Len(accepted[q])
                 /\ \E p : wire'[q][i] = <<p>> /\ SealedAt(p, q, accepted[q][(d + 1) + i - 0][2])
      <4>1. i \in Int /\ i + 1 \in 1 .. Len(wire[q]) /\ i + 1 > 0 /\ i \in 1 .. Len(wire[q]) - 1
        BY ONLY <1>5, <3>7
      <4>2. /\ d + (i + 1) - 0 <= Len(accepted[q])
            /\ \E p : wire[q][i + 1] = <<p>> /\ SealedAt(p, q, accepted[q][d + (i + 1) - 0][2])
        BY ONLY <1>2, <1>3, <3>1, <4>1 DEF OnWire
      <4>4. wire'[q][i] = wire[q][i + 1]
        BY <1>5, <4>1
      <4>5. d \in Nat
        BY <1>2
      <4> HIDE DEF d
      <4>3. d + (i + 1) - 0 = (d + 1) + i - 0
        BY ONLY <4>1, <4>5
      <4> QED
        BY ONLY <4>2, <4>3, <4>4, Zenon
    <3> HIDE DEF d
    <3> QED
      BY ONLY <3>1, <3>2, <3>4, <3>6, <3>7 DEF OnWire
  <2> QED
    BY <2>1, <2>2
<1>18. OnTheWire'
  BY <1>3, <1>16, <1>17 DEF OnTheWire
<1> QED
  BY <1>9, <1>10, <1>11, <1>12, <1>13, <1>14, <1>15, <1>18 DEF IInv

LEMMA NextIInv == IInv /\ [Next]_vars => IInv'
<1> SUFFICES ASSUME IInv, [Next]_vars
             PROVE  IInv'
  OBVIOUS
<1>1. CASE UNCHANGED vars
  <2>1. UNCHANGED hsVars /\ UNCHANGED csVars /\ UNCHANGED <<up, wire>>
    BY <1>1 DEF vars
  <2>2. Phases' /\ States' /\ Greetings'
    BY <2>1, HandshakeKept
  <2>3. Types'
    BY <2>1 DEF IInv, Types, hsVars, csVars
  <2>4. Closed' /\ Counters' /\ Sealed' /\ InLock' /\ Numbered'
    <3>1. pc' = pc
      BY <2>1 DEF hsVars
    <3>2. pc' \in [Roles -> {"start", "hello", "deviant", "open", "failed"}]
      BY <3>1 DEF IInv, Types
    <3> QED
      BY <2>1, <3>1, <3>2, TransportKept
  <2>5. OnTheWire'
    BY <2>1 DEF IInv, OnTheWire, OnWire, Off, hsVars, csVars
  <2> QED
    BY <2>2, <2>3, <2>4, <2>5 DEF IInv
<1>2. CASE ClientHello
  BY <1>2, ClientHelloStep
<1>3. CASE ServerHello
  BY <1>3, ServerHelloStep
<1>4. CASE ServerHelloBad
  BY <1>4, ServerHelloBadStep
<1>5. CASE ClientFinish
  BY <1>5, ClientFinishStep
<1>6. CASE ClientRejects
  BY <1>6, ClientRejectsStep
<1>7. CASE ServerFinish
  BY <1>7, ServerFinishStep
<1>8. ASSUME NEW r \in Roles, HandshakeBroken(r)
      PROVE  IInv'
  BY <1>8, HandshakeBrokenStep
<1>9. CASE Close
  BY <1>9, CloseStep
<1>10. ASSUME NEW r \in Roles, Transfer(r)
       PROVE  IInv'
  BY <1>10, SendStep, RecvStep, RecvFrameStep, ReaderStep, FrameSentStep, FrameRefusedStep
     DEF Transfer
<1> QED
  BY <1>1, <1>2, <1>3, <1>4, <1>5, <1>6, <1>7, <1>8, <1>9, <1>10 DEF Next, Handshake

(* The inductive invariant holds of every behaviour of the handshake and   *)
(* the transport.                                                          *)
THEOREM Invariance == Spec => []IInv
<1>1. Init => IInv
  BY InitIInv
<1>2. IInv /\ [Next]_vars => IInv'
  BY NextIInv
<1> QED
  BY <1>1, <1>2, PTL DEF Spec


-----------------------------------------------------------------------------
(* For every number of messages and every rekey interval: no key and nonce *)
(* seal two frames (CipherState.encrypt_with_ad under _maybe_rekey and the *)
(* send lock), and no counter passes the interval.                         *)
THEOREM NonceNeverReusedHolds == Spec => []NonceNeverReused
<1>1. IInv => NonceNeverReused
  <2> SUFFICES ASSUME IInv
               PROVE  NonceNeverReused
    OBVIOUS
  <2>1. ASSUME NEW a \in sealed, NEW b \in sealed, a.k = b.k, a.n = b.n
        PROVE  a.p = b.p
    <3>1. PICK r \in Roles, i \in Nat : SealedAt(a, r, i)
      BY DEF IInv, Sealed
    <3>2. PICK q \in Roles, j \in Nat : SealedAt(b, q, j)
      BY DEF IInv, Sealed
    <3> QED
      BY ONLY <2>1, <3>1, <3>2, OneFrame
  <2>2. ASSUME NEW r \in Roles
        PROVE  sendCs[r].n <= RekeyInterval /\ recvCs[r].n <= RekeyInterval
    <3>1. CASE pc[r] = "open"
      BY <3>1, TransportAssumption DEF IInv, Counters, Place
    <3>2. CASE pc[r] # "open"
      <4>1. sendCs[r] = NoCipher /\ recvCs[r] = NoCipher
        BY <3>2 DEF IInv, Closed
      <4>2. sendCs[r].n = 0 /\ recvCs[r].n = 0
        BY ONLY <4>1 DEF NoCipher
      <4> QED
        BY <4>2, TransportAssumption
    <3> QED
      BY <3>1, <3>2
  <2> QED
    BY <2>1, <2>2 DEF NonceNeverReused
<1> QED
  BY <1>1, Invariance, PTL

(* Whatever is rekeyed, cancelled or interleaved, the frame that recv      *)
(* takes opens, unless send_frame refused an earlier one after its nonce   *)
(* was spent.                                                              *)
THEOREM NextFrameOpensHolds == Spec => []NextFrameOpens
<1>1. IInv => NextFrameOpens
  <2> SUFFICES ASSUME IInv, NEW r \in Roles, reading[r] = "await", wire[Other(r)] # <<>>,
                      Len(delivered[Other(r)]) < limit[Other(r)]
               PROVE  Opens(recvCs[r], <<>>, Head(Head(wire[Other(r)])))
    BY DEF NextFrameOpens
  <2>1. /\ Len(delivered[Other(r)]) \in Nat
        /\ Opens(recvCs[r], <<>>, Head(Head(wire[Other(r)])))
             <=> Len(delivered[Other(r)]) + 1 <= limit[Other(r)]
    BY FrameArrives
  <2>2. limit[Other(r)] \in Nat
    BY RolesAre DEF IInv, Types
  <2>3. Len(delivered[Other(r)]) + 1 <= limit[Other(r)]
    BY <2>1, <2>2
  <2> QED
    BY <2>1, <2>3
<1> QED
  BY <1>1, Invariance, PTL

(* NoiseHandshake.perform opens a transport only for a peer that made its  *)
(* messages from the same transcript, both hashes are then equal, and the  *)
(* hello of a peer that follows the pattern is never rejected.             *)
THEOREM HandshakeAgreesHolds == Spec => []HandshakeAgrees
<1>1. IInv => HandshakeAgrees
  <2> SUFFICES ASSUME IInv
               PROVE  HandshakeAgrees
    OBVIOUS
  <2>1. ASSUME pc[Initiator] = "hello", pc[Responder] = "hello", wire[Responder] # <<>>
        PROVE  HelloRead(Head(wire[Responder])).ok
    BY <2>1, ReplyArrives
  <2>2. ASSUME pc[Initiator] = "open"
        PROVE  pc[Responder] # "deviant" /\ hs[Initiator].rs = Static(Responder)
    BY <2>2 DEF IInv, Phases, States, IsHs
  <2>3. ASSUME pc[Responder] = "open"
        PROVE  /\ hs[Responder].rs = Static(Initiator)
               /\ hs[Initiator].ss.h = hs[Responder].ss.h
    <3>1. pc[Initiator] = "open"
      BY <2>3 DEF IInv, Phases
    <3>2. hs[Initiator].ss.h = h6
      BY <3>1 DEF IInv, States, IsHs, IsSs
    <3>3. hs[Responder].ss.h = h6 /\ hs[Responder].rs = Static(Initiator)
      BY <2>3 DEF IInv, States, IsHs, IsSs
    <3> QED
      BY <3>2, <3>3
  <2> QED
    BY <2>1, <2>2, <2>3 DEF HandshakeAgrees
<1> QED
  BY <1>1, Invariance, PTL


-----------------------------------------------------------------------------
(***************************************************************************)
(* Each direction implements SecureChannel.  A step of one direction:      *)
(***************************************************************************)
Accepts(r) ==
  /\ Len(accepted'[r]) = Len(accepted[r]) + 1
  /\ SubSeq(accepted'[r], 1, Len(accepted[r])) = accepted[r]
  /\ delivered'[r] = delivered[r] /\ (Lost(r)' <=> Lost(r))

Delivers(r) ==
  /\ ~Lost(r) /\ Len(delivered[r]) < Len(accepted[r])
  /\ delivered'[r] = Append(delivered[r], accepted[r][Len(delivered[r]) + 1])
  /\ accepted'[r] = accepted[r]

Waits(r) == accepted'[r] = accepted[r] /\ delivered'[r] = delivered[r] /\ (Lost(r) => Lost(r)')

LEMMA HandshakeWaits ==
  ASSUME IInv, NEW r \in Roles, Handshake \/ Close
  PROVE  Waits(r)
<1> USE RolesAre
<1>1. UNCHANGED <<reading, limit, accepted, delivered>> /\ (up' => up)
  BY DEF Handshake, Close, ClientHello, ServerHello, ServerHelloBad, ClientFinish, ClientRejects,
         ServerFinish, HandshakeBroken, csVars
<1>2. ASSUME ~up, wire[r] = <<>>
      PROVE  ~up' /\ wire'[r] = <<>>
  <2>1. DOMAIN wire = Roles
    BY DEF IInv, Types
  <2>2. ClientRejects \/ ServerFinish \/ \E q \in Roles : HandshakeBroken(q)
    BY <1>2 DEF Handshake, Close, ClientHello, ServerHello, ServerHelloBad, ClientFinish
  <2>3. CASE ClientRejects
    BY <2>3 DEF ClientRejects
  <2>4. CASE ServerFinish
    <3>1. wire[Initiator] # <<>> /\ wire' = [wire EXCEPT ![Initiator] = Tail(@)] /\ up' = up
      BY <2>4 DEF ServerFinish
    <3> QED
      BY <1>2, <2>1, <3>1
  <2>5. CASE \E q \in Roles : HandshakeBroken(q)
    BY <1>2, <2>5 DEF HandshakeBroken
  <2> QED
    BY <2>2, <2>3, <2>4, <2>5
<1> QED
  BY <1>1, <1>2 DEF Waits, Lost

LEMMA PrefixOfAppend ==
  ASSUME NEW T, NEW s \in Seq(T), NEW x \in T
  PROVE  Len(Append(s, x)) = Len(s) + 1 /\ SubSeq(Append(s, x), 1, Len(s)) = s
<1> DEFINE t == SubSeq(Append(s, x), 1, Len(s))
<1>1. Append(s, x) \in Seq(T) /\ Len(Append(s, x)) = Len(s) + 1 /\ Len(s) \in Nat
      /\ \A i \in 1 .. Len(s) : Append(s, x)[i] = s[i]
  BY AppendSeq
<1>2. t \in Seq(T) /\ Len(t) = Len(s) /\ \A i \in 1 .. Len(s) : t[i] = Append(s, x)[i]
  BY <1>1
<1> HIDE DEF t
<1>3. \A i \in 1 .. Len(s) : t[i] = s[i]
  BY <1>1, <1>2
<1>4. t = s
  BY <1>2, <1>3, SeqEqual
<1> QED
  BY <1>1, <1>4 DEF t

LEMMA FrameSentAccepts ==
  ASSUME IInv, NEW r \in Roles, NEW i \in DOMAIN pending[r], FrameSent(r, i)
  PROVE  Accepts(r) /\ Waits(Other(r))
<1> USE RolesAre
<1> DEFINE x == pending[r][i].p
<1>1. /\ up /\ up' /\ wire' = [wire EXCEPT ![r] = Append(@, <<pending[r][i]>>)]
      /\ accepted' = [accepted EXCEPT ![r] = Append(@, x)]
      /\ UNCHANGED <<reading, limit, delivered>>
  BY DEF FrameSent
<1>2. /\ accepted \in [Roles -> Seq(Roles \X Nat)] /\ accepted[r] \in Seq(Roles \X Nat)
      /\ DOMAIN wire = Roles
  BY DEF IInv, Types
<1>3. x \in Roles \X Nat
  <2>1. x = <<r, calls[r]>>
    BY LockHeld
  <2>2. calls[r] \in Nat
    BY TransportAssumption DEF IInv, Types
  <2> QED
    BY <2>1, <2>2
<1> HIDE DEF x
<1>4. accepted'[r] = Append(accepted[r], x) /\ accepted'[Other(r)] = accepted[Other(r)]
  BY <1>1, <1>2
<1>5. Len(accepted'[r]) = Len(accepted[r]) + 1 /\ SubSeq(accepted'[r], 1, Len(accepted[r])) = accepted[r]
  <2>1. /\ Len(Append(accepted[r], x)) = Len(accepted[r]) + 1
        /\ SubSeq(Append(accepted[r], x), 1, Len(accepted[r])) = accepted[r]
    BY ONLY <1>2, <1>3, PrefixOfAppend
  <2> QED
    BY ONLY <1>4, <2>1, Zenon
<1>6. \A q \in Roles : Lost(q)' <=> Lost(q)
  BY <1>1 DEF Lost
<1> QED
  BY <1>1, <1>4, <1>5, <1>6 DEF Accepts, Waits

LEMMA RecvFrameDelivers ==
  ASSUME IInv, NEW r \in Roles, RecvFrame(r)
  PROVE  Waits(r) /\ (Delivers(Other(r)) \/ Waits(Other(r)))
<1> USE RolesAre
<1> DEFINE q == Other(r)
           d == Len(delivered[q])
           piece == Head(Head(wire[q]))
           opens == Opens(recvCs[r], <<>>, piece)
<1>1. /\ reading[r] = "await" /\ wire[q] # <<>>
      /\ wire' = [wire EXCEPT ![q] = Tail(@)]
      /\ opens => /\ delivered' = [delivered EXCEPT ![q] = Append(@, piece.p)]
                  /\ reading' = [reading EXCEPT ![r] = "idle"]
      /\ ~opens => /\ reading' = [reading EXCEPT ![r] = "stopped"]
                   /\ UNCHANGED delivered
      /\ UNCHANGED <<up, limit, accepted>>
  BY DEF RecvFrame
<1>2. /\ d \in Nat /\ d + 1 <= Len(accepted[q])
      /\ SealedAt(piece, q, accepted[q][d + 1][2])
      /\ accepted[q][d + 1] \in Roles \X Nat /\ accepted[q][d + 1][1] = q
      /\ opens <=> d + 1 <= limit[q]
  BY <1>1, FrameArrives
<1>3. /\ q \in Roles /\ q # r /\ Other(q) = r /\ Types /\ limit[q] \in Nat /\ Len(accepted[q]) \in Nat
  <2>1. q \in Roles /\ q # r /\ Other(q) = r
    OBVIOUS
  <2>2. Types
    BY DEF IInv
  <2>3. limit \in [Roles -> Nat] /\ accepted \in [Roles -> Seq(Roles \X Nat)]
    BY ONLY <2>2 DEF Types
  <2> HIDE DEF q
  <2>4. limit[q] \in Nat
    BY ONLY <2>1, <2>3
  <2>5. Len(accepted[q]) \in Nat
    BY ONLY <2>1, <2>3
  <2> QED
    BY ONLY <2>1, <2>2, <2>4, <2>5
<1> HIDE DEF q, opens, piece
<1>4. /\ delivered'[r] = delivered[r] /\ wire'[r] = wire[r] /\ reading'[q] = reading[q]
  BY <1>1, <1>3 DEF Types
<1>5. Waits(r)
  BY ONLY <1>1, <1>4 DEF Waits, Lost, q
<1>6. CASE opens
  <2>1. piece.p = accepted[q][d + 1]
    <3>1. piece.p = <<q, accepted[q][d + 1][2]>>
      BY <1>2 DEF SealedAt
    <3> QED
      BY ONLY <1>2, <3>1
  <2>2. delivered'[q] = Append(delivered[q], accepted[q][d + 1])
    <3>1. delivered'[q] = Append(delivered[q], piece.p)
      BY <1>1, <1>3, <1>6 DEF Types
    <3> QED
      BY ONLY <2>1, <3>1, Zenon
  <2>3. d < Len(accepted[q]) /\ ~(d >= limit[q])
    <3>1. d \in Nat /\ d + 1 <= Len(accepted[q]) /\ d + 1 <= limit[q]
      BY <1>2, <1>6
    <3> HIDE DEF d
    <3> QED
      BY ONLY <1>3, <3>1
  <2>4. ~Lost(q)
    BY ONLY <1>1, <1>3, <2>3 DEF Lost
  <2> QED
    BY <1>1, <1>5, <2>2, <2>3, <2>4 DEF Delivers, q
<1>7. CASE ~opens
  <2>1. reading'[r] = "stopped" /\ accepted'[q] = accepted[q] /\ delivered'[q] = delivered[q]
    BY <1>1, <1>3, <1>7 DEF Types
  <2>2. Lost(q)'
    BY ONLY <1>3, <2>1 DEF Lost
  <2> QED
    BY <1>5, <2>1, <2>2 DEF Waits, q
<1> QED
  BY <1>6, <1>7

LEMMA TransferWaits ==
  ASSUME IInv, NEW r \in Roles, NEW t \in Roles,
         Send(t) \/ Recv(t) \/ RecvCancelled(t) \/ RecvClosed(t)
  PROVE  Waits(r)
<1> USE RolesAre
<1>1. UNCHANGED <<up, wire, limit, accepted, delivered>>
  BY DEF Send, Recv, RecvCancelled, RecvClosed
<1>2. \A q \in Roles : reading[q] = "stopped" => reading'[q] = "stopped"
  BY DEF Send, Recv, RecvCancelled, RecvClosed, IInv, Types
<1> QED
  BY <1>1, <1>2 DEF Waits, Lost

LEMMA RefusedWaits ==
  ASSUME IInv, NEW r \in Roles, NEW t \in Roles, NEW i \in DOMAIN pending[t], FrameRefused(t, i)
  PROVE  Waits(r)
<1>1. /\ limit' = [limit EXCEPT ![t] = Min({@, Len(accepted[t])})]
      /\ UNCHANGED <<up, wire, reading, accepted, delivered>>
  BY DEF FrameRefused
<1>2. limit \in [Roles -> Nat] /\ Len(accepted[t]) \in Nat /\ Len(delivered[r]) \in Nat
  BY DEF IInv, Types
<1>3. limit' = [limit EXCEPT ![t] = IF limit[t] <= Len(accepted[t]) THEN limit[t] ELSE Len(accepted[t])]
  BY <1>1, <1>2, SmallerOf
<1>4. limit'[r] <= limit[r] /\ limit'[r] \in Nat /\ limit[r] \in Nat
  BY <1>2, <1>3
<1>5. Len(delivered[r]) >= limit[r] => Len(delivered[r]) >= limit'[r]
  BY <1>2, <1>4
<1> QED
  BY <1>1, <1>5 DEF Waits, Lost

LEMMA ChannelStep ==
  ASSUME IInv, [Next]_vars, NEW r \in Roles
  PROVE  Accepts(r) \/ Delivers(r) \/ Waits(r)
<1>1. CASE UNCHANGED vars
  BY <1>1 DEF vars, csVars, Waits, Lost
<1>2. CASE Handshake \/ Close
  BY <1>2, HandshakeWaits
<1>3. ASSUME NEW t \in Roles, Transfer(t)
      PROVE  Accepts(r) \/ Delivers(r) \/ Waits(r)
  <2>1. r = t \/ r = Other(t)
    BY RolesAre
  <2>2. CASE Send(t) \/ Recv(t) \/ RecvCancelled(t) \/ RecvClosed(t)
    BY <2>2, TransferWaits
  <2>3. CASE RecvFrame(t)
    BY <2>1, <2>3, RecvFrameDelivers
  <2>4. ASSUME NEW i \in DOMAIN pending[t], FrameSent(t, i)
        PROVE  Accepts(r) \/ Waits(r)
    BY <2>1, <2>4, FrameSentAccepts
  <2>5. ASSUME NEW i \in DOMAIN pending[t], FrameRefused(t, i)
        PROVE  Waits(r)
    BY <2>5, RefusedWaits
  <2> QED
    BY <1>3, <2>2, <2>3, <2>4, <2>5 DEF Transfer
<1> QED
  BY <1>1, <1>2, <1>3 DEF Next

(* Each direction of NoiseTransport.send and recv implements the safety    *)
(* part of SecureChannel: what send has written is delivered once, in      *)
(* order and without a gap, until the channel is lost.                     *)
THEOREM ImplementsChannelSafety ==
  Spec => /\ Outbound!Init /\ [][Outbound!Next]_(Outbound!vars)
          /\ Inbound!Init /\ [][Inbound!Next]_(Inbound!vars)
<1>1. Init => Outbound!Init /\ Inbound!Init
  <2> SUFFICES ASSUME Init
               PROVE  \A r \in Roles : accepted[r] = <<>> /\ delivered[r] = <<>> /\ Lost(r) = FALSE
    BY RolesAre DEF Outbound!Init, Inbound!Init
  <2> TAKE r \in Roles
  <2>1. accepted[r] = <<>> /\ delivered[r] = <<>> /\ limit[r] = MaxMsgs + 1 /\ up = TRUE
        /\ reading[Other(r)] = "idle"
    BY RolesAre DEF Init, Unlimited
  <2>2. ~(Len(delivered[r]) >= limit[r])
    BY <2>1, EmptyFacts, TransportAssumption
  <2> QED
    BY <2>1, <2>2 DEF Lost
<1>2. IInv /\ [Next]_vars => [Outbound!Next]_(Outbound!vars)
  <2> SUFFICES ASSUME IInv, [Next]_vars
               PROVE  [Outbound!Next]_(Outbound!vars)
    OBVIOUS
  <2>1. Accepts(Initiator) \/ Delivers(Initiator) \/ Waits(Initiator)
    BY ChannelStep, RolesAre
  <2> QED
    BY <2>1 DEF Accepts, Delivers, Waits, Outbound!Next, Outbound!Accept, Outbound!Deliver,
                Outbound!Lose, Outbound!vars, Lost
<1>3. IInv /\ [Next]_vars => [Inbound!Next]_(Inbound!vars)
  <2> SUFFICES ASSUME IInv, [Next]_vars
               PROVE  [Inbound!Next]_(Inbound!vars)
    OBVIOUS
  <2>1. Accepts(Responder) \/ Delivers(Responder) \/ Waits(Responder)
    BY ChannelStep, RolesAre
  <2> QED
    BY <2>1 DEF Accepts, Delivers, Waits, Inbound!Next, Inbound!Accept, Inbound!Deliver,
                Inbound!Lose, Inbound!vars, Lost
<1> QED
  BY <1>1, <1>2, <1>3, Invariance, PTL DEF Spec

=============================================================================
