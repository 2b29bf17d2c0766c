---------------------------- MODULE NoiseHandshake ----------------------------
(***************************************************************************)
(* socket/noise.py: CipherState, SymmetricState and HandshakeState for the *)
(* XX pattern, as operators.                                               *)
(*                                                                         *)
(* Cryptography is symbolic.  A key is named by its private half; a DH     *)
(* output is the pair of keys that went in; a symmetric key is the         *)
(* sequence of inputs of the HKDF chain that made it; a hash is the        *)
(* sequence of what was mixed in.  A piece of a message is a record        *)
(* [k, n, ad, p]: plaintext p sealed under key k with nonce n and          *)
(* associated data ad, or p in the clear when k is NoKey.  It opens only   *)
(* under the same k, n and ad.                                             *)
(***************************************************************************)
EXTENDS Integers, Sequences, SequencesExt

NoKey == <<>>
Initiator == "initiator"
Responder == "responder"
Roles == {Initiator, Responder}
Other(r) == IF r = Initiator THEN Responder ELSE Initiator

\* The key pairs of a role, and a plaintext that stands for a key or a payload.
Static(r) == <<r, "static">>
Ephemeral(r) == <<r, "ephemeral">>
NoPub == <<"", "">>
Empty == <<"", "payload">>
Clear(p) == [k |-> NoKey, n |-> 0, ad |-> <<>>, p |-> p]

(***************************************************************************)
(* The primitives of socket/crypto.py.                                     *)
(***************************************************************************)
DhOutput(priv, pub) == {priv, pub}
Hkdf(ck, input) == Append(ck, input)
AeadEncrypt(k, n, ad, p) == [k |-> k, n |-> n, ad |-> ad, p |-> p]
AeadDecrypts(k, n, ad, piece) == piece.k = k /\ piece.n = n /\ piece.ad = ad

(***************************************************************************)
(* CipherState: encrypt_with_ad, decrypt_with_ad and rekey.  cs is any     *)
(* record with a key k and a counter n; opening failed if it is not Opens. *)
(***************************************************************************)
Seal(cs, ad, p) ==
    IF cs.k = NoKey THEN Clear(p) ELSE AeadEncrypt(cs.k, cs.n, ad, p)

Opens(cs, ad, piece) ==
    cs.k = NoKey \/ AeadDecrypts(cs.k, cs.n, ad, piece)

Counted(cs) == IF cs.k = NoKey THEN cs ELSE [cs EXCEPT !.n = @ + 1]

\* Mutant: the interval starts again under the old key.
Rekey_forgotten(cs) == [cs EXCEPT !.n = 0]

\* rekey, then set_nonce(0), as NoiseTransport does.
Rekey(cs) == [k |-> Append(cs.k, {"rekey"}), n |-> 0]

(***************************************************************************)
(* SymmetricState: [ck, h, k, n].                                          *)
(***************************************************************************)
InitializeSymmetric == [ck |-> <<>>, h |-> <<>>, k |-> NoKey, n |-> 0]

MixKey(ss, ikm) ==
    [ss EXCEPT !.ck = Hkdf(@, ikm), !.k = Hkdf(ss.ck, ikm), !.n = 0]

MixHash(ss, piece) == [ss EXCEPT !.h = Append(@, piece)]

EncryptAndHash(ss, p) == MixHash(Counted(ss), Seal(ss, ss.h, p))

DecryptAndHash(ss, piece) == MixHash(Counted(ss), piece)

\* split: c1 for initiator to responder, c2 for the other direction.
Split(ss, r) == [k |-> Hkdf(ss.ck, IF r = Initiator THEN {"c1"} ELSE {"c2"}), n |-> 0]

(***************************************************************************)
(* HandshakeState.  `left' are the message patterns still to come.         *)
(***************************************************************************)
XXMessages == << <<"e">>, <<"e", "ee", "s", "es">>, <<"s", "se">> >>

HandshakeState(r, prologue) ==
    [role |-> r, ss |-> MixHash(InitializeSymmetric, Clear(<<"", prologue>>)),
     re |-> NoPub, rs |-> NoPub, left |-> XXMessages]

\* _dh_ee, _dh_es, _dh_se: the role decides which of its keys is the s and which the e.
Dh(hs, token) ==
    IF token = "ee" THEN DhOutput(Ephemeral(hs.role), hs.re)
    ELSE IF (token = "es") = (hs.role = Initiator) THEN DhOutput(Ephemeral(hs.role), hs.rs)
         ELSE DhOutput(Static(hs.role), hs.re)

\* The tokens of write_message; st.out collects the pieces of the message.
WriteE(st) ==
    [st EXCEPT !.hs.ss = MixHash(@, Clear(Ephemeral(st.hs.role))),
               !.out = Append(@, Clear(Ephemeral(st.hs.role)))]

WriteS(st) ==
    [st EXCEPT !.hs.ss = EncryptAndHash(@, Static(st.hs.role)),
               !.out = Append(@, Seal(st.hs.ss, st.hs.ss.h, Static(st.hs.role)))]

MixDh(st, token) == [st EXCEPT !.hs.ss = MixKey(@, Dh(st.hs, token))]

WriteToken(st, token) ==
    IF token = "e" THEN WriteE(st) ELSE IF token = "s" THEN WriteS(st) ELSE MixDh(st, token)

\* The tokens of one message in turn; no message of XX has more than four.
WriteTokens(st, tokens) ==
    LET next(s, i) == IF i <= Len(tokens) THEN WriteToken(s, tokens[i]) ELSE s
    IN  next(next(next(next(st, 1), 2), 3), 4)

\* write_message: an empty payload without a key is left out and not hashed.
WriteMessage(hs, payload) ==
    LET st == WriteTokens([hs |-> [hs EXCEPT !.left = Tail(@)], out |-> <<>>], Head(hs.left))
        ss == st.hs.ss
    IN  IF payload = Empty /\ ss.k = NoKey
        THEN st
        ELSE [hs |-> [st.hs EXCEPT !.ss = EncryptAndHash(ss, payload)],
              out |-> Append(st.out, Seal(ss, ss.h, payload))]

\* The tokens of read_message; st.in is what is left of the message, st.ok is FALSE after an error.
ReadE(st) ==
    LET piece == Head(st.in)
    IN  [st EXCEPT !.hs.re = piece.p, !.hs.ss = MixHash(@, piece), !.in = Tail(@)]

ReadS(st) ==
    LET piece == Head(st.in)
    IN  [st EXCEPT !.hs.rs = piece.p, !.hs.ss = DecryptAndHash(@, piece), !.in = Tail(@),
                   !.ok = Opens(st.hs.ss, st.hs.ss.h, piece)]

TooShort(st) == [st EXCEPT !.ok = FALSE]

ReadToken(st, token) ==
    IF ~ st.ok THEN st
    ELSE IF token \notin {"e", "s"} THEN MixDh(st, token)
    ELSE IF st.in = <<>> THEN TooShort(st)
    ELSE IF token = "e" THEN ReadE(st) ELSE ReadS(st)

ReadTokens(st, tokens) ==
    LET next(s, i) == IF i <= Len(tokens) THEN ReadToken(s, tokens[i]) ELSE s
    IN  next(next(next(next(st, 1), 2), 3), 4)

\* read_message; hs is of use only when ok.
ReadMessage(hs, msg) ==
    LET st == ReadTokens([hs |-> [hs EXCEPT !.left = Tail(@)], in |-> msg, ok |-> TRUE],
                         Head(hs.left))
        ss == st.hs.ss
    IN  IF ~ st.ok \/ (st.in = <<>> /\ ss.k = NoKey) THEN [hs |-> st.hs, ok |-> st.ok]
        ELSE IF st.in = <<>> THEN [hs |-> st.hs, ok |-> FALSE]
        ELSE [hs |-> [st.hs EXCEPT !.ss = DecryptAndHash(ss, Head(st.in))],
              ok |-> Opens(ss, ss.h, Head(st.in))]
=============================================================================
