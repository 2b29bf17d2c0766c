-------------------------------- MODULE Ratchet --------------------------------
(***************************************************************************)
(* The Double Ratchet of signal/experimental/ratchet.py as operators on a  *)
(* state record.  Keys are symbolic: a DH key pair is a number, a DH       *)
(* output the pair of the two numbers, a root key the sequence of the DH   *)
(* outputs mixed into it, a chain key the root key it was split from and   *)
(* how often _kdf_ck was applied; a message key is the chain key it was    *)
(* taken from.  Two derivations are equal exactly when their inputs are.   *)
(***************************************************************************)
EXTENDS Integers, Sequences

CONSTANTS MaxSkip,        \* DEFAULT_MAX_SKIP: keys skipped by one message
          MaxSkippedTotal \* _MAX_SKIPPED_TOTAL: skipped keys kept in one state

ASSUME RatchetAssumption ==
    /\ MaxSkip \in Nat
    /\ MaxSkippedTotal \in Nat

Parties == {"A", "B"}
Peer(p) == IF p = "A" THEN "B" ELSE "A"

NoDh == 0
NoChain == [root |-> <<>>, n |-> -1]

Dh(a, b) == {a, b}
KdfRk(rk, out) == Append(rk, out)
ChainOf(rk) == [root |-> rk, n |-> 0]
KdfCk(ck) == [ck EXCEPT !.n = @ + 1]

RatchetInitAlice(sk, peerSpk, dh) ==
    LET rk == KdfRk(sk, Dh(dh, peerSpk))
    IN  [dhs |-> dh, dhr |-> peerSpk, rk |-> rk, cks |-> ChainOf(rk), ckr |-> NoChain,
         ns |-> 0, nr |-> 0, pn |-> 0, mkskipped |-> <<>>]

RatchetInitBob(sk, spk) ==
    [dhs |-> spk, dhr |-> NoDh, rk |-> sk, cks |-> NoChain, ckr |-> NoChain,
     ns |-> 0, nr |-> 0, pn |-> 0, mkskipped |-> <<>>]

(***************************************************************************)
(* ratchet_encrypt: the header and message key, and the state after it.    *)
(***************************************************************************)
CanEncrypt(s) == s.cks # NoChain

EncryptHeader(s) == [dh |-> s.dhs, pn |-> s.pn, n |-> s.ns]
EncryptKey(s) == s.cks

\* Mutant: the counter advances and the chain key does not.
EncryptState_no_kdf(s) == [s EXCEPT !.ns = @ + 1]

EncryptState(s) == [s EXCEPT !.cks = KdfCk(@), !.ns = @ + 1]

(***************************************************************************)
(* _skip_message_keys: the keys up to `until' go into the dict, which then *)
(* loses its oldest entries down to the limit.                             *)
(***************************************************************************)
TooFar(s, until) == s.ckr # NoChain /\ s.nr + MaxSkip < until

\* Mutant: the dict is never pruned.
Newest_unbounded(keys, limit) == keys

\* Mutant: skipping empties the dict.
Newest_emptied(keys, limit) == <<>>

\* Mutant: the youngest keys are pruned instead of the oldest.
Newest_oldest(keys, limit) ==
    IF Len(keys) <= limit THEN keys ELSE SubSeq(keys, 1, limit)

Newest(keys, limit) ==
    IF Len(keys) <= limit THEN keys
    ELSE SubSeq(keys, Len(keys) - limit + 1, Len(keys))

SkipMessageKeys(s, until) ==
    IF s.ckr = NoChain \/ until <= s.nr THEN s
    ELSE LET count == until - s.nr
             skipped == [i \in 1 .. count |->
                            [dh |-> s.dhr, n |-> s.nr + i - 1,
                             mk |-> [s.ckr EXCEPT !.n = @ + i - 1]]]
         IN  [s EXCEPT !.mkskipped = Newest(@ \o skipped, MaxSkippedTotal),
                       !.ckr.n = @ + count,
                       !.nr = until]

(***************************************************************************)
(* _dh_ratchet with the fresh key pair dh.                                 *)
(***************************************************************************)
Turn(s, header, dh, nr) ==
    LET rk1 == KdfRk(s.rk, Dh(s.dhs, header.dh))
        rk2 == KdfRk(rk1, Dh(dh, header.dh))
    IN  [s EXCEPT !.pn = s.ns, !.ns = 0, !.nr = nr, !.dhr = header.dh,
                  !.ckr = ChainOf(rk1), !.dhs = dh, !.rk = rk2, !.cks = ChainOf(rk2)]

\* Mutant: the receive counter is not reset.
DhRatchet_keep_nr(s, header, dh) == Turn(s, header, dh, s.nr)

DhRatchet(s, header, dh) == Turn(s, header, dh, 0)

(***************************************************************************)
(* ratchet_decrypt of a message with this header that was encrypted under  *)
(* mk.  It raises when a skip is too far or when the MAC of the key it     *)
(* derives does not verify; the caller then saves nothing, so ok = FALSE   *)
(* carries the old state.                                                  *)
(***************************************************************************)
SkippedAt(s, header) ==
    {i \in 1 .. Len(s.mkskipped) : /\ s.mkskipped[i].dh = header.dh
                                   /\ s.mkskipped[i].n = header.n}

DropAt(keys, i) == SubSeq(keys, 1, i - 1) \o SubSeq(keys, i + 1, Len(keys))

\* Mutant: a skipped key stays in the dict after it was used.
KeepAt(keys, i) == keys

PopSkipped(keys, i) == DropAt(keys, i)

RatchetDecrypt(s, header, mk, dh) ==
    LET fail == [ok |-> FALSE, state |-> s]
        newChain == s.dhr = NoDh \/ header.dh # s.dhr
        turned == IF newChain THEN DhRatchet(SkipMessageKeys(s, header.pn), header, dh) ELSE s
        skipped == SkipMessageKeys(turned, header.n)
    IN  IF SkippedAt(s, header) # {}
        THEN LET i == CHOOSE j \in SkippedAt(s, header) : TRUE
             IN  IF s.mkskipped[i].mk = mk
                 THEN [ok |-> TRUE,
                       state |-> [s EXCEPT !.mkskipped = PopSkipped(@, i)]]
                 ELSE fail
        ELSE IF \/ newChain /\ TooFar(s, header.pn)
                \/ TooFar(turned, header.n)
                \/ skipped.ckr # mk
             THEN fail
             ELSE [ok |-> TRUE,
                   state |-> [skipped EXCEPT !.ckr = KdfCk(@), !.nr = @ + 1]]
=============================================================================
