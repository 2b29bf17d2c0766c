----------------------------- MODULE DoubleRatchet -----------------------------
(***************************************************************************)
(* One Signal session between its initiator A and its responder B, both    *)
(* running ratchet.py, over a network that loses, reorders and repeats     *)
(* ciphertexts.  As in messaging/sender.py and receiver.py, a state is     *)
(* loaded, used and saved without an await in between, a failed decryption *)
(* saves nothing, and encryption saves before the stanza is sent.          *)
(***************************************************************************)
EXTENDS Ratchet, FiniteSets

CONSTANT MaxMsgs \* bound: messages each side encrypts

ASSUME MsgsAssumption == MaxMsgs \in Nat

VARIABLES
    st,    \* per party: its saved RatchetState
    net,   \* every ciphertext ever sent; delivery does not remove it
    got,   \* history: how often each ciphertext was decrypted
    spare  \* the next unused DH key pair

pairVars == <<st, net, got, spare>>

SharedSecret == <<"sk">>
SpkB == 1

PairInit ==
    /\ st = [p \in Parties |-> IF p = "A" THEN RatchetInitAlice(SharedSecret, SpkB, 2)
                                          ELSE RatchetInitBob(SharedSecret, SpkB)]
    /\ net = {}
    /\ got = [p \in Parties |-> [i \in 1 .. MaxMsgs |-> 0]]
    /\ spare = 3

SentBy(p) == {m \in net : m.from = p}

(***************************************************************************)
(* A party encrypts its next message and sends it.                         *)
(***************************************************************************)
Encrypt(p) ==
    LET id == Cardinality(SentBy(p)) + 1
    IN  /\ id <= MaxMsgs
        /\ CanEncrypt(st[p])
        /\ net' = net \cup {[from |-> p, id |-> id, header |-> EncryptHeader(st[p]),
                             mk |-> EncryptKey(st[p])]}
        /\ st' = [st EXCEPT ![p] = EncryptState(@)]
        /\ UNCHANGED <<got, spare>>

(***************************************************************************)
(* A ciphertext reaches the peer, for the first time or again.  The fresh  *)
(* key pair is spent only if the message turns the DH ratchet.             *)
(***************************************************************************)
Deliver(m) ==
    LET p == Peer(m.from)
        r == RatchetDecrypt(st[p], m.header, m.mk, spare)
    IN  /\ r.ok
        /\ st' = [st EXCEPT ![p] = r.state]
        /\ got' = [got EXCEPT ![p][m.id] = @ + 1]
        /\ spare' = IF r.state.dhs = spare THEN spare + 1 ELSE spare
        /\ UNCHANGED net

PairNext ==
    \/ \E p \in Parties : Encrypt(p)
    \/ \E m \in net : Deliver(m)

PairSpec == PairInit /\ [][PairNext]_pairVars

-----------------------------------------------------------------------------
(* The counters of a state stay within the messages that were encrypted,   *)
(* and the dict of skipped keys within _MAX_SKIPPED_TOTAL.                 *)
TypeOK ==
    /\ \A p \in Parties :
        /\ st[p].ns \in 0 .. MaxMsgs
        /\ st[p].pn \in 0 .. MaxMsgs
        /\ st[p].nr \in 0 .. Cardinality(SentBy(Peer(p)))
        /\ Len(st[p].mkskipped) <= MaxSkippedTotal
    /\ got \in [Parties -> [1 .. MaxMsgs -> Nat]]
    /\ spare \in 3 .. 3 + 2 * MaxMsgs

\* p's receiving side is past m: its key was derived, used or skipped.
Passed(p, m) ==
    \/ m.header.dh = st[p].dhr /\ m.header.n < st[p].nr
    \/ m.header.dh < st[p].dhr /\ st[p].ckr # NoChain

ToParty(p) == SentBy(Peer(p))
Undelivered(p) == {m \in ToParty(p) : got[p][m.id] = 0}
SkippedKeys(p) == {st[p].mkskipped[i].mk : i \in DOMAIN st[p].mkskipped}

(* Replay protection: whatever is repeated, in whatever order, no          *)
(* ciphertext of a session is decrypted twice.                             *)
NoReplay ==
    \A p \in Parties : \A i \in 1 .. MaxMsgs : got[p][i] <= 1

(* Any order will do: a message the receiver is not past decrypts at once, *)
(* also when it is the first of a new sending chain and earlier chains     *)
(* have gaps, unless the gap exceeds max_skip.                             *)
AnyOrder ==
    \A p \in Parties : \A m \in Undelivered(p) :
        ~ Passed(p, m) =>
            LET new == st[p].dhr = NoDh \/ m.header.dh # st[p].dhr
            IN  \/ RatchetDecrypt(st[p], m.header, m.mk, spare).ok
                \/ new /\ TooFar(st[p], m.header.pn)
                \/ m.header.n > (IF new THEN 0 ELSE st[p].nr) + MaxSkip

(* A late message finds its key: one the receiver has passed over can      *)
(* still be decrypted until MaxSkippedTotal younger messages have been     *)
(* passed as well.                                                         *)
LateKeysKept ==
    \A p \in Parties : \A m \in Undelivered(p) :
        Passed(p, m) =>
            \/ m.mk \in SkippedKeys(p)
            \/ Cardinality({y \in ToParty(p) : y.id > m.id /\ Passed(p, y)}) >= MaxSkippedTotal

(* No message key encrypts two messages.                                   *)
KeysUsedOnce == \A x, y \in net : x.mk = y.mk => x = y
=============================================================================
