----------------------------- MODULE SignalSession -----------------------------
(***************************************************************************)
(* The Signal sessions between two accounts that both run this client:     *)
(* messaging/sender.py (send_message, _send_once, _encrypt_for_peer,       *)
(* handle_retry_receipt, note_incoming_decrypted), messaging/receiver.py   *)
(* (_handle_message, _decrypt_enc, _handle_receipt, _send_retry_receipt),  *)
(* the session, identity and pre-key tables, and ratchet.py (Ratchet).     *)
(*                                                                         *)
(* Each account has one receive loop, which handles one stanza at a time,  *)
(* and one task per message it sends.  A step is what runs between two     *)
(* awaits.  The wire keeps every stanza: it may arrive late, again, out of *)
(* order or never.  A crash loses what the process holds in memory.        *)
(*                                                                         *)
(* Data abstraction: one device per account, its address given with the    *)
(* device part (so no usync query precedes the send); an X3DH secret is    *)
(* the triple of initiator, ephemeral key and OPK it was made from.        *)
(***************************************************************************)
EXTENDS Ratchet, FiniteSets

CONSTANTS Msgs,      \* bound: per account, the number of messages it sends
          Opks,      \* per account, the OPKs it has published
          MaxFaults  \* bound: crashes, ack timeouts, retry acks, repeated deliveries
                     \* and failed decryptions

ASSUME SessionAssumption ==
    /\ Msgs \in [Parties -> Nat]
    /\ Opks \in [Parties -> SUBSET (Nat \ {0})]
    /\ MaxFaults \in Nat

VARIABLES
    session,  \* sessions table: the RatchetState for the peer, or NoSession
    ident,    \* identities table: is the peer's identity key stored
    opks,     \* prekeys table: unused OPKs whose private half is stored
    pool,     \* OPKs the server still hands out
    meta,     \* Sender._peer_meta: NoMeta, Confirmed, or the pending preamble
    pc,       \* per message: where its send_message coroutine stands
    bundle,   \* per message: the OPK of the bundle its fetch returned
    again,    \* per message: _send_once runs with allow_retry = False
    retried,  \* per message: _SentMessage.retry_count
    rx,       \* the receive loop: "run", or what its retry handler awaits
    wire,     \* ciphertexts sent
    receipts, \* retry receipts sent
    fresh,    \* per account: the next unused DH key pair
    faults,   \* faults so far
    heard,    \* history: has the peer confirmed the current session
    revived,  \* history: was the current session reloaded after a crash
    opened,   \* history: message keys that decrypted a ciphertext
    reopened  \* history: message keys that decrypted one twice

stores == <<session, ident, opks, pool, meta>>
tasks == <<pc, bundle, again, retried, rx>>
ghosts == <<heard, revived, opened, reopened>>
vars == <<stores, tasks, wire, receipts, fresh, faults, ghosts>>

NoSession == [dhs |-> -1]
NoOpk == 0
NoPre == [base |-> 0, opk |-> NoOpk]
NoMeta == [base |-> -1, opk |-> NoOpk]
Confirmed == NoPre

Ids(x) == 1 .. Msgs[x]

\* send_message is called for the messages in the order of their names.
Called(x, i) == \/ pc[x][i] = "again"
                \/ pc[x][i] = "idle" /\ \A j \in 1 .. i - 1 : pc[x][j] # "idle"

\* DH key pairs: the signed pre-keys are 1 and 2, the others odd for A and even for B.
Spk(x) == IF x = "A" THEN 1 ELSE 2
Secret(init, pre) == <<[init |-> init, base |-> pre.base, opk |-> pre.opk]>>
SecretOf(chain) == chain.root[1]

Init ==
    /\ session = [x \in Parties |-> NoSession]
    /\ ident = [x \in Parties |-> FALSE]
    /\ opks = Opks
    /\ pool = Opks
    /\ meta = [x \in Parties |-> NoMeta]
    /\ pc = [x \in Parties |-> [i \in Ids(x) |-> "idle"]]
    /\ bundle = [x \in Parties |-> [i \in Ids(x) |-> NoOpk]]
    /\ again = [x \in Parties |-> [i \in Ids(x) |-> FALSE]]
    /\ retried = [x \in Parties |-> [i \in Ids(x) |-> 0]]
    /\ rx = [x \in Parties |-> "run"]
    /\ wire = {}
    /\ receipts = {}
    /\ fresh = [x \in Parties |-> Spk(x) + 2]
    /\ faults = 0
    /\ heard = [x \in Parties |-> FALSE]
    /\ revived = [x \in Parties |-> FALSE]
    /\ opened = {}
    /\ reopened = {}

-----------------------------------------------------------------------------
(***************************************************************************)
(* Pieces of the handlers.                                                 *)
(***************************************************************************)
\* One of the things that may go wrong goes wrong.
Fault == faults < MaxFaults /\ faults' = faults + 1

\* A server bundle carries an OPK as long as the peer's pool has one.
BundleOpks(x) == IF pool[x] = {} THEN {NoOpk} ELSE pool[x]

\* _encrypt_for_peer uses the stored session if it knows the peer's identity.
HasSession(x) == session[x] # NoSession /\ (meta[x] # NoMeta \/ ident[x])

\* _drop_peer_session.
Dropped(f, x, none) == [f EXCEPT ![x] = none]

\* _establish_session_from_bundle: the pending preamble and the new state.
NewPre(x, o) == [base |-> fresh[x], opk |-> o]
NewState(x, o) ==
    RatchetInitAlice(Secret(x, NewPre(x, o)), Spk(Peer(x)), fresh[x] + 2)

\* The stanza _encrypt_for_peer builds from a state and the preamble in meta.
Stanza(x, i, state, pre, confirmed) ==
    [from |-> x, id |-> i, kind |-> IF pre = NoPre THEN "msg" ELSE "pkmsg", pre |-> pre,
     header |-> EncryptHeader(state), mk |-> EncryptKey(state),
     heard |-> confirmed, revived |-> revived[x]]

\* Mutant: the preamble is dropped when the stanza goes out.
Outgoing_no_preamble(x, i, state, pre, confirmed) ==
    Stanza(x, i, state, IF pre.opk = NoOpk THEN pre ELSE NoPre, confirmed)

Outgoing(x, i, state, pre, confirmed) == Stanza(x, i, state, pre, confirmed)

\* Mutant: the ratchet state is saved as it was loaded.
Advanced_unsaved(state) == state

Advanced(state) == EncryptState(state)

(***************************************************************************)
(* send_message begins, and _encrypt_for_peer finds a session: encrypt,    *)
(* save the session, send.  After a restart there is no meta and the       *)
(* preamble counts as delivered.                                           *)
(***************************************************************************)
SendNow(x, i) ==
    LET pre == IF meta[x] = NoMeta THEN Confirmed ELSE meta[x]
    IN  /\ Called(x, i)
        /\ HasSession(x)
        /\ CanEncrypt(session[x])
        /\ meta' = [meta EXCEPT ![x] = pre]
        /\ wire' = wire \cup {Outgoing(x, i, session[x], pre, heard[x])}
        /\ session' = [session EXCEPT ![x] = Advanced(@)]
        /\ pc' = [pc EXCEPT ![x][i] = "sent"]
        /\ UNCHANGED <<ident, opks, pool, bundle, again, retried, rx, receipts, fresh,
                       faults, ghosts>>

(***************************************************************************)
(* ... or it finds none and awaits the pre-key query.                      *)
(***************************************************************************)
SendFetch(x, i) ==
    /\ Called(x, i)
    /\ ~ HasSession(x)
    /\ pc' = [pc EXCEPT ![x][i] = "fetching"]
    /\ UNCHANGED <<stores, bundle, again, retried, rx, wire, receipts, fresh, faults, ghosts>>

\* The receive loop reads the iq result and resolves the future.
FetchReply(x, i, o) ==
    /\ pc[x][i] = "fetching"
    /\ rx[x] = "run"
    /\ o \in BundleOpks(Peer(x))
    /\ pool' = [pool EXCEPT ![Peer(x)] = @ \ {o}]
    /\ bundle' = [bundle EXCEPT ![x][i] = o]
    /\ pc' = [pc EXCEPT ![x][i] = "fetched"]
    /\ UNCHANGED <<session, ident, opks, meta, again, retried, rx, wire, receipts, fresh,
                   faults, ghosts>>

(***************************************************************************)
(* The coroutine goes on with the bundle: it does not look again whether a *)
(* session has appeared, and replaces meta, identity and session.          *)
(***************************************************************************)
Establish(x, i) ==
    LET state == NewState(x, bundle[x][i])
        pre == NewPre(x, bundle[x][i])
    IN  /\ pc[x][i] = "fetched"
        /\ meta' = [meta EXCEPT ![x] = pre]
        /\ ident' = [ident EXCEPT ![x] = TRUE]
        /\ wire' = wire \cup {Outgoing(x, i, state, pre, FALSE)}
        /\ session' = [session EXCEPT ![x] = Advanced(state)]
        /\ fresh' = [fresh EXCEPT ![x] = @ + 4]
        /\ pc' = [pc EXCEPT ![x][i] = "sent"]
        /\ bundle' = [bundle EXCEPT ![x][i] = NoOpk]
        /\ heard' = [heard EXCEPT ![x] = FALSE]
        /\ revived' = [revived EXCEPT ![x] = FALSE]
        /\ UNCHANGED <<opks, pool, again, retried, rx, receipts, faults, opened, reopened>>

(***************************************************************************)
(* The receive loop reads the server's ack, or an ack that asks for a      *)
(* retry, and resolves the future in the AckRouter.                        *)
(***************************************************************************)
AckArrives(x, i) ==
    /\ pc[x][i] = "sent"
    /\ rx[x] = "run"
    /\ \/ /\ pc' = [pc EXCEPT ![x][i] = "acked"]
          /\ UNCHANGED faults
       \/ /\ pc' = [pc EXCEPT ![x][i] = "nacked"]
          /\ Fault
    /\ UNCHANGED <<stores, bundle, again, retried, rx, wire, receipts, fresh, ghosts>>

\* send_message returns and keeps the message in _sent.
SendReturns(x, i) ==
    /\ pc[x][i] = "acked"
    /\ pc' = [pc EXCEPT ![x][i] = "cached"]
    /\ UNCHANGED <<stores, bundle, again, retried, rx, wire, receipts, fresh, faults, ghosts>>

\* asyncio.wait_for gives up on the ack: send_message raises, nothing is kept.
AckTimeout(x, i) ==
    /\ pc[x][i] = "sent"
    /\ Fault
    /\ pc' = [pc EXCEPT ![x][i] = "failed"]
    /\ UNCHANGED <<stores, bundle, again, retried, rx, wire, receipts, fresh, ghosts>>

(***************************************************************************)
(* _send_once sees the RetrySignal: the first time it drops the session    *)
(* and sends once more, the second time it raises.                         *)
(***************************************************************************)
RetryOnce(x, i) ==
    /\ pc[x][i] = "nacked"
    /\ IF again[x][i]
       THEN /\ pc' = [pc EXCEPT ![x][i] = "failed"]
            /\ UNCHANGED <<session, ident, meta, again>>
       ELSE /\ pc' = [pc EXCEPT ![x][i] = "again"]
            /\ again' = [again EXCEPT ![x][i] = TRUE]
            /\ session' = Dropped(session, x, NoSession)
            /\ ident' = Dropped(ident, x, FALSE)
            /\ meta' = Dropped(meta, x, NoMeta)
    /\ UNCHANGED <<opks, pool, bundle, retried, rx, wire, receipts, fresh, faults, ghosts>>

-----------------------------------------------------------------------------
(***************************************************************************)
(* _decrypt_enc.  A pkmsg always starts a new responder state: the OPK it  *)
(* names must still be stored, and the MAC must verify under the secret    *)
(* computed from the preamble.  A msg needs a session and an identity.     *)
(***************************************************************************)
OpkStored(x, m) == m.pre.opk = NoOpk \/ m.pre.opk \in opks[x]

Decryption(x, m) ==
    IF m.kind = "pkmsg"
    THEN LET r == RatchetDecrypt(RatchetInitBob(Secret(m.from, m.pre), Spk(x)),
                                 m.header, m.mk, fresh[x])
         IN  [r EXCEPT !.ok = @ /\ OpkStored(x, m)]
    ELSE IF session[x] = NoSession \/ ~ ident[x]
         THEN [ok |-> FALSE, state |-> session[x]]
         ELSE RatchetDecrypt(session[x], m.header, m.mk, fresh[x])

\* Mutant: the OPK of a completed X3DH stays in the store.
Consumed_kept(x, m) == opks

Consumed(x, m) ==
    IF m.kind = "pkmsg" THEN [opks EXCEPT ![x] = @ \ {m.pre.opk}] ELSE opks

(***************************************************************************)
(* _handle_message, success: session, OPK and identity are written in one  *)
(* transaction, note_incoming_decrypted clears the pending preamble.       *)
(***************************************************************************)
Receive(x, m) ==
    LET r == Decryption(x, m)
    IN  /\ rx[x] = "run"
        /\ m.from = Peer(x)
        /\ r.ok
        /\ session' = [session EXCEPT ![x] = r.state]
        /\ ident' = [ident EXCEPT ![x] = TRUE]
        /\ opks' = Consumed(x, m)
        /\ meta' = [meta EXCEPT ![x] = IF @ = NoMeta THEN NoMeta ELSE Confirmed]
        /\ fresh' = [fresh EXCEPT ![x] = IF r.state.dhs = @ THEN @ + 2 ELSE @]
        /\ heard' = [heard EXCEPT ![x] = TRUE]
        /\ opened' = opened \cup {m.mk}
        /\ IF m.mk \in opened
           THEN Fault /\ reopened' = reopened \cup {m.mk}
           ELSE UNCHANGED <<faults, reopened>>
        /\ UNCHANGED <<pool, tasks, wire, receipts, revived>>

(***************************************************************************)
(* _handle_message, failure: decrypt_error and a retry receipt.  This      *)
(* client sends it without keys; other clients put a bundle in it, with or *)
(* without an OPK of theirs.                                               *)
(***************************************************************************)
ReceiveFails(x, m, keys, o) ==
    /\ rx[x] = "run"
    /\ m.from = Peer(x)
    /\ ~ Decryption(x, m).ok
    /\ IF keys THEN o \in BundleOpks(x) ELSE o = NoOpk
    /\ Fault
    /\ receipts' = receipts \cup {[to |-> m.from, id |-> m.id, keys |-> keys, opk |-> o]}
    /\ pool' = [pool EXCEPT ![x] = @ \ {o}]
    /\ UNCHANGED <<session, ident, opks, meta, tasks, wire, fresh, ghosts>>

(***************************************************************************)
(* handle_retry_receipt, awaited by the receive loop.  It ignores a        *)
(* message that is not in _sent, one retried twice and a receipt whose own *)
(* count is above two; otherwise it drops the session.  With keys it saves *)
(* a new session and its preamble (not the identity), encrypts, sends and  *)
(* awaits the ack; without keys it awaits a pre-key query.                 *)
(***************************************************************************)
\* Mutant: retry_count is never compared.
Wanted_always(r) == pc[r.to][r.id] = "cached"

Wanted(r) == pc[r.to][r.id] = "cached" /\ retried[r.to][r.id] < 2

RetryWithKeys(r) ==
    LET x == r.to
        state == NewState(x, r.opk)
        pre == NewPre(x, r.opk)
    IN  /\ rx[x] = "run"
        /\ r.keys
        /\ Wanted(r)
        /\ retried' = [retried EXCEPT ![x][r.id] = @ + 1]
        /\ session' = [session EXCEPT ![x] = Advanced(state)]
        /\ ident' = Dropped(ident, x, FALSE)
        /\ meta' = [meta EXCEPT ![x] = pre]
        /\ wire' = wire \cup {Outgoing(x, r.id, state, pre, FALSE)}
        /\ fresh' = [fresh EXCEPT ![x] = @ + 4]
        /\ rx' = [rx EXCEPT ![x] = "ack"]
        /\ heard' = [heard EXCEPT ![x] = FALSE]
        /\ revived' = [revived EXCEPT ![x] = FALSE]
        /\ UNCHANGED <<opks, pool, pc, bundle, again, receipts, faults, opened, reopened>>

RetryWithoutKeys(r) ==
    LET x == r.to
    IN  /\ rx[x] = "run"
        /\ ~ r.keys
        /\ Wanted(r)
        /\ retried' = [retried EXCEPT ![x][r.id] = @ + 1]
        /\ session' = Dropped(session, x, NoSession)
        /\ ident' = Dropped(ident, x, FALSE)
        /\ meta' = Dropped(meta, x, NoMeta)
        /\ rx' = [rx EXCEPT ![x] = "fetch"]
        /\ UNCHANGED <<opks, pool, pc, bundle, again, wire, receipts, fresh, faults, ghosts>>

\* The ack cannot reach the loop that awaits it: wait_for times out.
RetryAckTimeout(x) ==
    /\ rx[x] = "ack"
    /\ rx' = [rx EXCEPT ![x] = "run"]
    /\ UNCHANGED <<stores, pc, bundle, again, retried, wire, receipts, fresh, faults, ghosts>>

(***************************************************************************)
(* The process dies and is started again: the tables stay; _peer_meta,     *)
(* _sent, the tasks and what the receive loop was doing are gone.          *)
(***************************************************************************)
Crash(x) ==
    /\ Fault
    /\ meta' = [meta EXCEPT ![x] = NoMeta]
    /\ pc' = [pc EXCEPT ![x] = [i \in Ids(x) |-> IF @[i] = "idle" THEN "idle" ELSE "failed"]]
    /\ rx' = [rx EXCEPT ![x] = "run"]
    /\ revived' = [revived EXCEPT ![x] = @ \/ session[x] # NoSession]
    /\ UNCHANGED <<session, ident, opks, pool, bundle, again, retried, wire, receipts, fresh,
                   heard, opened, reopened>>

Sending(x, i) ==
    \/ SendNow(x, i) \/ SendFetch(x, i)
    \/ \E o \in BundleOpks(Peer(x)) : FetchReply(x, i, o)
    \/ Establish(x, i) \/ AckArrives(x, i) \/ SendReturns(x, i)
    \/ AckTimeout(x, i) \/ RetryOnce(x, i)

Receiving(x) ==
    \/ \E m \in wire : Receive(x, m)
    \/ \E m \in wire, keys \in BOOLEAN, o \in BundleOpks(x) \cup {NoOpk} :
            ReceiveFails(x, m, keys, o)
    \/ RetryAckTimeout(x)

Next ==
    \/ \E x \in Parties :
        \/ \E i \in Ids(x) : Sending(x, i)
        \/ Receiving(x)
        \/ Crash(x)
    \/ \E r \in receipts : RetryWithKeys(r) \/ RetryWithoutKeys(r)

Spec == Init /\ [][Next]_vars

(***************************************************************************)
(* asyncio runs what is ready: a coroutine whose future is resolved, a     *)
(* timer that is due; the server answers what the client asked.            *)
(***************************************************************************)
FairSpec ==
    /\ Spec
    /\ \A x \in Parties :
        /\ WF_vars(RetryAckTimeout(x))
        /\ \A i \in Ids(x) :
            /\ WF_vars(SendNow(x, i) \/ SendFetch(x, i))
            /\ WF_vars(\E o \in BundleOpks(Peer(x)) : FetchReply(x, i, o))
            /\ WF_vars(Establish(x, i) \/ AckArrives(x, i) \/ SendReturns(x, i) \/ RetryOnce(x, i))

-----------------------------------------------------------------------------
(* No message key ever encrypts two stanzas, whatever sessions are         *)
(* replaced, dropped or reloaded after a crash: the session is saved       *)
(* before the stanza leaves, and every new session has new DH keys.        *)
NoKeyReuse == \A m, n \in wire : m.mk = n.mk => m = n

(* A session opened with a one-time pre-key is replay-proof: no ciphertext *)
(* of it is decrypted twice, although every pkmsg rebuilds the responder   *)
(* state and crashes reload it.  (Without an OPK a repeated pkmsg resets   *)
(* the session and the old ciphertexts decrypt again.)                     *)
OpkSessionsReplayProof ==
    \A mk \in reopened : SecretOf(mk).opk = NoOpk

(* A stored session is usable: it can always encrypt, so ratchet_encrypt   *)
(* never raises; and while the receiver holds the session a msg was        *)
(* encrypted under, made with an OPK, and knows the peer's identity, the   *)
(* msg decrypts, in any order, after any crash and next to any failed or   *)
(* replayed stanza.                                                        *)
SharedSessionDecrypts ==
    \A x \in Parties : session[x] # NoSession =>
        /\ CanEncrypt(session[x])
        /\ \A m \in wire :
            (/\ m.from = Peer(x)
             /\ m.kind = "msg"
             /\ m.mk \notin opened
             /\ ident[x]
             /\ session[x].rk[1] = SecretOf(m.mk)
             /\ SecretOf(m.mk).opk # NoOpk)
            => Decryption(x, m).ok

(* Within one life of the process the preamble stays on: a session the     *)
(* peer has not answered sends no bare msg, through sends that overtake    *)
(* each other, retries and resends (Sender._peer_meta).                    *)
PreambleKeptInProcess ==
    \A m \in wire : m.kind = "msg" => m.heard \/ m.revived

(* Sender.note_incoming_decrypted: "until we hear back from the peer,      *)
(* every outbound message must carry the pkmsg preamble", and of a restart *)
(* Sender.__init__ says that "the next send re-fetches the bundle".        *)
PreambleUntilHeard ==
    \A m \in wire : m.kind = "msg" => m.heard

(* The retry cap: one message goes out at most four times, the original,   *)
(* one server retry and two retry receipts, so a peer that cannot decrypt  *)
(* does not start a storm.                                                 *)
ResendsBounded ==
    \A x \in Parties : \A i \in Ids(x) :
        Cardinality({m \in wire : m.from = x /\ m.id = i}) <= 4

(* receiver._handle_frame: what sends an iq "and awaits the reply, which    *)
(* arrives on THIS receiver loop" must not be awaited inline, or it "would *)
(* deadlock"; so a loop that waits in a handler always comes back.         *)
DispatchKeepsDraining ==
    \A x \in Parties : rx[x] # "run" ~> rx[x] = "run"
=============================================================================
