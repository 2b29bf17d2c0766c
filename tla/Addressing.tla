----------------------------- MODULE Addressing -----------------------------
(***************************************************************************)
(* One peer device that is reached under two addresses, its phone number   *)
(* (PN) and its LID: the Signal session, the pinned identity and the       *)
(* pre-key preamble are kept per address, the sender uses the address it   *)
(* is given, and the receiver learns the pairing of the two from stanzas   *)
(* and moves a PN session to the LID (addressing.py, lid_map.py, and their *)
(* callers in sender.py and receiver.py).                                  *)
(*                                                                         *)
(* A session is known by its number; a ciphertext opens under its own      *)
(* session and no other (Ratchet has what happens inside one), unless a    *)
(* repeated pkmsg has rebuilt our ratchet of that session from its first   *)
(* state: then the two ends may have diverged, and either may refuse.      *)
(* The peer keeps one session with us, as a device does that knows us by   *)
(* one address, and repeats the preamble of a session it opened until it   *)
(* hears from us.  Messages in both directions may be overtaken, and need  *)
(* not arrive at all.                                                      *)
(***************************************************************************)
EXTENDS Naturals

CONSTANTS
  MaxSessions,  \* sessions either side opens
  MaxMessages,  \* messages the two sides send
  MaxFetches    \* sends to one address that await a bundle at a time

ASSUME AddressingAssumption == {MaxSessions, MaxMessages, MaxFetches} \subseteq Nat

VARIABLES
  known,     \* lid_map pairs the two addresses
  sessions,  \* session store: address -> session, 0 if there is none
  ident,     \* identity store: address -> pinned identity present
  meta,      \* Sender._peer_meta: address -> "none", "pending" or "clear"
  fetching,  \* address -> number of sends that await a bundle for it
  outbound,  \* our messages on the way
  inbound,   \* the peer's messages on the way
  receipts,  \* the peer's retry receipts on the way
  peer,      \* the peer's session with us, and whether we still need its preamble
  asked,     \* a retry receipt of ours has reached the peer
  opened,    \* number of sessions opened so far
  built,     \* peer's sessions of which we have opened a pkmsg
  rebuilt,   \* those of which we have opened another after that
  opkless,   \* peer's sessions opened without a one-time pre-key
  fromKeys,  \* sessions built from the keys of a retry receipt
  sent       \* number of messages sent so far

store_vars == <<known, sessions, ident, built, rebuilt>>
peer_vars == <<peer, asked, receipts>>
vars == <<store_vars, meta, fetching, outbound, inbound, peer_vars, opened,
          opkless, fromKeys, sent>>

Addresses == {"pn", "lid"}
Alt(a) == CHOOSE b \in Addresses : b # a

Init ==
  /\ known = FALSE
  /\ sessions = [a \in Addresses |-> 0]
  /\ ident = [a \in Addresses |-> FALSE]
  /\ meta = [a \in Addresses |-> "none"]
  /\ fetching = [a \in Addresses |-> 0] /\ outbound = {} /\ inbound = {} /\ receipts = {}
  /\ peer = [session |-> 0, preamble |-> FALSE] /\ asked = FALSE
  /\ opened = 0 /\ built = {} /\ rebuilt = {} /\ opkless = {} /\ fromKeys = {}
  /\ sent = 0

\* _peer_and_lid_alt, and the candidates of _drop_peer_session.
PeerAndLidAlt(a) == IF known THEN {a, Alt(a)} ELSE {a}

(***************************************************************************)
(* The sender.                                                             *)
(***************************************************************************)

\* _encrypt_for_peer can go on without a bundle.
HasSession(a) == sessions[a] # 0 /\ (meta[a] # "none" \/ ident[a])

\* Send under the session at hand; after a restart the stored identity makes
\* up for the lost metadata, without a preamble.
SendNow(a) ==
  /\ sent < MaxMessages /\ HasSession(a)
  /\ meta' = [meta EXCEPT ![a] = IF @ = "none" THEN "clear" ELSE @]
  /\ outbound' = outbound \union
       {[session |-> sessions[a], preamble |-> meta[a] = "pending"]}
  /\ sent' = sent + 1
  /\ UNCHANGED <<store_vars, fetching, inbound, peer_vars, opened, opkless,
                 fromKeys>>

\* Two sends may both find no session and fetch a bundle each.
SendFetches(a) ==
  /\ sent < MaxMessages /\ ~HasSession(a) /\ fetching[a] < MaxFetches
  /\ fetching' = [fetching EXCEPT ![a] = @ + 1]
  /\ UNCHANGED <<store_vars, meta, outbound, inbound, peer_vars, opened,
                 opkless, fromKeys, sent>>

\* The bundle is there: session, metadata and identity are written, and the
\* message goes out as a pkmsg, whatever another send has stored meanwhile.
Establish(a) ==
  /\ fetching[a] > 0 /\ opened < MaxSessions
  /\ fetching' = [fetching EXCEPT ![a] = @ - 1]
  /\ opened' = opened + 1
  /\ sessions' = [sessions EXCEPT ![a] = opened']
  /\ ident' = [ident EXCEPT ![a] = TRUE]
  /\ meta' = [meta EXCEPT ![a] = "pending"]
  /\ outbound' = outbound \union
       {[session |-> opened', preamble |-> TRUE]}
  /\ sent' = sent + 1
  /\ UNCHANGED <<known, built, rebuilt, inbound, peer_vars, opkless, fromKeys>>

FetchFails(a) ==
  /\ fetching[a] > 0
  /\ fetching' = [fetching EXCEPT ![a] = @ - 1]
  /\ UNCHANGED <<store_vars, meta, outbound, inbound, peer_vars, opened,
                 opkless, fromKeys, sent>>

\* What _drop_peer_session leaves of a store.
Without(store, a, nothing) ==
  [b \in Addresses |-> IF b \in PeerAndLidAlt(a) THEN nothing ELSE store[b]]

\* handle_retry_receipt with a <keys> bundle: both addresses are dropped and
\* the session is rebuilt under the receipt's, without its identity.
RetryWithKeys(a) ==
  /\ [from |-> a, keys |-> TRUE] \in receipts
  /\ opened < MaxSessions /\ sent < MaxMessages
  /\ receipts' = receipts \ {[from |-> a, keys |-> TRUE]}
  /\ opened' = opened + 1 /\ fromKeys' = fromKeys \union {opened'}
  /\ sessions' = [Without(sessions, a, 0) EXCEPT ![a] = opened']
  /\ ident' = Without(ident, a, FALSE)
  /\ meta' = [Without(meta, a, "none") EXCEPT ![a] = "pending"]
  /\ outbound' = outbound \union
       {[session |-> opened', preamble |-> TRUE]}
  /\ sent' = sent + 1
  /\ UNCHANGED <<known, built, rebuilt, fetching, inbound, peer, asked, opkless>>

\* The same without keys, and a <retry> ack: dropped, then fetched anew.
RetryWithoutKeys(a) ==
  /\ [from |-> a, keys |-> FALSE] \in receipts /\ fetching[a] < MaxFetches
  /\ receipts' = receipts \ {[from |-> a, keys |-> FALSE]}
  /\ sessions' = Without(sessions, a, 0)
  /\ ident' = Without(ident, a, FALSE)
  /\ meta' = Without(meta, a, "none")
  /\ fetching' = [fetching EXCEPT ![a] = @ + 1]
  /\ UNCHANGED <<known, built, rebuilt, outbound, inbound, peer, asked, opened,
                 opkless, fromKeys, sent>>

\* The process restarts: the stores stay, what was in memory goes.
Restart ==
  /\ meta' = [a \in Addresses |-> "none"]
  /\ fetching' = [a \in Addresses |-> 0]
  /\ UNCHANGED <<store_vars, outbound, inbound, peer_vars, opened, opkless,
                 fromKeys, sent>>

(***************************************************************************)
(* The receiver.                                                           *)
(***************************************************************************)

\* _record_peer_addressing.
Recorded_never(m) == known

Recorded(m) == known \/ m.names_alt

\* migrate_pn_session_to_lid, one transaction: the stores after it.
Migrated_copied(s, i) ==
  [sessions |-> [s EXCEPT !["lid"] = s["pn"]],
   ident |-> [i EXCEPT !["lid"] = @ \/ i["pn"]]]

Migrated(s, i) ==
  [sessions |-> [s EXCEPT !["lid"] = s["pn"], !["pn"] = 0],
   ident |-> [i EXCEPT !["lid"] = @ \/ i["pn"], !["pn"] = FALSE]]

\* _migrate_known_lid_sender, and the early returns of both functions.
AfterMigration(m) ==
  IF m.from = "lid" /\ sessions["lid"] = 0 /\ Recorded(m) /\ sessions["pn"] # 0
  THEN Migrated(sessions, ident)
  ELSE [sessions |-> sessions, ident |-> ident]

\* _decrypt_enc on the stores as the migration left them: a pkmsg needs its
\* one-time pre-key, if it names one, which the first pkmsg to open has
\* consumed; a msg needs its session and the pinned identity.
Opens(m) ==
  \/ m.preamble /\ (m.session \in built => m.session \in opkless)
  \/ /\ ~m.preamble
     /\ AfterMigration(m).sessions[m.from] = m.session
     /\ AfterMigration(m).ident[m.from]

\* A pkmsg without a one-time pre-key that opens again starts the ratchet
\* afresh (ratchet_init_bob, saved over the old one or under the other
\* address): what the peer encrypts after a DH step fails its MAC, what it
\* encrypts before one decrypts.
MayDiverge(m) == ~m.preamble /\ m.session \in rebuilt

\* _handle_message up to the decryption, and note_incoming_decrypted.
Receive(m) ==
  /\ Opens(m)
  /\ inbound' = inbound \ {m}
  /\ known' = Recorded(m)
  /\ sessions' = [AfterMigration(m).sessions EXCEPT ![m.from] = m.session]
  /\ ident' = [AfterMigration(m).ident EXCEPT ![m.from] = TRUE]
  /\ built' = IF m.preamble THEN built \union {m.session} ELSE built
  /\ rebuilt' = IF m.preamble /\ m.session \in built
                THEN rebuilt \union {m.session} ELSE rebuilt
  /\ meta' = [a \in Addresses |->
               IF (a = m.from \/ known') /\ meta[a] = "pending" THEN "clear"
               ELSE meta[a]]
  /\ UNCHANGED <<fetching, outbound, peer_vars, opened, opkless,
                 fromKeys, sent>>

\* It does not open: the migration stays, and a retry receipt goes out.
ReceiveFails(m) ==
  /\ ~Opens(m) \/ MayDiverge(m)
  /\ inbound' = inbound \ {m}
  /\ known' = Recorded(m)
  /\ sessions' = AfterMigration(m).sessions
  /\ ident' = AfterMigration(m).ident
  /\ asked' = TRUE
  /\ UNCHANGED <<built, rebuilt, meta, fetching, outbound, peer, receipts, opened,
                 opkless, fromKeys, sent>>

(***************************************************************************)
(* The peer, and the network.                                              *)
(***************************************************************************)

PeerReceives(m) ==
  /\ outbound' = outbound \ {m}
  /\ \/ /\ m.preamble \/ peer.session = m.session
        /\ peer' = [session |-> m.session, preamble |-> FALSE]
        /\ UNCHANGED receipts
     \/ /\ ~m.preamble /\ (peer.session # m.session \/ m.session \in rebuilt)
        /\ \E a \in Addresses, k \in BOOLEAN :
             receipts' = receipts \union {[from |-> a, keys |-> k]}
        /\ UNCHANGED peer
  /\ UNCHANGED <<store_vars, meta, fetching, inbound, asked, opened, opkless,
                 fromKeys, sent>>

\* A message from either address; the stanza may name the other one.
PeerSends(a, names) ==
  /\ sent < MaxMessages /\ peer.session # 0 /\ ~asked
  /\ inbound' = inbound \union
       {[from |-> a, names_alt |-> names, session |-> peer.session,
         preamble |-> peer.preamble]}
  /\ sent' = sent + 1
  /\ UNCHANGED <<store_vars, meta, fetching, outbound, peer_vars, opened, opkless,
                 fromKeys>>

\* The peer has no session with us, or our retry receipt made it drop that.
PeerOpens(a, names) ==
  /\ sent < MaxMessages /\ opened < MaxSessions
  /\ peer.session = 0 \/ asked
  /\ opened' = opened + 1
  /\ opkless' \in {opkless, opkless \union {opened'}}
  /\ peer' = [session |-> opened', preamble |-> TRUE] /\ asked' = FALSE
  /\ inbound' = inbound \union
       {[from |-> a, names_alt |-> names, session |-> opened',
         preamble |-> TRUE]}
  /\ sent' = sent + 1
  /\ UNCHANGED <<store_vars, meta, fetching, outbound, receipts, fromKeys>>

Next ==
  \/ \E a \in Addresses :
       \/ SendNow(a) \/ SendFetches(a) \/ Establish(a) \/ FetchFails(a)
       \/ RetryWithKeys(a) \/ RetryWithoutKeys(a)
       \/ \E names \in BOOLEAN : PeerSends(a, names) \/ PeerOpens(a, names)
  \/ \E m \in inbound : Receive(m) \/ ReceiveFails(m)
  \/ \E m \in outbound : PeerReceives(m)
  \/ Restart

Spec == Init /\ [][Next]_vars

(***************************************************************************)
(* Properties.                                                             *)
(***************************************************************************)

\* Sessions move whole: one session is never stored under both addresses,
\* where two copies of its ratchet would go on separately, unless the peer
\* opened it without an OPK and sent its pkmsgs from both; and wherever it is
\* stored its pinned identity is too, unless it comes from a retry receipt's
\* keys (handle_retry_receipt saves no identity).
SessionsMoveWhole ==
  /\ sessions["pn"] = sessions["lid"] => sessions["pn"] \in opkless \union {0}
  /\ \A a \in Addresses : sessions[a] # 0 => ident[a] \/ sessions[a] \in fromKeys

\* The receiver's promise to "reuse the existing PN session": a msg that is
\* refused although we hold its session comes from the PN after the
\* session has moved, from a LID nothing has paired with the PN, from a LID
\* under which a send or an older move has left another session, or the
\* session lacks its identity or was rebuilt by a repeated pkmsg without a
\* one-time pre-key.
KnownPeerDecrypts ==
  [][\A m \in inbound :
       (ReceiveFails(m) /\ ~m.preamble /\ m.session \in {sessions[a] : a \in Addresses}) =>
         \/ m.from = "pn" /\ sessions["lid"] = m.session
         \/ m.from = "lid" /\ sessions["pn"] = m.session /\ ~(known \/ m.names_alt)
         \/ m.from = "lid" /\ sessions["lid"] \notin {0, m.session}
         \/ m.session \in fromKeys \union (rebuilt \intersect opkless)]_vars
=============================================================================
