--------------------------- MODULE GroupMessaging ---------------------------
(***************************************************************************)
(* Group messages under sender keys: Sender.send_group_text, the           *)
(* sender-key chain (sender_key.py) and its rows (SqliteSenderKeyStore),   *)
(* and Receiver._handle_group_message at the members' devices.  One member *)
(* sends to one group, several messages at once if the application does;   *)
(* the server delivers each message to a device late, again, or never.     *)
(*                                                                         *)
(* A chain key is its chain and iteration: whoever holds it derives the    *)
(* keys of that and of every later iteration.  The one-to-one ciphertext   *)
(* that carries the distribution message (SKDM) is known by its session,   *)
(* its place in it and its preamble; which of them open is what Ratchet    *)
(* and SignalSession model in full.                                        *)
(***************************************************************************)
EXTENDS Integers, Sequences, FiniteSets

CONSTANTS
  Devices,       \* the members' devices
  MaxSends,      \* calls of send_group_text
  MaxAtOnce,     \* calls under way at once
  MaxDeliveries, \* deliveries to one device
  MaxJump        \* _MAX_JUMP

ASSUME GroupAssumption ==
  /\ IsFiniteSet(Devices)
  /\ {MaxSends, MaxAtOnce, MaxDeliveries, MaxJump} \subseteq Nat

VARIABLES
  row,      \* our own row of sender_keys
  sends,    \* the calls of send_group_text so far
  link,     \* our one-to-one session with each device, and its preamble
  fetching, \* <<call, device>> for which a bundle is awaited
  peer,     \* what each device stores: session, spent OPKs, our sender key
  log       \* what each device did with each delivery, in order

vars == <<row, sends, link, fetching, peer, log>>

NoKey == [chain |-> 0, iteration |-> 0]
Calls == 1..Len(sends)

Init ==
  /\ row = NoKey
  /\ sends = <<>>
  /\ link = [d \in Devices |-> [session |-> 0, preamble |-> "none", next |-> 0]]
  /\ fetching = {}
  /\ peer = [d \in Devices |->
              [session |-> 0, opened |-> {}, spent |-> {}, key |-> NoKey]]
  /\ log = [d \in Devices |-> <<>>]

(***************************************************************************)
(* The sender.                                                             *)
(***************************************************************************)

Step(key) == [key EXCEPT !.iteration = @ + 1]      \* _next_chain_key

\* The stored state, or create_sender_key_state's fresh chain.
OwnState ==
  IF row # NoKey THEN row ELSE [chain |-> Len(sends) + 1, iteration |-> 0]

Distribution_after(state) == Step(state)

Distribution(state) == state                  \* build_distribution_message

\* The state group_encrypt returns, which is saved before anything is awaited.
Advanced_unsaved(state) == state

Advanced(state) == Step(state)

\* send_group_text up to its first await.  `to' are the devices that usync
\* will name for the participants the caller passed.
SendGroupText ==
  /\ Len(sends) < MaxSends
  /\ Cardinality({c \in Calls : sends[c].at = "fanout"}) < MaxAtOnce
  /\ \E to \in SUBSET Devices :
       sends' = Append(sends, [key |-> OwnState, skdm |-> Distribution(OwnState),
                               to |-> to, encs |-> <<>>, at |-> "fanout"])
  /\ row' = Advanced(OwnState)
  /\ UNCHANGED <<link, fetching, peer, log>>

Encrypted(c) == {e.to : e \in {sends[c].encs[i] : i \in DOMAIN sends[c].encs}}

\* The next device of the fan-out loop of call c.
Turn(c, d) ==
  /\ sends[c].at = "fanout"
  /\ d \in sends[c].to \ Encrypted(c)
  /\ \A e \in Devices : <<c, e>> \notin fetching

WithEnc(c, d, session) ==
  [sends EXCEPT ![c].encs =
     Append(@, [to |-> d, session |-> session.session,
                preamble |-> session.preamble, nth |-> session.next])]

\* _encrypt_for_peer under the session at hand.
EncryptFor(c, d) ==
  /\ Turn(c, d) /\ link[d].session # 0
  /\ sends' = WithEnc(c, d, link[d])
  /\ link' = [link EXCEPT ![d].next = @ + 1]
  /\ UNCHANGED <<row, fetching, peer, log>>

\* Without a session a bundle is fetched; another call may do the same.
FetchBundle(c, d) ==
  /\ Turn(c, d) /\ link[d].session = 0
  /\ fetching' = fetching \union {<<c, d>>}
  /\ UNCHANGED <<row, sends, link, peer, log>>

\* The bundle, with an OPK or without: establish, and encrypt under it.
Establish(c, d) ==
  /\ <<c, d>> \in fetching
  /\ \E preamble \in {"opk", "no_opk"} :
       LET new == [session |-> c, preamble |-> preamble, next |-> 0]
       IN  /\ sends' = WithEnc(c, d, new)
           /\ link' = [link EXCEPT ![d] = [new EXCEPT !.next = 1]]
  /\ fetching' = fetching \ {<<c, d>>}
  /\ UNCHANGED <<row, peer, log>>

\* The device list, a bundle or the transport fails, and send_group_text
\* raises: its iteration is used up.
CallFails(c) ==
  /\ sends[c].at = "fanout"
  /\ \/ sends[c].encs = <<>>
     \/ \E d \in Devices : <<c, d>> \in fetching
     \/ Encrypted(c) = sends[c].to
  /\ fetching' = {f \in fetching : f[1] # c}
  /\ sends' = [sends EXCEPT ![c].at = "failed"]
  /\ UNCHANGED <<row, link, peer, log>>

\* The stanza is sent.  Whatever the ack says, and whether it comes, has no
\* effect on any state: a group message is not cached for a resend.
Transmit(c) ==
  /\ sends[c].at = "fanout"
  /\ Encrypted(c) = sends[c].to
  /\ sends' = [sends EXCEPT ![c].at = "sent"]
  /\ UNCHANGED <<row, link, fetching, peer, log>>

\* A message of the device decrypts here: note_incoming_decrypted.
HearFrom(d) ==
  /\ link[d].preamble # "none"
  /\ peer[d].session = link[d].session
  /\ link' = [link EXCEPT ![d].preamble = "none"]
  /\ UNCHANGED <<row, sends, fetching, peer, log>>

\* Our process restarts: calls under way and preambles are gone, rows stay.
Restart ==
  /\ sends' = [c \in Calls |->
                IF sends[c].at = "fanout" THEN [sends[c] EXCEPT !.at = "failed"]
                ELSE sends[c]]
  /\ link' = [d \in Devices |-> [link[d] EXCEPT !.preamble = "none"]]
  /\ fetching' = {}
  /\ UNCHANGED <<row, peer, log>>

(***************************************************************************)
(* A member's device.                                                      *)
(***************************************************************************)

EncsFor(c, d) ==
  {e \in {sends[c].encs[i] : i \in DOMAIN sends[c].encs} : e.to = d}

\* _decrypt_enc: a pkmsg opens a session anew, unless its OPK is gone; a msg
\* needs its session, its message key not used before, and a ratchet that no
\* repeated pkmsg has built anew since, which is not recorded here.
Opens(p, e) ==
  CASE e.preamble = "opk" -> {e.session \notin p.spent}
    [] e.preamble = "no_opk" -> {TRUE}
    [] OTHER -> {FALSE, p.session = e.session /\ e.nth \notin p.opened}

\* process_distribution_message: the receiving state is the key it carries.
Processed(skdm) == [chain |-> skdm.chain, iteration |-> skdm.iteration]

\* What _decrypt_enc commits when it does, in a transaction of its own ...
Opened(p, e) ==
  [session |-> e.session,
   opened |-> IF e.preamble = "none" THEN p.opened \union {e.nth} ELSE {e.nth},
   spent |-> IF e.preamble = "opk" THEN p.spent \union {e.session} ELSE p.spent,
   key |-> p.key]

\* ... and what _ingest_group_skdm saves after it.
Ingested(p, skdm) == [p EXCEPT !.key = Processed(skdm)]

\* group_decrypt: the signature is the chain's, the iteration neither passed
\* nor too far ahead.
CanDecrypt_repeated(p, key) ==
  /\ p.key # NoKey /\ p.key.chain = key.chain
  /\ key.iteration + 1 >= p.key.iteration
  /\ key.iteration - p.key.iteration <= MaxJump

CanDecrypt(p, key) ==
  /\ p.key # NoKey /\ p.key.chain = key.chain
  /\ key.iteration >= p.key.iteration
  /\ key.iteration - p.key.iteration <= MaxJump

\* _handle_group_message once the SKDM, if there is one, has opened or not:
\* three commits, the session, the key of the SKDM and the key after the
\* message, then the message is shown.  The process may end, or the next save
\* raise, after any of them: `stop' is the last commit that was made.  A
\* message that is not decrypted is a decrypt_error: no receipt asks for it
\* again.
Handle(d, c, openings) ==
  LET p        == peer[d]
      session  == IF openings = {} THEN p ELSE Opened(p, CHOOSE e \in openings : TRUE)
      ingested == IF openings = {} THEN p ELSE Ingested(session, sends[c].skdm)
      decrypts == CanDecrypt(ingested, sends[c].key)
      saved    == IF decrypts THEN [ingested EXCEPT !.key = Step(sends[c].key)] ELSE ingested
  IN  \E stop \in {"end"} \union (IF openings = {} THEN {} ELSE {"session", "skdm"})
                          \union (IF decrypts THEN {"key"} ELSE {}) :
        /\ peer' = [peer EXCEPT ![d] =
             CASE stop = "session" -> session [] stop = "skdm" -> ingested [] OTHER -> saved]
        /\ log' = [log EXCEPT ![d] =
             Append(@, [call |-> c, stop |-> stop,
                        opened |-> openings # {},
                        ingested |-> openings # {} /\ stop # "session",
                        decrypted |-> decrypts /\ stop \in {"key", "end"}])]

Deliver(d, c) ==
  /\ sends[c].at = "sent" /\ Len(log[d]) < MaxDeliveries
  /\ \E openings \in SUBSET EncsFor(c, d) :
       /\ \A e \in EncsFor(c, d) : (e \in openings) \in Opens(peer[d], e)
       /\ Handle(d, c, openings)
  /\ UNCHANGED <<row, sends, link, fetching>>

Next ==
  \/ SendGroupText \/ Restart
  \/ \E c \in Calls : Transmit(c) \/ CallFails(c)
  \/ \E c \in Calls, d \in Devices :
       \/ EncryptFor(c, d) \/ FetchBundle(c, d) \/ Establish(c, d)
       \/ Deliver(d, c)
  \/ \E d \in Devices : HearFrom(d)

Spec == Init /\ [][Next]_vars

(***************************************************************************)
(* Properties.                                                             *)
(***************************************************************************)

Iteration(c) == sends[c].key.iteration
Shown(entry) == entry.decrypted /\ entry.stop = "end"

\* No two calls of send_group_text encrypt under one chain key, whatever they
\* await, fail at or restart over; and nobody reads a message sent before the
\* first one whose fan-out names a device of his.
GroupKeysFresh ==
  /\ \A c1, c2 \in Calls : sends[c1].key = sends[c2].key => c1 = c2
  /\ \A d \in Devices : \A i \in DOMAIN log[d] :
       Shown(log[d][i]) =>
         \E c \in Calls : d \in sends[c].to /\ Iteration(c) <= Iteration(log[d][i].call)

\* A delivery whose SKDM opens is decrypted, unless the device stopped
\* between its commits: after the first of them the session has moved, and a
\* one-time pre-key is gone, while the key the SKDM carried is lost.  When
\* the SKDM does not open, the message is missed only by a device that never
\* stored a key of ours, or whose last delivery that stored one was of this
\* or a later iteration, or lies more than MaxJump before it.
ReachesMembers ==
  \A d \in Devices : \A i \in DOMAIN log[d] :
    LET it == log[d][i]
        effective == {j \in 1..(i - 1) : log[d][j].ingested \/ log[d][j].decrypted}
        stored(j) == Iteration(log[d][j].call) + IF log[d][j].decrypted THEN 1 ELSE 0
        gap(j) == Iteration(it.call) - stored(j)
    IN  \/ it.decrypted
        \/ it.opened /\ it.stop \in {"session", "skdm"}
        \/ /\ ~it.opened
           /\ \A j \in effective :
                (\A k \in effective : k <= j) => (gap(j) < 0 \/ gap(j) > MaxJump)

\* A message is shown a second time only if, in between, an SKDM of its or of
\* an earlier iteration opened and set the stored chain back.
ReplayNeedsRewind ==
  \A d \in Devices : \A i, j \in DOMAIN log[d] :
    (i < j /\ log[d][i].call = log[d][j].call /\ Shown(log[d][i]) /\ Shown(log[d][j])) =>
      \E k \in (i + 1)..j :
        log[d][k].ingested /\ Iteration(log[d][k].call) <= Iteration(log[d][j].call)
=============================================================================
