# pywhats in TLA+

TLA+ modules for the core of `pywhats`, a WhatsApp multi-device client in
asyncio Python (`src/src/pywhats`, written `pywhats/` below). They model the
parts whose correctness depends on orders of events that no test writes down:
the pre-key pool, the Signal sessions between two accounts and between two
addresses of one peer, group sender keys, the Noise handshake and transport, the
socket and its queue, the life of a client across reconnects, pairing and the
device file, app-state sync, and the stanza codec.

## 1. The system

One process, one event loop. Concurrency is between asyncio tasks: a step of
the models is what a task does between two suspensions.

| part | code | state | operations | talks to |
|---|---|---|---|---|
| client | `client.py` | `_connected`, `_sock`, `_bg_task`, `_activator`, `_fatal_task`, `_closed` | connect, disconnect, background task, send wrappers | everything |
| socket | `socket/transport.py` | websocket, bounded inbound queue, `_closed`, `_close_exc` | connect, reader loop, recv_frame, send_frame, disconnect | Noise transport |
| Noise | `socket/noise.py` | two cipher states with nonces | handshake, send, recv, rekey | socket |
| activation | `messaging/activator.py` | ping loop, failure count | passive iq, pre-key refill, presence, ping | receiver (answers), client (`on_fatal`) |
| pre-keys | `messaging/prekey.py`, `signal/experimental/prekey_store.py`, `sqlite_store.py` | `prekeys` table | fetch, upload, count, refill, consume | server, receiver |
| sender | `messaging/sender.py`, `router.py` | `_peer_meta`, `_sent`, pending acks | send_message, send_group_text, handle_retry_receipt | stores, fetchers |
| receiver | `messaging/receiver.py` | pending iqs | one loop, one frame at a time; decrypt, ack, receipts | sender, stores |
| ratchet, X3DH | `signal/experimental/ratchet.py`, `x3dh.py` | `RatchetState` per peer | encrypt, decrypt, skip, DH step | sender, receiver |
| groups | `signal/experimental/sender_key.py`, `messaging/group.py` | sender-key chains | group encrypt and decrypt, distribution | sender, receiver |
| app state | `appstate/*` | version, LTHash and MACs per collection, keys | server_sync, fetch, apply, persist | receiver, SQLite |
| pairing | `pairing.py`, `store.py` | refs, device | QR rotation, pair-success, save | client |
| addressing | `addressing.py`, `lid_map.py`, `usync.py` | PN/LID map | device lists, migration of a session to its LID | sender, receiver |
| codec, media, protobuf, history, events | `binary/*`, `media/*`, `proto/*` | none | pure functions, HTTP | |

What is hard here, with the line where it bites, is the `hazards` list of
`PROJECT.json`: handlers awaited on the loop that must deliver their answer,
session state read before an await and written after it, a preamble kept only
in memory, queues at their limit while their consumer is gone, tasks nobody
cancels that outlive their connection, partial batches after a crash.

What makes each part correct:

- pool: a published key can be used, once; a refill never hangs.
- ratchet: no replay, any order, late keys within the limits, no key twice.
- sessions: no message key twice whatever races for the session; a receiver
  that holds the session decrypts; the preamble stays until the peer answered
  (which a restart breaks);
  retries are bounded; the receive loop keeps running.
- Noise: both ends of a finished handshake agree, a nonce is used once, and the
  ends stay in step, so that a direction is a reliable channel until it is lost.
- socket and client: frames in order, no leaked connection, the end of a
  session is noticed and reported, disconnect returns.
- app state: the stored hash is the server's at the stored version, the MAC
  table and the events told to the application follow the cursor, and the
  collection catches up.
- pairing: only a device that was scanned and answered for is recorded, its keys
  survive failed saves and crashes, the QR rotation ends.
- groups: no chain key encrypts twice; it is known who misses a message, and
  when one is shown again.
- addressing: a session moves from the phone number to the LID whole, and a
  message whose session is held is not refused, outside named cases.
- codec: what the format has room for is decoded to what it means, anything else
  and every truncated frame is refused.

## 2. Modules

| module | models | how |
|---|---|---|
| `PrekeyPool` | PrekeyUploader, the `prekeys` table, the pkmsg lookup | a key pair is the number of the `generate_pre_key` call that made it; a connection's `refill_if_low` is a small program counter; the server, the network and the peers are environment |
| `Ratchet` | `ratchet.py` | pure operators on the state record; keys are symbolic terms (a message key is the root key and position it was derived from) |
| `DoubleRatchet` | one session used from both ends | `Encrypt`, `Deliver` over a network that keeps every ciphertext |
| `SignalSession` | Sender and Receiver of two accounts, their tables, crash and restart | one program counter per `send_message`, one per receive loop; extends `Ratchet`; the wire keeps every stanza |
| `NoiseSocket` | NoiseSocket | reader, queue, `recv_frame`, `disconnect` per socket |
| `Client` | Client and the keepalive of SessionActivator | extends `NoiseSocket`; `connect`, login, background task, ping loop, `disconnect` |
| `AppState` | AppStateSyncer, patch decoding, the LT-hash, the app-state tables | one record of local variables per fetch task; `loop` names the task inside the synchronous `apply_patch_list`; `writes` holds the rows `_persist` has still to write, each with its place, and each is a step (the connection is in autocommit mode); the LT-hash is a formal sum of value MACs |
| `NoiseHandshake` | CipherState, SymmetricState, HandshakeState | pure operators; keys and hashes are symbolic terms, a message is a sequence of pieces, one per token |
| `NoiseTransport` | NoiseHandshake.perform, NoiseTransport | extends `NoiseHandshake`; a client, a peer that mirrors it, a channel that closes; sends and receives split at their awaits |
| `SecureChannel` | what one direction promises | abstract: accept, deliver in order, lose |
| `Pairing` | the pairing half of Client, Pairer, `store.py` | `pc` of `connect`, the set of rotation tasks, the file and what a power failure may leave of it; phone and server are environment |
| `GroupMessaging` | `send_group_text`, `sender_key.py`, `_handle_group_message` | one record per call with its program counter; per device its session, sender key and log of deliveries |
| `Addressing` | `addressing.py`, `lid_map.py` and their callers | session, identity and preamble per address of one peer; the peer is environment |
| `Codec` | `binary/encoder.py`, `decoder.py`, `jid.py` | recursive operators over texts (sequences of symbols) and frames (sequences of bytes and sized payloads); encode, cut, decode |
| `PrekeyPool_proofs`, `NoiseTransport_proofs`, `Client_proofs`, `Pairing_proofs`, `GroupMessaging_proofs`, `Addressing_proofs`, `AppState_proofs` | theorems about the module in the name | TLAPS; each extends its module, see section 4 |
| `Signal_proofs` | theorems about `DoubleRatchet` and `SignalSession` | the lemmas about `Ratchet` serve both, which is why the two modules name their specifications differently (`PairSpec`, `Spec`) |

`MCPrekeyPool`, `MCSignalSession`, `MCAppState` and `MCCodec` give the constants
that are functions or sets of records their values; the other modules are checked directly. Definitions called
`..._something` under a comment "Mutant" are wrong variants of the definition
that follows them. No run uses them; with one of them in place of the right
definition the property it belongs to fails, so no property holds vacuously.

### How actions correspond to code

`PrekeyPool.Upload` is the synchronous part of `upload()` (generate, save,
send); `UploadDone`, `Timeout` its two ends; `CrashInUpload` stops between two
saves, each of which commits on its own. `ServerReject` exists because `upload`
never looks at the type of the answer.

`SignalSession.SendNow` and `SendFetch` are the two ways `_encrypt_for_peer`
can go; `FetchReply` is the receive loop resolving the iq, `Establish` the
coroutine going on (it does not look again whether somebody else has made a
session meanwhile). `AckArrives` / `SendReturns` are separate because `_sent`
is filled by the task and not by the loop. `Receive` is the whole success path
of `_handle_message` for a one-to-one message, `ReceiveFails` its failure path.
`RetryWithKeys` and `RetryWithoutKeys` run on the receive loop, which is why
`rx` then is "ack" or "fetch" and no other frame is handled. `Crash` keeps the
SQLite tables and forgets `_peer_meta`, `_sent` and the tasks.

In `NoiseSocket`, `Take` is a `recv_frame` whose frame authenticates or not: if
not, the transport's `recv` raises, `Receiver.run` returns (`consumer` is
"failed") and the socket stays open with its reader running. `HandlerBlocks` is a
frame whose handler never returns, the retry receipt of `dispatch_drains`. A
message that does not parse as frames is put whole by the reader, and is one more
frame that does not authenticate.

In `Client` a connection has the number of its socket. `LoginDone` is
`_run_login` up to the handlers of `connected`, which run with `_connected` set
and no background task yet; `LoginReturns` makes that task. `BgEnds` and
`BgCancelled` are the `finally` of `_run_background_tasks`; `Disconnect`,
`DisconnectSocket`, `DisconnectDone` are the three stretches of `disconnect()`
between its awaits; `PingGivesUp` includes `_on_keepalive_fatal`.

In `NoiseTransport`, `Send` is `send()` up to `send_frame`: the cipher has
counted, the frame is pending under the lock. `FrameSent` and `FrameRefused` are
its two ends; a refused frame has used its nonce, after which the other end
cannot open anything (`limit` remembers where). `Recv` rekeys before it awaits,
as the code does, so a cancelled `recv` (`RecvCancelled`, the `wait_for` in
`Pairer.run`) leaves a rekeyed cipher behind. `Close` keeps any prefix of the
frames on the way, namely what the reader had queued.

In `Pairing`, `PairSuccess` is the branch of `Pairer.run` up to the reply,
`Replied` the return of the send with the assignments to the device; `Mkstemp`,
`WriteTemp`, `Replace` and `SyncDirectory` are the system calls of
`save_device_store`, between which `Crash` may fall, with or without the
machine. `disk` is the set of contents a power failure may leave.

In `GroupMessaging`, `SendGroupText` runs to the first await, with the chain
advanced and saved; the devices usync will name are a free choice. `EncryptFor`,
`FetchBundle` and `Establish` are the fan-out loop, in which calls race for a
one-to-one session; `Deliver` is `_handle_group_message`, which commits the
one-to-one session (with the one-time pre-key), the sender key of the SKDM and the
advanced sender key one after the other: `Handle` gives the outcomes, one for each
place where the process may die (`stop`).

In `Addressing`, `Receive` and `ReceiveFails` contain `_record_peer_addressing`
and `_migrate_known_lid_sender`, which run before the decryption and are not
undone when that fails. A session is its number; what becomes of its ratchet is
reduced to `rebuilt`: a pkmsg without a one-time pre-key that opens a second time
starts the ratchet afresh, and from then on a `msg` of that session may be opened
or refused (`MayDiverge`). Several sends may await a bundle for one address.

In `Codec`, `Encode` is a call of `encode`, `Cut` shortens the frame, `Decode` is
`decode` as `_handle_frame` calls it. Positions are kept as in `_Reader`; a read
that raises is `Failed`, and `Then` ends every reader that needed it. The token tables are
represented by eleven of their entries.

In `AppState`, `Fetch` is a `server_sync` task up to its first request,
`Answer` the server's page (any snapshot version, any split into pages),
`ApplyPatchList` the return from `parse_patch_list`, whose downloads may reorder
the pages of two tasks. `DecodeSnapshot` / `DecodePatch` decode one item and
queue what `_persist` writes; `Persist` commits one write, so `Restart` may fall
between the cursor and its MACs. The four ends of a fetch are `PageDone` (which
hands the mutations over), the missing-key branch of `Decode` (which hands over
earlier pages only), `Raise` and `Restart`; `Emit` awaits the application's
handler for one event. Two history variables name the ways out:
`disturbed` (a page met a cursor that another task had moved, or a crash tore a
persist) and `lossy` (persisted mutations were never handed over, or two tasks
emitted at once).

## 3. Runs

| run | result | shows |
|---|---|---|
| `prekey_pool` | holds | every OPK in an upload, at the server or in an unused bundle has exactly its own private half stored; one key pair opens one session; a refill ends |
| `double_ratchet` | holds | `NoReplay`, `AnyOrder`, `LateKeysKept`, `KeysUsedOnce` |
| `signal_session` | holds | two concurrent sends and one from the peer with one fault, or one message each way with two faults of any kind: no key reuse, shared sessions decrypt, within one life of the process the preamble is kept, sessions opened with an OPK are replay-proof, at most four transmissions of a message |
| `preamble_after_restart` | violated | a session is opened, the process restarts before the peer has answered, and the next message goes out without the preamble: `Sender.__init__` says that the bundle is fetched again, `note_incoming_decrypted` that the preamble stays until the peer answers, and `_encrypt_for_peer` takes session and identity from the stores |
| `dispatch_drains` | violated | a retry receipt without keys blocks the receive loop for good |
| `client` | holds | frames in order; the only connection that is leaked is one whose receiver stopped on a bad frame; `_connected` is supervised from the moment `connect()` returns; a closed session is noticed and the keepalive closes what it gave up on, unless a handler blocks; `disconnect()` returns unless the queue was full |
| `app_state` | holds | the stored hash is the server's under every race and crash; while undisturbed the MAC table matches the cursor, the server's pages verify and the collection catches up; between fetches the application knows every live value unless `lossy` |
| `noise_transport` | holds | handshakes with an honest and a broken peer; no nonce twice, the next frame opens, and each direction implements `SecureChannel`, its liveness included |
| `pairing` | holds | only genuine pairings are recorded and written, the keys of a linked device are kept, the rotation stops |
| `groups` | holds | chain keys are fresh; who misses a message and why, with a receiver that may die between any two of its commits; what is shown twice |
| `addressing` | holds | sessions move whole; the reasons for which a message whose session is held is refused, at every refusal |
| `codec` | holds | `DecodesWhatWasEncoded` |

### What the models show besides

The properties name their exceptions, and each exception is reachable. In words:

- `disconnect()` never returns when the inbound queue is full at that moment: it
  has cancelled the receiver, and `NoiseSocket.disconnect` then awaits room for
  its sentinel (`DisconnectReturns`). The keepalive's closing task can hang in
  the same place; `_fatal_task` then stays undone and the keepalive of the next
  connection is ignored (`KeepaliveCloses`).
- A frame that does not authenticate ends the receiver (`receiver.py:269`) and
  with it the background task, which says "always tear the session down" but
  leaves the socket alone. `disconnect()` still closes it; an application that
  reconnects on the event `disconnected` without it overwrites `_sock`, and the
  old socket stays open with its reader running (`NoLeakedConnection`,
  `LeftOpen`).
- Between `_connected = True` and the creation of the background task the
  handlers of `connected` run, and nobody reads the socket: a handler that awaits
  a send would wait for an ack nobody takes from the queue
  (`ConnectedIsSupervised`).
- A handler of a frame that blocks, as in `dispatch_drains`, also keeps the end
  of the connection from being noticed: the sentinel is never read, also when the
  keepalive has closed the socket (`SessionEnds`, `KeepaliveCloses`).
- A ping loop that survives a reconnect without `disconnect()` closes the socket
  the client has *now*; and `disconnect()` on a running session emits
  `disconnected` twice, once from the background task.
- Pre-key ids come back: `max_id()` looks at the rows left, and used rows are
  deleted. Nothing depends on it, because only ids of spent keys come back.
- After a retry receipt with keys the session is stored without an identity
  (`SessionsMoveWhole`, `fromKeys`).
- A frame that `send_frame` refuses has used its nonce: nothing sent after it
  can be opened, although those later sends succeed.
- A second pair-device stanza displaces the running rotation task, which nobody
  cancels (`RotationStops`).
- A pairing reply that is lost, or followed by a crash before the save, leaves a
  device linked that nobody holds keys for; the next attempt makes a new one.
- An SKDM that opens late sets the stored sender-key chain back, after which a
  message can be shown again (`ReplayNeedsRewind`); group messages that fail to
  decrypt are never asked for again (`ReachesMembers`). A receiver that dies after
  the commit of the one-to-one session and before that of the sender key has spent
  what opens the SKDM and lost the key in it.
- After a session has moved to the LID, a `msg` from the phone number is refused
  and a send to the number opens another session (`KnownPeerDecrypts`). A pkmsg
  without a one-time pre-key that arrives again rebuilds the session, or leaves a
  copy under the other address; messages of it can then be refused although the
  session is held.
- A device number of 256 and more loses its high bits, and a device at a server
  without an agent number becomes one at `s.whatsapp.net`, both without an error;
  a string of 255 digits or more raises; a text as content is not decodable
  when it is a token (no caller sends one).

The exceptions in the `app_state` properties are reachable. Without
`disturbed`, `CatchesUp` fails with no fault at all: two first fetches are
answered at different versions, the older snapshot is applied last, the cursor
moves back while newer MAC rows stay, and every later patch of those indexes is
refused; nothing in the code starts a full sync again. Without `lossy`,
`EventsMatchCursor` fails when a page's second item needs a key that has not
arrived: the first item is persisted and its mutations are discarded.

### Bounds

- `prekey_pool`: two uploaders, batches of two, six key pairs, four ids. Two
  batches fit next to each other and a third generation reuses ids; a crash can
  cut a batch in half; the pool passes both ways through `MinCount`.
- `double_ratchet`: five messages each way, `MaxSkip = MaxSkippedTotal = 2`, so
  both limits are hit and passed and several DH steps happen.
- `signal_session`: messages 2 + 1, one OPK each (the second bundle has none),
  one fault; or, as long as each account has begun one message at most, two
  faults, enough for the fourth and last transmission of a message (`Explored`
  cuts off the rest: both together are beyond TLC here). A fault
  is a crash, an ack timeout, a retry ack, a repeated delivery or a failed decryption.
  Without the bound, repeated pkmsgs without an OPK reset the responder state
  for ever. The skip limits are out of reach there; `double_ratchet` covers them.
- `client`: two connections, at most three frames on one and four on both, a
  queue of two, two ping failures. A stacked message fills or overflows the queue, and the reader's and
  the disconnect's sentinel fit into it side by side, as in the code's 256.
- `noise_transport`: three messages each way and a rekey interval of two, so
  that both ends rekey with frames on the way; one cancelled `recv`.
- `pairing`: three attempts, two pair-device stanzas of up to three refs, three
  key materials, two crashes: a stale attempt, a displaced rotation, a failed
  save and a crash can all precede a successful one.
- `groups`: one member device (the devices of a fan-out do not meet), three sends,
  two at a time, four deliveries, `MaxJump` of one: the jump limit is passed
  (after a stop between two commits), and a delivery can follow a repeated, an
  overtaken and an interrupted one.
- `addressing`: three sessions, four messages, two sends at a time that await a
  bundle for one address: one session of either side and one more after a migration
  or a retry, or a pkmsg sent twice, our answer to it and the refused msg that
  follows.
- `codec`: 241 stanzas, plain and compressed, with texts of 253 to 256 symbols,
  payloads around 2^8, 2^16 and 2^20 bytes, 255 to 257 list items, devices around
  255; every proper prefix of their frames. Payloads of 2^32 bytes and lists of
  65536 items, which raise, are not built.
- `app_state`: two tasks, two indexes, three patches (a value set, replaced,
  removed; one index twice in a patch; records under two keys), pages of at most
  two patches, two faults. A third task or patch adds no new kind of overlap: a
  page already meets a cursor that is ahead, behind or equal.

Deadlock checking is on in `app_state`, where a notification is always
possible, and off elsewhere: the bounded environments may stop.

### Fairness

Weak fairness stands for the event loop: a coroutine whose future is resolved,
a cancelled task and a due timer run. `PrekeyPool` assumes it for the deadline
or the answer of a refill, `SignalSession.FairSpec` for the sending tasks and
the server's answers (the run refutes the property even so), `Client.FairSpec`
for reader, receiver, background task, ping timers and running disconnects,
`NoiseTransport` for a reader that calls `recv` again and takes a frame that is
there. No fairness is assumed for the server sending or closing, for faults or for the
application. `AppState.FairSpec` assumes in addition what the code's own
comment relies on: server_syncs keep coming, requests are answered, handlers
return, and the key share arrives (strong fairness, since its step waits for a
free event loop). `Client` does not assume that a handler of a frame returns:
`HandlerBlocks` may happen at any frame after `<success>`, and the liveness
properties name what it prevents. In `PrekeyPool` the deadline covers the wait for
an answer; `transport.send`, which lies outside of it, is taken to return.

## 4. Proofs

The theorems hold for every value of the constants that the module's named
assumption admits. The assumptions only say that bounds are naturals (positive
where the code divides by them, counts up to them or starts with one), with
four more: ids stay below the 24-bit space of the wire (`PoolAssumption`), the
set of devices is finite (`GroupAssumption`), the callers of a socket's
`disconnect()` are the three the client has (`ClientAssumption`), and the server's
history is any sequence of patches, each a sequence of sets and removes with keys
for it (`PatchesAssumption`).

Every proof has the same outline: an invariant `IInv` with `Init => IInv` and
`IInv /\ [Next]_vars => IInv'`, the latter by one lemma per action, and the
property from it.

| theorem | states |
|---|---|
| `PoolTypeOK`, `PoolPublishedKeysUsable`, `PoolSingleUse` | `TypeOK`, `PublishedKeysUsable`, `SingleUse` of `PrekeyPool` |
| `RatchetTypeOK`, `NoReplayHolds`, `KeysUsedOnceHolds`, `AnyOrderHolds`, `LateKeysKeptHolds` | `TypeOK`, `NoReplay`, `KeysUsedOnce`, `AnyOrder`, `LateKeysKept` of `DoubleRatchet` |
| `NoKeyReuseHolds`, `PreambleKeptInProcessHolds`, `ResendsBoundedHolds`, `OpkSessionsReplayProofHolds` | four of the five invariants of `SignalSession` |
| `SharedSessionDecryptsHolds` | the fifth, `SharedSessionDecrypts`, in every state whose wire has `Room` |
| `HandshakeAgreesHolds`, `NonceNeverReusedHolds`, `NextFrameOpensHolds` | the three invariants of `NoiseTransport` |
| `ImplementsChannelSafety` | each direction implements the safety part of `SecureChannel` |
| `ClientTypeOK`, `NoLeakedConnectionHolds`, `ConnectedIsSupervisedHolds`, `FramesInOrderHolds` | the four invariants of `Client` and its `NoiseSocket` |
| `PairedIsGenuineHolds`, `RotationStopsHolds`, `LinkedKeysKeptHolds` | two invariants and an action property of `Pairing` |
| `GroupKeysFreshHolds`, `ReachesMembersHolds`, `ReplayNeedsRewindHolds` | the three invariants of `GroupMessaging` |
| `SessionsMoveWholeHolds`, `KnownPeerDecryptsHolds` | an invariant and an action property of `Addressing` |
| `AppStateTypeCorrect`, `StoredHashIsServers`, `MacsFollowCursor`, `GenuinePagesVerify`, `EventsFollowCursor` | `TypeOK`, `HashMatchesVersion`, `MacsMatchCursor`, `ServerPagesVerify`, `EventsMatchCursor` of `AppState` |

None of the properties is inductive. What the strengthenings add, and why:

- `PrekeyPool`: key pairs in the store are distinct, below `gen` and unused;
  what is published is a row of the store unless it was used; published OPKs with
  the same id or key are the same. Then `max_id` being above every row shows that
  a new batch overwrites nothing, and a pkmsg that finds its private half proves
  the key unused and takes it out of what is live.
- `DoubleRatchet`: `Sound` is about one state: the sending chain is the one of
  the root key, the receiving chain one DH output shorter, every key in the dict
  is behind the receiving chain and occurs once. A key that is behind and not in
  the dict stays so for ever, since later chains have longer roots: that is
  `Spent`, and replay protection. `Sends` gives A the root keys of even and B those
  of odd length and orders a sender's messages by them. `Lockstep` and `Heard` relate
  the two ends: one is a DH step ahead, and each message on the way belongs to a
  chain the receiver has left, to its current one, or to the one its next
  `_dh_ratchet` computes; `AnyOrder` is that last case. The operators of
  `Ratchet` (`SkipMessageKeys`, `DhRatchet`, `Newest`, `PopSkipped`,
  `RatchetDecrypt`) have lemmas of their own, for arbitrary sound states.
  `LateKeysKept` needs a second invariant, `JInv`, on top of `PairInv`: the dict is
  in the order of the messages (`Sorted`), so what pruning drops is older than all
  it keeps; a sender leaves no gap in a chain and announces its length in `pn`
  (`Unbroken`), and the receiver is not ahead of it (`NotAhead`), so each key in the
  dict belongs to a message that was sent (`Stored`). A key that is lost thus has
  `MaxSkippedTotal` younger messages, counted by an injection from the dict.
- `SignalSession`: what a step does to sessions and wire is one of five things
  (`CoreSteps`): nothing, drop a session, send from one, open one and send from it, or
  replace one by what a ciphertext leads to. `KeyInv` is for any two sessions that meet on
  the wire: A's key pairs are odd and B's even, every root key on the wire or in a session
  ends in key pairs that have been made, a session's sending chain is its own and ahead
  of all it sent (`Fits`), and the sessions of two accounts send on different chains
  (`Paired`). A new session or DH step takes a key pair nobody has used, so its chain is
  new; that is `NoKeyReuse`. `SideInv` types the rest, follows the
  preamble from `meta` to the wire (`PreambleInv`), and counts the copies of a message by
  where its `send_message` stands and what `retried` says (`ResendInv`). `ReplayInv` ties
  everything a session holds to one X3DH secret: an initiator's secret has a key pair
  younger than those before it, and an OPK with which its owner has opened or sent anything is no
  longer stored (`Burnt`). So only the session that spent a key can meet it again, and
  there the key is behind the chain and out of the dict. `SharedSessionDecrypts` takes three
  more invariants on top of these. `ChainInv` reads a header: a key pair sends on one chain,
  a chain is sent without a gap, and the header says which place in it a ciphertext has
  (`Tagged`, `Shaped`, `Follows`). `LockInv` is what `Lockstep` and `Heard` are in
  `DoubleRatchet`, for sessions that are replaced, lost and reloaded: the chains of one
  secret with an OPK have one root per length and announce the one before in `pn`
  (`Paced`), two sessions of that secret are one DH step apart (`Lock`), every stanza of it
  is on a chain the session has left, is on, or turns to next (`Staged`), and while the
  responder still stores the OPK there is only the initiator's first chain (`Stocked`), so
  a session rebuilt from a repeated pkmsg is never behind. `KeepInv` says that the dict
  holds keys of stanzas only (`Stores`) and the key of every unopened one that was passed
  over (`Keeps`). The theorem has a hypothesis the property does not have:
  `Room(wire)`, no more stanzas on the wire than `MaxSkip` and than `MaxSkippedTotal`.
  Without it the property is false by design: `_skip_message_keys` refuses a gap above
  `max_skip` and evicts the oldest keys above `_MAX_SKIPPED_TOTAL`. Where these limits
  bite is what `AnyOrderHolds` and `LateKeysKeptHolds` say exactly, for one session. The
  runs never leave `Room` (the wire never has more than the 10 stanzas both limits allow).
- `NoiseTransport`: the handshake is evaluated symbolically, message by message,
  for an honest and a broken peer. After it, `Place` numbers the frames of a
  direction by how often the cipher was rekeyed and its counter, so that no pair
  comes twice; `OnWire` says that the frames on the way are the accepted ones
  from the delivered ones on, up to where one was refused. The refinement proof
  maps each action to a step of `SecureChannel` or a stutter.
- `Client`: `Reader`, `Line` and `Closer` say, per socket, who keeps a reader
  alive (or that its receiver failed and left it), that queue and pending frames continue what the consumer has got, with
  sentinels last, and what a running `disconnect()` has already done; `Refs` ties
  the client's references (`_sock`, `_bg_task`, the ping loops, `_fatal_task`) to
  those sockets.
- `Pairing`: where `connect` stands determines whether the device has an account;
  the steps of `save_device_store` determine file and temporary file; a save that
  returned binds all a power failure may leave.
- `GroupMessaging`: call *n* takes key *n* of the one chain; the key a device
  holds is what its last effective delivery left, whether it stored the SKDM's key
  or the advanced one, and is past all it decrypted unless an SKDM set it back.
- `Addressing`: nothing refers to a session not yet opened, and a stored session
  of the peer's was built by a pkmsg, so that another one opens only if it named no
  one-time pre-key; only such sessions are rebuilt.
- `AppState`: `Basic` holds always: every cursor, stored, carried or about to be
  written, is the server's at its version, a page begins where the cursor of its
  task ends, and what is pending belongs to the item just decoded. The rest is
  about an undisturbed store. The live value MACs of a version are distinct, so
  the server's LT-hash counts each once, and from rows that are level with version
  *v - 1* a patch *v* adds what it leaves and subtracts what it replaces, also when it
  touches an index twice (`PatchSum`; `SnapshotSum` for a snapshot). `RowsFollow`
  carries the rows through a persist: at every point what is still to be written
  settles each index at the version of the item (the last row put decides, else a
  delete, else the stored row), so that the table is level again after the last
  write. `CursorMoves` says that the task inside `apply_patch_list` has the stored
  cursor and no other task is ahead of it. `EventsInv` follows the value of each
  live index from the item through the page, the earlier pages and the emitting
  task to the application: the nearest place that has a value has the live one.
  It needs that a task whose events another has overtaken can no longer finish
  unnoticed (`Overtaken`: to go on disturbs the store, to fail counts as lost),
  that the task with events of the stored version is ahead of all others
  (`Ahead`), and that one task emits at a time.

Only model-checked:

- liveness and what needs ENABLED, which TLAPS does not reach: `RefillEnds`,
  `SessionEnds`, `KeepaliveCloses`, `DisconnectReturns`, `CatchesUp`, and the
  fairness in `ImplementsChannel`;
- `DecodesWhatWasEncoded`: the operators of `Codec` are recursive, and what they
  compute would need induction over data.

## 5. Not modelled

Cryptography (AES, HKDF, signatures, curve arithmetic) is symbolic: a key or a
hash is the term it was computed from. The layout of protobufs, media transfer,
file permissions, the wording of events and logs are left out, and so are the
parsers without state (history, presence, ib, group metadata). The device
fan-out of usync is a free choice of devices in `GroupMessaging`; in
`SignalSession` each account has one device whose address is known, so no usync
query is made. Edits, revokes and reactions are messages like others to the
sender. In `Addressing` the LID map holds one pair. In `AppState` `full_sync` and
`only_if_not_synced` are left out (no caller sets them), and so is the in-memory
store, which keeps one MAC per index instead of one per version. A `disconnect()`
while `connect()` is under way is left out in `Client` and `Pairing`: their
application awaits one call before the next.

## 6. Plan

1. *Done*: the models of section 2, and the proofs of section 4.
2. Proof left: `SharedSessionDecrypts` beyond `Room`, with the stanza and the key that a
   limit costs, as `AnyOrder` and `LateKeysKept` state them for one session.
3. Models: device lists (usync) in the fan-outs, overlapping `connect` and
   `disconnect`, an abstract collection that an undisturbed fetch of `AppState`
   implements.
