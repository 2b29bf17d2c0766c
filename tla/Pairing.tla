------------------------------ MODULE Pairing ------------------------------
(***************************************************************************)
(* Linking this device to an account, and keeping what that yields:        *)
(* Client.connect's choice between pairing and login, Pairer.run with the  *)
(* QR rotation beside it, the device file (store.py) step by step, and the *)
(* login that follows.  A crash (of the process, or of the machine with    *)
(* what was not yet on disk) may come between any two steps.               *)
(*                                                                         *)
(* A device is known by the number of its key material; jid says whether   *)
(* it holds an account.  A pairing attempt is known by its number, which   *)
(* also names its adv_secret.  The session path is always configured.      *)
(***************************************************************************)
EXTENDS Integers, FiniteSets

CONSTANTS
  MaxKeys,      \* how often make_fresh_device is called
  MaxAttempts,  \* how many times Pairer.run is entered
  MaxIqs,       \* pair-device stanzas of one attempt (the server repeats)
  MaxRefs,      \* refs in one pair-device stanza
  MaxCrashes

ASSUME PairingAssumption ==
  /\ {MaxKeys, MaxAttempts, MaxIqs, MaxRefs} \subseteq Nat \ {0}
  /\ MaxCrashes \in Nat

VARIABLES
  pc,        \* where Client.connect, or the process, stands
  dev,       \* Client._device
  fresh,     \* key materials generated so far
  attempt,   \* Pairers created so far
  iqs,       \* pair-device stanzas this attempt has handled
  rotations, \* the _rotate_qr tasks that still run
  shown,     \* QR payloads the application was given
  scanned,   \* QR payloads a phone has scanned and the server honoured
  reply,     \* keys whose co-signed reply is on the wire, or 0
  unheard,   \* keys whose reply was lost with the connection
  linked,    \* keys the server has linked to the account
  save,      \* where save_device_store stands
  temp,      \* what a power failure would leave in the temporary file
  file,      \* what a process reads at session_path
  disk,      \* what a power failure may leave at session_path
  stored,    \* keys whose save returned after every fsync
  crashes

disk_vars == <<save, temp, file, disk, stored>>
server_vars == <<scanned, reply, unheard, linked>>
run_vars == <<attempt, iqs, rotations, shown>>
vars == <<pc, dev, fresh, crashes, disk_vars, server_vars, run_vars>>

Device == [keys : 1..MaxKeys, jid : BOOLEAN, lid : BOOLEAN]
NoDevice == [keys |-> 0, jid |-> FALSE, lid |-> FALSE]
Torn == [keys |-> -1, jid |-> FALSE, lid |-> FALSE]   \* not valid JSON

\* What load_device_store and from_json make a device of; the path may be free.
Loads(f) == f \in Device \union {NoDevice}

(***************************************************************************)
(* Client.                                                                 *)
(***************************************************************************)

Init ==
  /\ pc = "off" /\ dev = NoDevice /\ fresh = 0 /\ crashes = 0
  /\ attempt = 0 /\ iqs = 0 /\ rotations = {} /\ shown = {}
  /\ scanned = {} /\ reply = 0 /\ unheard = {} /\ linked = {}
  /\ save = "no" /\ temp = NoDevice /\ file = NoDevice /\ disk = {NoDevice}
  /\ stored = {}

\* Client.__init__: a missing file is a client without device; a file that
\* does not parse raises, and the application has no client.
Load ==
  /\ pc = "off" /\ Loads(file)
  /\ dev' = file
  /\ pc' = "idle"
  /\ UNCHANGED <<fresh, crashes, disk_vars, server_vars, run_vars>>

\* The device _run_pairing registers: the one at hand, or a new one.
MakeFresh ==
  IF dev # NoDevice THEN dev
  ELSE [keys |-> fresh + 1, jid |-> FALSE, lid |-> FALSE]

\* connect() without an account: _run_pairing up to the noise handshake.
ConnectToPair ==
  /\ pc = "idle" /\ save = "no"
  /\ ~dev.jid
  /\ MakeFresh.keys <= MaxKeys
  /\ dev' = MakeFresh
  /\ fresh' = IF MakeFresh.keys > fresh THEN MakeFresh.keys ELSE fresh
  /\ pc' = "register"
  /\ UNCHANGED <<crashes, disk_vars, server_vars, run_vars>>

\* connect() with an account: _run_login.
ConnectToLogin ==
  /\ pc = "idle" /\ save = "no"
  /\ dev.jid
  /\ pc' = "login"
  /\ UNCHANGED <<dev, fresh, crashes, disk_vars, server_vars, run_vars>>

\* The handshake with the register payload ends, and a Pairer starts.
Registered ==
  /\ pc = "register" /\ attempt < MaxAttempts
  /\ attempt' = attempt + 1 /\ iqs' = 0
  /\ pc' = "pairing"
  /\ UNCHANGED <<dev, fresh, crashes, disk_vars, server_vars, rotations, shown>>

\* The handshake, or the socket under it, fails.
RegisterFails ==
  /\ pc = "register"
  /\ pc' = "idle"
  /\ UNCHANGED <<dev, fresh, crashes, disk_vars, server_vars, run_vars>>

(***************************************************************************)
(* Pairer.run.  Pings, other stanzas and iqs change nothing here.          *)
(***************************************************************************)

\* encode_qr_payload; the ref itself only names the registration connection.
Payload == [secret |-> attempt, keys |-> dev.keys]

\* How many refs a pair-device iq may carry: none at all raises.
Refs == 1..MaxRefs

\* A pair-device iq with n refs: acked, the first QR shown, and a rotation
\* started for the others.  qr_task then names the new rotation alone.
PairDevice(n) ==
  /\ pc = "pairing" /\ iqs < MaxIqs /\ save = "no"
  /\ iqs' = iqs + 1
  /\ shown' = shown \union {Payload}
  /\ rotations' =
       IF n = 1 THEN rotations
       ELSE {[t EXCEPT !.displaced = @ \/ t.by = attempt] : t \in rotations}
            \union {[by |-> attempt, nth |-> iqs', left |-> n - 1,
                     displaced |-> FALSE]}
  /\ UNCHANGED <<pc, dev, fresh, crashes, disk_vars, server_vars, attempt>>

\* _rotate_qr: one more QR after its interval.
RotateQr ==
  /\ save = "no"
  /\ \E t \in rotations :
       rotations' = (rotations \ {t}) \union
                    {u \in {[t EXCEPT !.left = @ - 1]} : u.left > 0}
  /\ UNCHANGED <<pc, dev, fresh, crashes, disk_vars, server_vars, attempt,
                 iqs, shown>>

\* What run's finally clause leaves of the rotations.
Cancelled_none == rotations

Cancelled == {t \in rotations : t.by # attempt \/ t.displaced}

\* verify_pair_success: the account has signed our identity.
AccountSigned(s) == s.keys = dev.keys

\* _extract_pair_success before it: the HMAC is keyed with this attempt's secret.
Verified_signature_only(s) == AccountSigned(s)

Verified(s) == s.secret = attempt /\ AccountSigned(s)

\* build_pair_success_reply: our identity key signs in turn.
CoSigned == dev.keys

\* What can come as pair-success: what a phone made of a QR it scanned, now
\* or in an earlier attempt, and what was made without knowing a secret.
PairSuccesses == scanned \union [secret : {0}, keys : 1..fresh]

\* A pair-success that verifies is co-signed, and the reply handed to the
\* transport, before anything is recorded.
PairSuccess ==
  /\ pc = "pairing"
  /\ \E s \in PairSuccesses : Verified(s)
  /\ reply' = CoSigned
  /\ pc' = "replying"
  /\ UNCHANGED <<dev, fresh, crashes, disk_vars, run_vars, scanned, unheard,
                 linked>>

\* The reply was sent: run fills in the device and returns; _run_pairing
\* then saves it.
Replied ==
  /\ pc = "replying"
  /\ dev' = [dev EXCEPT !.jid = TRUE]
  /\ rotations' = Cancelled
  /\ pc' = "paired" /\ save' = "begin"
  /\ UNCHANGED <<fresh, crashes, temp, file, disk, stored, server_vars,
                 attempt, iqs, shown>>

\* Timeout, a failure stanza, a pair-success that does not verify, a dead
\* connection, or a cancelled connect(): run raises.
PairingFails ==
  /\ pc \in {"pairing", "replying"}
  /\ rotations' = Cancelled
  /\ pc' = "idle"
  /\ UNCHANGED <<dev, fresh, crashes, disk_vars, server_vars, attempt, iqs,
                 shown>>

(***************************************************************************)
(* The phone and the server.                                               *)
(***************************************************************************)

\* The server honours a ref as long as its registration connection is up.
Scan ==
  /\ pc = "pairing"
  /\ \E q \in shown : q.secret = attempt /\ scanned' = scanned \union {q}
  /\ UNCHANGED <<pc, dev, fresh, crashes, disk_vars, run_vars, reply, unheard,
                 linked>>

ServerLinks ==
  /\ reply # 0
  /\ linked' = linked \union {reply} /\ reply' = 0
  /\ UNCHANGED <<pc, dev, fresh, crashes, disk_vars, run_vars, scanned, unheard>>

ReplyLost ==
  /\ reply # 0
  /\ unheard' = unheard \union {reply} /\ reply' = 0
  /\ UNCHANGED <<pc, dev, fresh, crashes, disk_vars, run_vars, scanned, linked>>

(***************************************************************************)
(* save_device_store.  It runs without an await: only a crash interleaves.  *)
(***************************************************************************)

Mkstemp ==
  /\ save = "begin"
  /\ save' = "temp" /\ temp' = Torn
  /\ UNCHANGED <<pc, dev, fresh, crashes, file, disk, stored, server_vars, run_vars>>

\* What fsync of the temporary file guarantees.
Fsync_skipped == temp

Fsync == dev

WriteTemp ==
  /\ save = "temp"
  /\ save' = "written" /\ temp' = Fsync
  /\ UNCHANGED <<pc, dev, fresh, crashes, file, disk, stored, server_vars, run_vars>>

Replace ==
  /\ save = "written"
  /\ save' = "replaced" /\ file' = dev /\ disk' = disk \union {temp}
  /\ UNCHANGED <<pc, dev, fresh, crashes, temp, stored, server_vars, run_vars>>

\* `paired' is emitted and the login follows; a save for <success> goes on.
Resume == IF pc = "paired" THEN "login" ELSE pc

\* The directory is synced, or that fails and is ignored.
SyncDirectory ==
  /\ save = "replaced"
  /\ \/ disk' = {temp} /\ stored' = stored \union {dev.keys}
     \/ UNCHANGED <<disk, stored>>
  /\ save' = "no" /\ pc' = Resume
  /\ UNCHANGED <<dev, fresh, crashes, temp, file, server_vars, run_vars>>

\* An OSError before the rename: out of _run_pairing it raises, with the
\* account in memory only; on_success logs it.
SaveFails ==
  /\ save \in {"begin", "temp", "written"}
  /\ save' = "no" /\ pc' = IF pc = "paired" THEN "idle" ELSE pc
  /\ UNCHANGED <<dev, fresh, crashes, temp, file, disk, stored, server_vars,
                 run_vars>>

(***************************************************************************)
(* Login, success, disconnect, crash.                                      *)
(***************************************************************************)

\* build_login_payload, and what the server makes of it.
LoginPayload == [keys |-> dev.keys, jid |-> dev.jid]
Recognised(payload) == payload.jid /\ payload.keys \in linked

LoggedIn ==
  /\ pc = "login" /\ Recognised(LoginPayload)
  /\ pc' = "connected"
  /\ UNCHANGED <<dev, fresh, crashes, disk_vars, server_vars, run_vars>>

\* A login that fails, or one the server refuses (`logged_out').
LoginFails ==
  /\ pc = "login"
  /\ pc' = "idle"
  /\ UNCHANGED <<dev, fresh, crashes, disk_vars, server_vars, run_vars>>

\* <success>: _persist_success_state records the LID, if one is named, and
\* saves the device either way.
Success ==
  /\ pc = "connected" /\ save = "no"
  /\ \E named \in BOOLEAN : dev' = [dev EXCEPT !.lid = @ \/ named]
  /\ save' = "begin"
  /\ UNCHANGED <<pc, fresh, crashes, temp, file, disk, stored, server_vars,
                 run_vars>>

Disconnect ==
  /\ pc = "connected" /\ save = "no"
  /\ pc' = "idle"
  /\ UNCHANGED <<dev, fresh, crashes, disk_vars, server_vars, run_vars>>

\* The process dies, alone or with the machine.
Crash ==
  /\ pc # "off" /\ crashes < MaxCrashes
  /\ crashes' = crashes + 1
  /\ pc' = "off" /\ dev' = NoDevice /\ rotations' = {}
  /\ save' = "no" /\ temp' = NoDevice
  /\ \/ UNCHANGED <<file, disk>>
     \/ \E left \in disk : file' = left /\ disk' = {left}
  /\ UNCHANGED <<fresh, stored, server_vars, attempt, iqs, shown>>

Next ==
  \/ Load \/ ConnectToPair \/ ConnectToLogin \/ Registered \/ RegisterFails
  \/ \E n \in Refs : PairDevice(n)
  \/ RotateQr \/ Scan \/ PairSuccess \/ Replied \/ PairingFails
  \/ ServerLinks \/ ReplyLost
  \/ Mkstemp \/ WriteTemp \/ Replace \/ SyncDirectory \/ SaveFails
  \/ LoggedIn \/ LoginFails \/ Success \/ Disconnect \/ Crash

Spec == Init /\ [][Next]_vars

(***************************************************************************)
(* Properties.                                                             *)
(***************************************************************************)

\* Every device that counts as paired, in memory, in the file or in what a
\* power failure would leave there, was scanned from a QR that one of our
\* attempts showed, and its reply went out: it is linked, about to be, or
\* the reply was lost.  Nothing else is ever written ("no partial state is
\* persisted", Pairer.run): what is on disk is a whole, paired device.
PairedIsGenuine ==
  /\ \A d \in {dev, file} \union disk :
       d.jid => /\ \E q \in scanned : q.keys = d.keys /\ q \in shown
                /\ d.keys \in linked \union unheard \union {reply}
  /\ \A d \in {file} \union disk : d = NoDevice \/ d.jid

\* The keys of a linked device are not lost: they stay in memory through
\* failed saves, failed logins and further attempts, and once a save has
\* returned they survive every crash as well.
Held(k) == k \in {dev.keys, file.keys}
LinkedKeysKept ==
  [][\A k \in linked :
       Held(k) => Held(k)' \/ (pc' = "off" /\ k \notin stored)]_vars

\* After Pairer.run has ended no rotation shows QRs any more, except one
\* that a second pair-device stanza displaced from qr_task.
RotationStops ==
  \A t \in rotations :
    t.displaced \/ (t.by = attempt /\ pc \in {"pairing", "replying"})
=============================================================================
