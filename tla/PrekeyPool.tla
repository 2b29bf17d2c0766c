------------------------------ MODULE PrekeyPool ------------------------------
(***************************************************************************)
(* The pool of one-time pre-keys (OPKs) of one account.                    *)
(*                                                                         *)
(* messaging/prekey.py PrekeyUploader generates batches of OPKs, stores    *)
(* the private halves in the `prekeys' table and publishes the public      *)
(* halves; the server hands each published OPK to one peer; the peer's     *)
(* pkmsg names the OPK id and messaging/receiver.py looks the private half *)
(* up, completes X3DH and deletes it.  Every connection runs one uploader  *)
(* (messaging/activator.py), and nothing cancels the uploader of an older  *)
(* connection, so several may be under way.                                *)
(*                                                                         *)
(* Data abstraction: a key pair is the number of the generate_pre_key call *)
(* that made it (every call makes another pair), NoKey is a missing row.   *)
(***************************************************************************)
EXTENDS Integers, FiniteSets

CONSTANTS Conns,    \* the connections that run an uploader
          Count,    \* PrekeyUploader.count: keys of one batch (50 in the code)
          MinCount, \* MIN_PRE_KEY_COUNT: upload only below it (5 in the code)
          MaxId,    \* bound: the highest OPK id the model allocates
          MaxGen,   \* bound: calls of generate_pre_key
          IdSpace   \* ids on the wire are 3 bytes: 2^24 in the code

ASSUME PoolAssumption ==
    /\ Count \in Nat \ {0}
    /\ MinCount \in Nat
    /\ MaxId \in Nat
    /\ MaxGen \in Nat
    /\ IdSpace \in Nat \ {0}
    /\ MaxId < IdSpace

VARIABLES
    store,    \* the prekeys table: id -> private half, or NoKey
    gen,      \* number of key pairs generated so far
    pc,       \* per connection: where its refill_if_low coroutine stands
    reply,    \* per connection: the server's answer waiting in the PendingIqMap
    inflight, \* upload stanzas on their way to the server
    server,   \* published OPKs the server still holds
    handed,   \* OPKs in the bundles that peers have fetched
    used      \* history: per key pair, the sessions it established

vars == <<store, gen, pc, reply, inflight, server, handed, used>>

NoKey == 0
NoReply == -1
Id == 1 .. MaxId
Key == 1 .. MaxGen
Opk == [id : Id, key : Key]
States == {"off", "counting", "uploading", "done", "failed"}

(* What an OPK id becomes in a stanza: the low three bytes.                *)
Id3(id) == id % IdSpace

-----------------------------------------------------------------------------
(***************************************************************************)
(* The prekey store: max_id, and save for the rows of one batch.           *)
(***************************************************************************)
Rows == {i \in Id : store[i] # NoKey}

MaxRow(S) == IF S = {} THEN 0 ELSE CHOOSE m \in S : \A n \in S : n <= m

\* Mutant: the next id counted from the number of rows instead of their maximum.
max_id_from_len == Cardinality(Rows)

max_id == MaxRow(Rows)

\* The first k keys that upload() generates past the id base, as it saves them.
Saved(base, k) == [i \in Id |-> IF i \in base + 1 .. base + k
                                THEN gen + (i - base) ELSE store[i]]

\* Mutant: the id range of a batch runs one past its end.
Batch_inclusive(base, k) == {[id |-> base + o, key |-> gen + o] : o \in 1 .. k + 1}

Batch(base, k) == {[id |-> base + o, key |-> gen + o] : o \in 1 .. k}

\* Mutant: the row of a used OPK is kept.
KeepRow(id) == store

\* consume_one_time_pre_key: delete the row.
Consume(id) == [store EXCEPT ![id] = NoKey]

-----------------------------------------------------------------------------
Init ==
    /\ store = [i \in Id |-> NoKey]
    /\ gen = 0
    /\ pc = [c \in Conns |-> "off"]
    /\ reply = [c \in Conns |-> NoReply]
    /\ inflight = {}
    /\ server = {}
    /\ handed = {}
    /\ used = [k \in Key |-> 0]

(***************************************************************************)
(* refill_if_low begins when <success> arrives: the count query goes out.  *)
(***************************************************************************)
RefillIfLow(c) ==
    /\ pc[c] = "off"
    /\ pc' = [pc EXCEPT ![c] = "counting"]
    /\ UNCHANGED <<store, gen, reply, inflight, server, handed, used>>

(***************************************************************************)
(* The server answers the count query; the answer resolves the pending iq. *)
(***************************************************************************)
ServerCount(c) ==
    /\ pc[c] = "counting"
    /\ reply[c] = NoReply
    /\ reply' = [reply EXCEPT ![c] = Cardinality(server)]
    /\ UNCHANGED <<store, gen, pc, inflight, server, handed, used>>

(***************************************************************************)
(* The count is back and the pool is healthy: refill_if_low returns 0.     *)
(***************************************************************************)
PoolHealthy(c) ==
    /\ pc[c] = "counting"
    /\ reply[c] >= MinCount
    /\ pc' = [pc EXCEPT ![c] = "done"]
    /\ reply' = [reply EXCEPT ![c] = NoReply]
    /\ UNCHANGED <<store, gen, inflight, server, handed, used>>

(***************************************************************************)
(* The count is back and low: upload() generates and saves the whole batch *)
(* without an await, then sends it.  sent says whether transport.send      *)
(* raised, in which case the exception ends the refill and the saved rows  *)
(* stay.                                                                   *)
(***************************************************************************)
Upload(c, sent) ==
    LET base == max_id
    IN  /\ pc[c] = "counting"
        /\ reply[c] # NoReply
        /\ reply[c] < MinCount
        /\ base + Count <= MaxId
        /\ gen + Count <= MaxGen
        /\ store' = Saved(base, Count)
        /\ gen' = gen + Count
        /\ reply' = [reply EXCEPT ![c] = NoReply]
        /\ IF sent
           THEN /\ inflight' = inflight \cup {[for |-> {c}, opks |-> Batch(base, Count)]}
                /\ pc' = [pc EXCEPT ![c] = "uploading"]
           ELSE /\ pc' = [pc EXCEPT ![c] = "failed"]
                /\ UNCHANGED inflight
        /\ UNCHANGED <<server, handed, used>>

(***************************************************************************)
(* An iq answer, result or error, resolves the future if it is pending.    *)
(***************************************************************************)
Answer(u) == [c \in Conns |-> IF c \in u.for /\ pc[c] = "uploading" THEN 0 ELSE reply[c]]

(***************************************************************************)
(* The server files an upload: rows with the same wire id are replaced.    *)
(***************************************************************************)
ServerAccept(u) ==
    /\ u \in inflight
    /\ inflight' = inflight \ {u}
    /\ server' = {s \in server : \A o \in u.opks : Id3(o.id) # Id3(s.id)} \cup u.opks
    /\ reply' = Answer(u)
    /\ UNCHANGED <<store, gen, pc, handed, used>>

(***************************************************************************)
(* The server answers with <iq type="error">: upload() does not look at    *)
(* the type, so the waiting coroutine takes it for success.                *)
(***************************************************************************)
ServerReject(u) ==
    /\ u \in inflight
    /\ inflight' = inflight \ {u}
    /\ reply' = Answer(u)
    /\ UNCHANGED <<store, gen, pc, server, handed, used>>

(***************************************************************************)
(* The connection breaks before the server reads the upload.               *)
(***************************************************************************)
LoseUpload(u) ==
    /\ u \in inflight
    /\ inflight' = inflight \ {u}
    /\ UNCHANGED <<store, gen, pc, reply, server, handed, used>>

(***************************************************************************)
(* The upload result is in: upload() returns.                              *)
(***************************************************************************)
UploadDone(c) ==
    /\ pc[c] = "uploading"
    /\ reply[c] # NoReply
    /\ pc' = [pc EXCEPT ![c] = "done"]
    /\ reply' = [reply EXCEPT ![c] = NoReply]
    /\ UNCHANGED <<store, gen, inflight, server, handed, used>>

(***************************************************************************)
(* asyncio.timeout fires while the count or the upload result is awaited   *)
(* (also when the answer has come in but the coroutine has not run since), *)
(* or the count answer does not parse: the iq is cancelled and the         *)
(* activator logs the exception and goes on.                               *)
(***************************************************************************)
GiveUp(c, awaited) ==
    /\ pc[c] \in awaited
    /\ pc' = [pc EXCEPT ![c] = "failed"]
    /\ reply' = [reply EXCEPT ![c] = NoReply]
    /\ UNCHANGED <<store, gen, inflight, server, handed, used>>

\* Mutant: the upload result is awaited without a deadline.
Timeout_count_only(c) == GiveUp(c, {"counting"})

Timeout(c) == GiveUp(c, {"counting", "uploading"})

(***************************************************************************)
(* A peer fetches a bundle: the server gives one OPK away for good.        *)
(***************************************************************************)
HandOut(o) ==
    /\ o \in server
    /\ server' = server \ {o}
    /\ handed' = handed \cup {o}
    /\ UNCHANGED <<store, gen, pc, reply, inflight, used>>

(***************************************************************************)
(* A pkmsg built from the OPK o arrives.  The peer repeats the preamble    *)
(* until it hears from us, so the same bundle may arrive again.  A missing *)
(* row ("unknown one-time pre-key id") or another private half (the MAC    *)
(* does not verify) raises before anything is written; success deletes the *)
(* row in the transaction that saves the session.                          *)
(***************************************************************************)
ReceivePkmsg(o) ==
    /\ o \in handed
    /\ Id3(o.id) \in Rows
    /\ store[Id3(o.id)] = o.key
    /\ store' = Consume(Id3(o.id))
    /\ used' = [used EXCEPT ![o.key] = @ + 1]
    /\ UNCHANGED <<gen, pc, reply, inflight, server, handed>>

(***************************************************************************)
(* The process dies and starts again: coroutines and pending iqs are gone, *)
(* the SQLite table is as it was.  Each save commits on its own, so a      *)
(* crash inside upload() leaves the first k rows of a batch behind.  The   *)
(* uploads on their way have nobody waiting for them any more.             *)
(***************************************************************************)
Restart ==
    /\ pc' = [c \in Conns |-> "off"]
    /\ reply' = [c \in Conns |-> NoReply]
    /\ inflight' = {[u EXCEPT !.for = {}] : u \in inflight}

Crash ==
    /\ Restart
    /\ UNCHANGED <<store, gen, server, handed, used>>

CrashInUpload(c, k) ==
    /\ pc[c] = "counting"
    /\ reply[c] # NoReply
    /\ reply[c] < MinCount
    /\ max_id + k <= MaxId
    /\ gen + k <= MaxGen
    /\ store' = Saved(max_id, k)
    /\ gen' = gen + k
    /\ Restart
    /\ UNCHANGED <<server, handed, used>>

Next ==
    \/ \E c \in Conns :
        \/ RefillIfLow(c) \/ ServerCount(c) \/ PoolHealthy(c)
        \/ UploadDone(c) \/ Timeout(c)
        \/ \E sent \in BOOLEAN : Upload(c, sent)
        \/ \E k \in 1 .. Count : CrashInUpload(c, k)
    \/ \E u \in inflight : ServerAccept(u) \/ ServerReject(u) \/ LoseUpload(u)
    \/ \E o \in server : HandOut(o)
    \/ \E o \in handed : ReceivePkmsg(o)
    \/ Crash

Spec == Init /\ [][Next]_vars

\* asyncio runs a timer that is due and a coroutine whose future is resolved.
Fairness == \A c \in Conns : WF_vars(Timeout(c) \/ UploadDone(c) \/ PoolHealthy(c))

FairSpec == Spec /\ Fairness

-----------------------------------------------------------------------------
Uploads == [for : SUBSET Conns, opks : SUBSET Opk]

(* Every variable keeps its type: rows, wire messages and histories hold   *)
(* ids and key pairs within the bounds the batches were allocated from.    *)
TypeOK ==
    /\ store \in [Id -> Key \cup {NoKey}]
    /\ gen \in 0 .. MaxGen
    /\ pc \in [Conns -> States]
    /\ reply \in [Conns -> Int]
    /\ inflight \subseteq Uploads
    /\ server \subseteq Opk
    /\ handed \subseteq Opk
    /\ used \in [Key -> Nat]

\* Published OPKs that no session has used: in an upload, at the server, or with a peer.
Live == (UNION {u.opks : u \in inflight}) \cup server
        \cup {o \in handed : used[o.key] = 0}

(* A peer that got an OPK can open a session with it: whatever is in an    *)
(* upload, at the server or in an unused bundle still has exactly its own  *)
(* private half under its id, across timeouts, rejected and lost uploads,  *)
(* overlapping uploaders and crashes inside a batch (upload never writes   *)
(* over a row that a published key depends on).                            *)
PublishedKeysUsable ==
    \A o \in Live : store[Id3(o.id)] = o.key

(* A one-time pre-key is one-time: however often the peer repeats its      *)
(* pkmsg, and although ids come back, one key pair opens one session.      *)
SingleUse == \A k \in Key : used[k] <= 1

(* The activation step never hangs on the pool: whatever is lost, a refill *)
(* that has begun ends, by an answer or by a deadline.                     *)
RefillEnds ==
    \A c \in Conns :
        pc[c] \in {"counting", "uploading"} ~> pc[c] \in {"off", "done", "failed"}
=============================================================================
