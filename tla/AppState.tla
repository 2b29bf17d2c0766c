------------------------------- MODULE AppState -------------------------------
(***************************************************************************)
(* App-state sync of one collection: pywhats.appstate.fetch, .patches,     *)
(* .lthash and the SQLite store behind them.                               *)
(*                                                                         *)
(* Each server_sync notification starts a background task that fetches the *)
(* collection from the stored cursor.  Between awaits a task runs alone on *)
(* the event loop: variable loop names the task that is inside             *)
(* apply_patch_list, and while it is set no other task runs.  Every row    *)
(* is written in autocommit mode, a transaction of its own, so a crash may *)
(* fall between any two of them.                                           *)
(*                                                                         *)
(* The LT-hash, a sum of expanded value MACs, is the formal sum: how many  *)
(* times each MAC was added less the times it was subtracted.  A snapshot  *)
(* MAC verifies when that sum is the server's sum at the same version.     *)
(***************************************************************************)
EXTENDS Integers, Sequences, FiniteSets, FiniteSetsExt

CONSTANTS
    Fetches,    \* background fetch tasks that may be alive together
    Indexes,    \* index MACs of the collection
    Keys,       \* app-state sync keys
    Patches,    \* Patches[v]: the mutations [op, index] that make version v
    PatchKey,   \* PatchKey[v]: the key id of patch v and of a snapshot at v
    RecordKey,  \* RecordKey[i]: the key id of the records of index i
    PageSize,   \* most patches in one answer of the server
    MaxFaults,  \* failed requests, bad pages and crashes of a behaviour
    Nobody      \* the value of loop when no task is inside apply_patch_list

Versions == 0 .. Len(Patches)

ASSUME PatchesAssumption ==
    /\ Patches \in Seq(Seq([op : {"SET", "REMOVE"}, index : Indexes]))
    /\ PatchKey \in [1 .. Len(Patches) -> Keys]
    /\ RecordKey \in [Indexes -> Keys]
ASSUME FetchesAssumption == Nobody \notin Fetches
ASSUME BoundsAssumption == PageSize \in Nat \ {0} /\ MaxFaults \in Nat

\* The value MAC of mutation j of patch v is the pair <<v, j>>.
NoMac == <<0, 0>>
Macs == UNION {{<<v, j>> : j \in DOMAIN Patches[v]} : v \in DOMAIN Patches}
NothingSet == [i \in Indexes |-> NoMac]

-----------------------------------------------------------------------------
(* The server's side: the value each index has at a version.               *)

OfIndex(v, i) == {j \in DOMAIN Patches[v] : Patches[v][j].index = i}

\* What the mutations of index i in patch v leave of it: the last one decides.
ValueIn(v, i) ==
    LET j == Max(OfIndex(v, i))
    IN  IF Patches[v][j].op = "SET" THEN <<v, j>> ELSE NoMac

\* The last patch up to version v that touches the index decides.
ValueAt(v, i) ==
    LET touching == {u \in 1 .. v : OfIndex(u, i) # {}}
    IN  IF touching = {} THEN NoMac ELSE ValueIn(Max(touching), i)

LiveAt == [v \in Versions |-> [i \in Indexes |-> ValueAt(v, i)]]

LiveIndexes(v) == {i \in Indexes : LiveAt[v][i] # NoMac}

ServerHash == [v \in Versions |->
    [m \in Macs |-> IF \E i \in Indexes : LiveAt[v][i] = m THEN 1 ELSE 0]]

EmptyHash == [m \in Macs |-> 0]

-----------------------------------------------------------------------------
VARIABLES
    sver,       \* the server's version of the collection
    keys,       \* app_state_sync_keys table
    store,      \* app_state_version row and app_state_mutation_macs table
    fetch,      \* local variables of each fetch task
    loop,       \* the task inside apply_patch_list, or Nobody
    result,     \* its PatchDecodeResult: the next cursor and the events
    pageMuts,   \* its all_mutations: the events of this page so far
    writes,     \* the store writes _persist has still to make, one per row
    view,       \* what the application learnt from the events emitted to it
    disturbed,  \* history: a page met a moved cursor, or a crash tore a persist
    lossy,      \* history: persisted mutations were never handed over, or two
                \* tasks handed theirs over at the same time
    faults      \* failures still to come

vars == <<sver, keys, store, fetch, loop, result, pageMuts, writes, view,
          disturbed, lossy, faults>>

NoPage == [snapshot |-> 0, next |-> 1, upto |-> 0, more |-> FALSE]

\* HashState(): the cursor of a collection never synced.
NeverSynced == [version |-> 0, hash |-> EmptyHash]

Idle == [pc |-> "idle", state |-> NeverSynced, want |-> FALSE,
         page |-> NoPage, muts |-> NothingSet]

NoResult == [state |-> NeverSynced, muts |-> NothingSet]

Cursor == [version |-> store.version, hash |-> store.hash]

-----------------------------------------------------------------------------
(* The mutation MAC table.                                                 *)

\* Mutant: ORDER BY version without DESC.
GetMutationMac_oldest(i) ==
    LET rows == {r \in store.rows : r.index = i}
    IN  IF rows = {} THEN NoMac
        ELSE (CHOOSE r \in rows : \A s \in rows : s.version >= r.version).mac

\* The value MAC of an index at its newest version.
GetMutationMac(i) ==
    LET rows == {r \in store.rows : r.index = i}
    IN  IF rows = {} THEN NoMac
        ELSE (CHOOSE r \in rows : \A s \in rows : s.version <= r.version).mac

PutRow(rows, new) ==
    {r \in rows : <<r.version, r.index>> # <<new.version, new.index>>} \cup {new}

\* One committed write.
Written(w) ==
    CASE w.kind = "version" -> [store EXCEPT !.version = w.state.version,
                                             !.hash = w.state.hash]
      [] w.kind = "delete"  -> [store EXCEPT !.rows = {r \in @ : r.index # w.index}]
      [] w.kind = "put"     -> [store EXCEPT !.rows = PutRow(@, w.row)]

-----------------------------------------------------------------------------
(* Decoding.                                                               *)

\* Mutant: a patch that touches an index twice is not noticed.
PrevSetValueMac_db_only(v, j) == GetMutationMac(Patches[v][j].index)

\* The value that mutation j of patch v replaces: an earlier mutation of the
\* patch decides if there is one, else the stored value.
PrevSetValueMac(v, j) ==
    LET earlier == {k \in OfIndex(v, Patches[v][j].index) : k < j}
    IN  IF earlier = {} THEN GetMutationMac(Patches[v][j].index)
        ELSE IF Patches[v][Max(earlier)].op = "SET" THEN <<v, Max(earlier)>>
        ELSE NoMac

\* added and removed are bags of MACs, as sets of <<tag, MAC>>.
SubtractThenAdd(h, added, removed) ==
    [m \in Macs |-> h[m] + Cardinality({a \in added : a[2] = m})
                         - Cardinality({r \in removed : r[2] = m})]

UpdateHash(h, v) ==
    LET sets == {j \in DOMAIN Patches[v] : Patches[v][j].op = "SET"}
    IN  SubtractThenAdd(h, {<<j, <<v, j>>>> : j \in sets},
                        {<<j, PrevSetValueMac(v, j)>> : j \in DOMAIN Patches[v]})

SnapshotHash(h, v) == SubtractThenAdd(h, {<<i, LiveAt[v][i]>> : i \in Indexes}, {})

\* Mutant: validate_macs off.
VerifySnapshotMac_skipped(state) == TRUE

\* The snapshot MAC covers hash and version; the server signs its own.
VerifySnapshotMac(state) == state.hash = ServerHash[state.version]

\* How decoding an item ends: its key, then its MAC, then its records' keys.
Outcome(key, state, records) ==
    IF key \notin keys THEN "AppStateKeyNotFound"
    ELSE IF ~VerifySnapshotMac(state) THEN "MacMismatch"
    ELSE IF {RecordKey[i] : i \in records} \subseteq keys THEN "ok"
    ELSE "AppStateKeyNotFound"

\* Only a SET becomes an event, and the last one of an index prevails.
EventsOf(v) ==
    [i \in Indexes |->
        LET sets == {j \in OfIndex(v, i) : Patches[v][j].op = "SET"}
        IN  IF sets = {} THEN NoMac ELSE <<v, Max(sets)>>]

Then(m, n) == [i \in Indexes |-> IF n[i] = NoMac THEN m[i] ELSE n[i]]

\* The writes that _persist makes; at is the place of a row in its list.
PutVersion(state) == [kind |-> "version", at |-> 0, state |-> state]

DeleteMutationMac(at, i) == [kind |-> "delete", at |-> at, index |-> i]

PutMutationMac(at, v, i, mac) ==
    [kind |-> "put", at |-> at, row |-> [version |-> v, index |-> i, mac |-> mac]]

\* The MAC writes of a patch: the indexes it removes, and the values it sets
\* and does not remove later.
ComputeMacDeltas(v) ==
    LET Removes(j) == Patches[v][j].op = "REMOVE"
        Index(j) == Patches[v][j].index
        removed == {j \in DOMAIN Patches[v] : Removes(j)}
        added == {j \in DOMAIN Patches[v] :
                     \A k \in OfIndex(v, Index(j)) : k >= j => ~Removes(k)}
    IN  {DeleteMutationMac(j, Index(j)) : j \in removed}
            \cup {PutMutationMac(j, v, Index(j), <<v, j>>) : j \in added}

SnapshotRow(v, i) == PutMutationMac(0, v, i, LiveAt[v][i])

\* Mutant: removed indexes keep a row without a value.
SnapshotRows_all(v) == {SnapshotRow(v, i) : i \in Indexes}

\* The MAC writes of a snapshot: one row per record, in any order, since the
\* order of the records is the server's.
SnapshotRows(v) == {SnapshotRow(v, i) : i \in LiveIndexes(v)}

\* _persist makes its writes in this order: the version, the removed indexes,
\* the added rows, each list from its start.
Due(w) ==
    \A x \in writes :
        /\ x.kind = "version" => w.kind = "version"
        /\ x.kind = "delete" => w.kind # "put"
        /\ x.kind = w.kind => w.at <= x.at

-----------------------------------------------------------------------------
(* The environment.                                                        *)

Init ==
    /\ sver = 0
    /\ keys = {}
    /\ store = [version |-> 0, hash |-> EmptyHash, rows |-> {}]
    /\ fetch = [f \in Fetches |-> Idle]
    /\ loop = Nobody
    /\ result = NoResult
    /\ pageMuts = NothingSet
    /\ writes = {}
    /\ view = NothingSet
    /\ disturbed = FALSE
    /\ lossy = FALSE
    /\ faults = MaxFaults

applyVars == <<result, pageMuts, writes>>
history == <<disturbed, lossy>>

\* Another device changes the collection.
ServerPatch ==
    /\ loop = Nobody
    /\ sver < Len(Patches)
    /\ sver' = sver + 1
    /\ UNCHANGED <<keys, store, fetch, loop, applyVars, view, history, faults>>

\* An APP_STATE_SYNC_KEY_SHARE from our own account: all its keys land in one
\* transaction.
StoreAppStateKeys ==
    /\ loop = Nobody
    /\ \E share \in SUBSET Keys : share # {} /\ share \cap keys = {}
                                  /\ keys' = keys \cup share
    /\ UNCHANGED <<sver, store, fetch, loop, applyVars, view, history, faults>>

-----------------------------------------------------------------------------
(* A fetch task.                                                           *)

\* Mutant: only_if_not_synced where a server_sync asks for news.
Fetch_only_if_not_synced(f) ==
    /\ loop = Nobody
    /\ fetch[f].pc = "idle"
    /\ fetch' = IF store.version > 0 THEN fetch
                ELSE [fetch EXCEPT ![f] = [Idle EXCEPT !.pc = "wait", !.want = TRUE]]
    /\ UNCHANGED <<sver, keys, store, loop, applyVars, view, history, faults>>

\* A server_sync notification starts a task: it reads the cursor and sends
\* its first request, which wants a snapshot when nothing was ever synced.
Fetch(f) ==
    /\ loop = Nobody
    /\ fetch[f].pc = "idle"
    /\ fetch' = [fetch EXCEPT ![f] = [Idle EXCEPT !.pc = "wait", !.state = Cursor,
                                                  !.want = store.version = 0]]
    /\ UNCHANGED <<sver, keys, store, loop, applyVars, view, history, faults>>

\* The server's choice of a page: a snapshot when asked for one, then the
\* patches that follow, at least one if there is one.
Pages(version, want) ==
    LET From(snapshot, after) ==
            {[snapshot |-> snapshot, next |-> after + 1, upto |-> n, more |-> n < sver] :
                n \in {m \in after .. sver : m <= after + PageSize}}
    IN  IF want /\ sver > 0 THEN UNION {From(v, v) : v \in 1 .. sver}
        ELSE {p \in From(0, version) : p.upto > version \/ version = sver}

Answer(f) ==
    /\ loop = Nobody
    /\ fetch[f].pc = "wait"
    /\ \E p \in Pages(fetch[f].state.version, fetch[f].want) :
         fetch' = [fetch EXCEPT ![f].pc = "page", ![f].page = p]
    /\ UNCHANGED <<sver, keys, store, loop, applyVars, view, history, faults>>

\* The page is parsed (and what is external downloaded): apply_patch_list
\* begins, from the cursor the task carries, whatever the store now holds.
ApplyPatchList(f) ==
    /\ loop = Nobody
    /\ fetch[f].pc = "page"
    /\ loop' = f
    /\ pageMuts' = NothingSet
    /\ fetch' = [fetch EXCEPT ![f].want = FALSE]
    /\ disturbed' = (disturbed \/ fetch[f].state # Cursor)
    /\ UNCHANGED <<sver, keys, store, result, writes, view, lossy, faults>>

\* Some event of this task was persisted past and not handed over.
Undelivered(f) ==
    \/ fetch[f].muts # NothingSet
    \/ loop = f /\ pageMuts # NothingSet

\* The task ends with an exception, which handle_server_sync logs.
Raise(f) ==
    /\ fetch' = [fetch EXCEPT ![f] = Idle]
    /\ loop' = Nobody
    /\ result' = NoResult
    /\ pageMuts' = NothingSet
    /\ writes' = {}
    /\ lossy' = (lossy \/ Undelivered(f))
    /\ UNCHANGED <<sver, keys, store, view>>

Emitting(f) == fetch[f].pc = "emit"

\* The loop over the pages ends: the mutations of the pages it completed, but
\* not the events unsent of one it gave up, go to _emit_app_state_events.
Finish(f, muts, unsent) ==
    /\ fetch' = [fetch EXCEPT ![f] = IF muts = NothingSet THEN Idle
                                     ELSE [Idle EXCEPT !.pc = "emit", !.muts = muts]]
    /\ loop' = Nobody
    /\ result' = NoResult
    /\ pageMuts' = NothingSet
    /\ lossy' = \/ lossy
                \/ unsent # NothingSet
                \/ muts # NothingSet /\ \E g \in Fetches : Emitting(g)
    /\ UNCHANGED <<sver, keys, store, writes, view, disturbed, faults>>

\* One event reaches the application, whose handler is awaited.
Emit(f) ==
    /\ loop = Nobody
    /\ Emitting(f)
    /\ \E i \in Indexes :
         LET left == [fetch[f].muts EXCEPT ![i] = NoMac]
         IN  /\ fetch[f].muts[i] # NoMac
             /\ view' = [view EXCEPT ![i] = fetch[f].muts[i]]
             /\ fetch' = [fetch EXCEPT ![f] = IF left = NothingSet THEN Idle
                                              ELSE [@ EXCEPT !.muts = left]]
    /\ UNCHANGED <<sver, keys, store, loop, applyVars, history, faults>>

\* One item of the page, decoded against the cursor the task carries: persist
\* it and go on (advanced is the task past the item); give the page up for
\* want of a key; or fail.
Decode(f, outcome, state, events, deltas, advanced) ==
    \/ /\ outcome = "ok"
       /\ result' = [state |-> state, muts |-> events]
       /\ writes' = {PutVersion(state)} \cup deltas
       /\ fetch' = advanced
       /\ UNCHANGED <<sver, keys, store, loop, pageMuts, view, history, faults>>
    \/ /\ outcome = "AppStateKeyNotFound"
       /\ Finish(f, fetch[f].muts, pageMuts)
    \/ /\ outcome = "MacMismatch"
       /\ Raise(f)
       /\ UNCHANGED <<disturbed, faults>>

SnapshotState(f) ==
    [version |-> fetch[f].page.snapshot,
     hash |-> SnapshotHash(fetch[f].state.hash, fetch[f].page.snapshot)]

SnapshotOutcome(f) ==
    LET v == fetch[f].page.snapshot
    IN  Outcome(PatchKey[v], SnapshotState(f), LiveIndexes(v))

DecodeSnapshot(f) ==
    LET v == fetch[f].page.snapshot
    IN  /\ loop = f /\ writes = {}
        /\ v > 0
        /\ \E outcome \in {SnapshotOutcome(f)} :
             Decode(f, outcome, SnapshotState(f), LiveAt[v], SnapshotRows(v),
                    [fetch EXCEPT ![f].page.snapshot = 0])

PatchState(f) ==
    [version |-> fetch[f].page.next,
     hash |-> UpdateHash(fetch[f].state.hash, fetch[f].page.next)]

PatchOutcome(f) ==
    LET v == fetch[f].page.next
    IN  Outcome(PatchKey[v], PatchState(f), {i \in Indexes : OfIndex(v, i) # {}})

PatchesLeft(f) == fetch[f].page.next <= fetch[f].page.upto

DecodePatch(f) ==
    LET v == fetch[f].page.next
    IN  /\ loop = f /\ writes = {}
        /\ fetch[f].page.snapshot = 0
        /\ PatchesLeft(f)
        /\ \E outcome \in {PatchOutcome(f)} :
             Decode(f, outcome, PatchState(f), EventsOf(v), ComputeMacDeltas(v),
                    [fetch EXCEPT ![f].page.next = v + 1])

\* The next write of _persist; after the last one the task takes the item's
\* cursor and mutations over.
Persist(f) ==
    /\ loop = f
    /\ \E w \in writes :
         /\ Due(w)
         /\ store' = Written(w)
         /\ writes' = writes \ {w}
    /\ IF writes' = {}
       THEN /\ fetch' = [fetch EXCEPT ![f].state = result.state]
            /\ pageMuts' = Then(pageMuts, result.muts)
            /\ result' = NoResult
       ELSE UNCHANGED <<fetch, pageMuts, result>>
    /\ UNCHANGED <<sver, keys, loop, view, history, faults>>

\* Mutant: only the last page is handed over.
PageDone_last_page(f) ==
    /\ loop = f /\ writes = {}
    /\ fetch[f].page.snapshot = 0
    /\ ~PatchesLeft(f)
    /\ \/ /\ fetch[f].page.more
          /\ fetch' = [fetch EXCEPT ![f].pc = "wait", ![f].page = NoPage]
          /\ loop' = Nobody
          /\ pageMuts' = NothingSet
          /\ UNCHANGED <<sver, keys, store, result, writes, view, history, faults>>
       \/ ~fetch[f].page.more /\ Finish(f, pageMuts, NothingSet)

\* The page is done: ask for the next one, or hand the mutations over.
PageDone(f) ==
    LET muts == Then(fetch[f].muts, pageMuts)
    IN  /\ loop = f /\ writes = {}
        /\ fetch[f].page.snapshot = 0
        /\ ~PatchesLeft(f)
        /\ \/ /\ fetch[f].page.more
              /\ fetch' = [fetch EXCEPT ![f].pc = "wait", ![f].page = NoPage,
                                        ![f].muts = muts]
              /\ loop' = Nobody
              /\ pageMuts' = NothingSet
              /\ UNCHANGED <<sver, keys, store, result, writes, view, history, faults>>
           \/ ~fetch[f].page.more /\ Finish(f, muts, NothingSet)

-----------------------------------------------------------------------------
(* Failures.                                                               *)

\* The request, its answer or a download of the page fails.
RequestFails(f) ==
    /\ loop = Nobody
    /\ faults > 0
    /\ fetch[f].pc \in {"wait", "page"}
    /\ Raise(f)
    /\ faults' = faults - 1
    /\ UNCHANGED disturbed

\* An item of the page does not verify or decrypt.
BadItem(f) ==
    /\ loop = f /\ writes = {}
    /\ faults > 0
    /\ fetch[f].page.snapshot > 0 \/ PatchesLeft(f)
    /\ Raise(f)
    /\ faults' = faults - 1
    /\ UNCHANGED disturbed

\* The process dies and is started again: the tables are all that is left.
Torn == writes # {} /\ \A w \in writes : w.kind # "version"

Restart ==
    /\ faults > 0
    /\ faults' = faults - 1
    /\ fetch' = [f \in Fetches |-> Idle]
    /\ loop' = Nobody
    /\ result' = NoResult
    /\ pageMuts' = NothingSet
    /\ writes' = {}
    /\ disturbed' = (disturbed \/ Torn)
    /\ lossy' = (lossy \/ \E f \in Fetches : Undelivered(f))
    /\ UNCHANGED <<sver, keys, store, view>>

\* What a task, or the server on its behalf, does next: one of these at a time.
Step(f) ==
    \/ Fetch(f) \/ Answer(f) \/ ApplyPatchList(f)
    \/ DecodeSnapshot(f) \/ DecodePatch(f) \/ Persist(f) \/ PageDone(f)
    \/ Emit(f)

Next ==
    \/ ServerPatch
    \/ StoreAppStateKeys
    \/ Restart
    \/ \E f \in Fetches : Step(f) \/ RequestFails(f) \/ BadItem(f)

Spec == Init /\ [][Next]_vars

\* The event loop runs what is ready; the server keeps notifying and answers
\* what it is asked; the application's handlers return; the phone shares its
\* keys in the end.
FairSpec ==
    /\ Spec
    /\ SF_vars(StoreAppStateKeys)
    /\ \A f \in Fetches : WF_vars(Step(f))

-----------------------------------------------------------------------------
(* Properties.                                                             *)

HashStates == [version : Versions, hash : [Macs -> {0, 1}]]
Values == [Indexes -> Macs \cup {NoMac}]
Rows == [version : Versions, index : Indexes, mac : Macs]
Writes == [kind : {"version"}, at : Nat, state : HashStates]
            \cup [kind : {"delete"}, at : Nat, index : Indexes]
            \cup [kind : {"put"}, at : Nat, row : Rows]

Stores == [version : Versions, hash : [Macs -> {0, 1}], rows : SUBSET Rows]
PageLists == [snapshot : Versions, next : 1 .. Len(Patches) + 1, upto : Versions,
              more : BOOLEAN]
Tasks == [pc : {"idle", "wait", "page", "emit"}, state : HashStates, want : BOOLEAN,
          page : PageLists, muts : Values]
Results == [state : HashStates, muts : Values]

\* Every variable keeps its shape; in particular no cursor, stored or carried,
\* ever counts a value MAC other than zero times or once.
TypeOK ==
    /\ sver \in Versions
    /\ keys \subseteq Keys
    /\ store \in Stores
    /\ fetch \in [Fetches -> Tasks]
    /\ loop \in Fetches \cup {Nobody}
    /\ result \in Results
    /\ pageMuts \in Values
    /\ writes \subseteq Writes
    /\ view \in Values
    /\ disturbed \in BOOLEAN /\ lossy \in BOOLEAN
    /\ faults \in 0 .. MaxFaults

\* The stored LT-hash is the server's hash of the stored version, whatever the
\* tasks overlap and wherever a crash falls: every cursor that _persist writes
\* has passed _verify_snapshot_mac (fetch.py _persist, patches.py decode_patch).
HashMatchesVersion == store.hash = ServerHash[store.version]

\* Outside a persist, the newest stored MAC of every index is its value at the
\* stored version, unless a page was applied over a cursor another task had
\* moved or a crash tore a persist: the deltas of _compute_mac_deltas and the
\* ORDER BY version DESC lookup keep the MAC table level with the cursor.
MacsMatchCursor ==
    ~disturbed /\ writes = {} =>
        \A i \in Indexes : GetMutationMac(i) = LiveAt[store.version][i]

\* What the server sends verifies: a task that applies the next item of a page
\* to an undisturbed store never ends in SnapshotMacMismatch, which no retry
\* would get past.  UpdateHash, from the rows and the earlier mutations of the
\* patch, computes the server's hash.
ServerPagesVerify ==
    \A f \in Fetches :
        ~disturbed /\ loop = f /\ writes = {} =>
            /\ fetch[f].page.snapshot > 0 => SnapshotOutcome(f) # "MacMismatch"
            /\ fetch[f].page.snapshot = 0 /\ PatchesLeft(f) =>
                   PatchOutcome(f) # "MacMismatch"

\* Between fetches the application has been told the value of every index set
\* at the stored version, unless the store was disturbed, a task lost mutations
\* it had persisted, or two tasks emitted at the same time: the events follow
\* the cursor across pages, missing keys, overlapping fetches and restarts
\* (AppStateSyncer.fetch).
EventsMatchCursor ==
    ~disturbed /\ ~lossy /\ (\A f \in Fetches : fetch[f].pc = "idle") =>
        \A i \in LiveIndexes(store.version) : view[i] = LiveAt[store.version][i]

\* The collection catches up with the server again and again: a missing key,
\* a failed fetch or a crash only delays it ("the next server_sync resyncs
\* from the persisted cursor once keys are in"), unless the store is disturbed.
CatchesUp == []<>(disturbed \/ store.version = sver)

=============================================================================
