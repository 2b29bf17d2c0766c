--------------------------- MODULE AppState_proofs ---------------------------
(***************************************************************************)
(* Proofs about the app-state sync: for every history of patches, page     *)
(* size, set of fetch tasks and number of failures, the stored cursor is   *)
(* the server's; while the store is undisturbed the MAC table is level     *)
(* with it, what the server sends verifies, and the events follow it.      *)
(*                                                                         *)
(* The argument: the LT-hash of the live values is a sum in which each     *)
(* live MAC counts once, so the rows of version v - 1 and the mutations    *)
(* of patch v give the server's sum at v (SnapshotSum, PatchSum); what     *)
(* _persist has still to write always settles every index at the version   *)
(* of the item (Settles); and of each live index the nearest of the item,  *)
(* the page, the pages before, the emitter and the application that has    *)
(* a value has the live one (Known).                                       *)
(***************************************************************************)
EXTENDS AppState, FiniteSetTheorems, WellFoundedInduction, TLAPS

-----------------------------------------------------------------------------
(* The inductive invariant.                                                *)

\* A cursor that is the server's at its version.
Genuine(state) == state \in HashStates /\ VerifySnapshotMac(state)

\* The pending write of the cursor, if it is still to come.
VersionPending == \E w \in writes : w.kind = "version"

\* Every cursor, stored, carried or about to be written, is the server's.
CursorsGenuine ==
    /\ Genuine(Cursor)
    /\ \A f \in Fetches : Genuine(fetch[f].state)
    /\ Genuine(result.state)

\* A page begins where its task's cursor ends.
PagesFollow ==
    \A f \in Fetches :
        /\ fetch[f].want => fetch[f].state.version = 0
        /\ fetch[f].pc = "page" =>
             /\ fetch[f].page.snapshot > 0 =>
                  /\ fetch[f].state.version = 0
                  /\ fetch[f].page.next = fetch[f].page.snapshot + 1
             /\ fetch[f].page.snapshot = 0 =>
                  fetch[f].page.next =
                    (IF loop = f /\ writes # {} THEN result.state.version
                     ELSE fetch[f].state.version) + 1

\* Local variables of apply_patch_list have values only inside it.
LoopState ==
    /\ loop = Nobody => pageMuts = NothingSet
    /\ loop \in Fetches => fetch[loop].pc = "page" /\ ~fetch[loop].want
    /\ writes = {} => result = NoResult
    /\ writes # {} => loop \in Fetches /\ fetch[loop].page.snapshot = 0
    /\ \A f \in Fetches : fetch[f].pc = "idle" => fetch[f].muts = NothingSet

Puts(ws, i) == {w \in ws : w.kind = "put" /\ w.row.index = i}
Deletes(ws, i) == {w \in ws : w.kind = "delete" /\ w.index = i}

\* What is still to be written belongs to the item just decoded.
WritesOfResult ==
    \A w \in writes :
        /\ w.kind = "version" => w = PutVersion(result.state)
        /\ w.kind = "put" => w.row.version = result.state.version
        /\ w.kind = "put" =>
             \A x \in Puts(writes, w.row.index) : x.at = w.at => x = w

\* The newest row of an index is its value at the stored version.
Level ==
    /\ \A i \in Indexes : GetMutationMac(i) = LiveAt[store.version][i]
    /\ \A r \in store.rows : r.version <= store.version

\* What the writes ws make of an index whose stored value is old: the last row
\* put decides, else a delete, else the stored row.
Settles(ws, i, value, old) ==
    /\ Puts(ws, i) # {} =>
         \E w \in Puts(ws, i) : w.row.mac = value /\ \A x \in Puts(ws, i) : x.at <= w.at
    /\ Puts(ws, i) = {} /\ Deletes(ws, i) # {} => value = NoMac
    /\ Puts(ws, i) = {} /\ Deletes(ws, i) = {} => old = value

\* The pending writes bring the rows to the version of the item.
Settled(i) == Settles(writes, i, LiveAt[result.state.version][i], GetMutationMac(i))

\* While the store is undisturbed the task inside apply_patch_list moves the
\* stored cursor forward with its own, and no task is ahead of it.
CursorMoves ==
    /\ \A f \in Fetches : fetch[f].state.version <= store.version
    /\ loop \in Fetches =>
        IF writes = {} \/ VersionPending THEN fetch[loop].state = Cursor
        ELSE result.state = Cursor
    /\ writes # {} => fetch[loop].state.version < result.state.version

RowsFollow ==
    /\ writes = {} \/ VersionPending => Level
    /\ writes # {} =>
        /\ \A i \in Indexes : Settled(i)
        /\ \A r \in store.rows : r.version <= result.state.version

UndisturbedInv == ~disturbed => CursorMoves /\ RowsFollow

\* A task between two pages whose mutations were overtaken: to go on disturbs
\* the store, to fail loses them.
Overtaken(f) ==
    /\ f # loop
    /\ fetch[f].pc \in {"wait", "page"}
    /\ fetch[f].muts # NothingSet
    /\ fetch[f].state.version < store.version

\* What the application knows of an index, or will have been told: the events
\* of the item persisted, of the page, of the pages before, of the tasks that
\* emit, and those it was told, in this order, decide.
ToldBy(i, x) ==
    /\ \A f \in Fetches : Emitting(f) => fetch[f].muts[i] \in {NoMac, x}
    /\ (\A f \in Fetches : Emitting(f) => fetch[f].muts[i] = NoMac) => view[i] = x

CarriedBy(i, x) ==
    /\ \A f \in Fetches : ~Emitting(f) => fetch[f].muts[i] \in {NoMac, x}
    /\ (\A f \in Fetches : ~Emitting(f) => fetch[f].muts[i] = NoMac) => ToldBy(i, x)

OnPage(i, x) ==
    /\ pageMuts[i] \in {NoMac, x}
    /\ pageMuts[i] = NoMac => CarriedBy(i, x)

Known(i, x) ==
    IF writes = {} \/ VersionPending THEN OnPage(i, x)
    ELSE /\ result.muts[i] \in {NoMac, x}
         /\ result.muts[i] = NoMac => OnPage(i, x)

AllKnown == \A i \in LiveIndexes(store.version) : Known(i, LiveAt[store.version][i])

\* A task with events to hand over for the stored version is ahead of the others.
Ahead ==
    loop \in Fetches /\ (pageMuts # NothingSet \/ (writes # {} /\ ~VersionPending)) =>
        \A f \in Fetches \ {loop} : fetch[f].state.version < store.version

OneEmitter == \A f, g \in Fetches : Emitting(f) /\ Emitting(g) => f = g

EventsInv ==
    ~disturbed =>
      /\ Ahead
      /\ ~lossy => OneEmitter /\ ((\E f \in Fetches : Overtaken(f)) \/ AllKnown)

\* The events of the item are those of its version.
ResultInv ==
    writes # {} =>
      \A i \in Indexes :
        LET value == LiveAt[result.state.version][i]
        IN  value # NoMac =>
              \/ result.muts[i] = value
              \/ /\ result.muts[i] = NoMac
                 /\ value = LiveAt[fetch[loop].state.version][i]

\* What holds whether the store is disturbed or not.
Basic == TypeOK /\ CursorsGenuine /\ PagesFollow /\ LoopState /\ WritesOfResult

IInv == Basic /\ UndisturbedInv /\ ResultInv /\ EventsInv

-----------------------------------------------------------------------------
(* Greatest elements.                                                      *)

\* A nonempty set of naturals has a least element.
LEMMA LeastExists ==
  ASSUME NEW T \in SUBSET Nat, T # {}
  PROVE  \E x \in T : \A y \in T : x <= y
<1>1. PICK R : R = OpToRel(<, Nat)
  OBVIOUS
<1>2. IsWellFoundedOn(R, Nat)
  BY <1>1, NatLessThanWellFounded
<1>3. \A a, b \in Nat : a < b => <<a, b>> \in R
  BY <1>1 DEF OpToRel
<1>4. PICK x \in T : \A y \in T : ~(<<y, x>> \in R)
  BY <1>2, WFMin
<1>5. ASSUME NEW y \in T PROVE x <= y
  <2>1. x \in Nat /\ y \in Nat
    OBVIOUS
  <2>2. ~(y < x)
    BY ONLY <1>3, <1>4, <2>1, y \in T, Zenon
  <2> QED
    BY <2>1, <2>2
<1> QED
  BY <1>5

\* A nonempty set of naturals up to n has a greatest element.
LEMMA GreatestExists ==
  ASSUME NEW n \in Nat, NEW T \in SUBSET (0 .. n), T # {}
  PROVE  \E x \in T : \A y \in T : x >= y
<1>1. PICK U : U = {n - x : x \in T}
  OBVIOUS
<1>2. \A u \in U : u \in Nat
  <2>1. \A x \in T : x \in 0 .. n
    OBVIOUS
  <2>2. \A x \in T : n - x \in Nat
    BY <2>1
  <2> QED
    BY ONLY <1>1, <2>2
<1>3. PICK t : t \in T
  OBVIOUS
<1>4. n - t \in U
  BY <1>1, <1>3
<1>5. PICK u \in U : \A v \in U : u <= v
  BY <1>2, <1>4, LeastExists
<1>6. PICK x \in T : u = n - x
  BY <1>1, <1>5
<1>7. ASSUME NEW y \in T PROVE x >= y
  <2>1. n - y \in U
    BY <1>1
  <2>2. u <= n - y
    BY <1>5, <2>1
  <2>3. x \in Nat /\ y \in Nat
    OBVIOUS
  <2> QED
    BY <1>6, <2>2, <2>3
<1> QED
  BY <1>7

\* Max is the greatest element of such a set.
LEMMA MaxIsGreatest ==
  ASSUME NEW n \in Nat, NEW T \in SUBSET (1 .. n), T # {}
  PROVE  Max(T) \in T /\ \A y \in T : y <= Max(T)
<1>1. T \in SUBSET (0 .. n)
  OBVIOUS
<1>2. \E x \in T : \A y \in T : x >= y
  BY <1>1, GreatestExists
<1>3. Max(T) \in T /\ \A y \in T : Max(T) >= y
  BY <1>2 DEF Max
<1>4. \A y \in T : y \in Int
  OBVIOUS
<1> QED
  BY <1>3, <1>4

\* Max is the element above all others.
LEMMA MaxIs ==
  ASSUME NEW T \in SUBSET Int, NEW x \in T, \A y \in T : y <= x
  PROVE  Max(T) = x
<1>1. x \in T /\ \A y \in T : x >= y
  OBVIOUS
<1>2. Max(T) \in T /\ \A y \in T : Max(T) >= y
  BY <1>1 DEF Max
<1>3. PICK m : m = Max(T)
  OBVIOUS
<1>4. m \in Int /\ x \in Int /\ x >= m /\ m >= x
  BY <1>1, <1>2, <1>3
<1>5. m = x
  BY ONLY <1>4
<1> QED
  BY <1>3, <1>5

-----------------------------------------------------------------------------
(* The server's collection.                                                *)

\* Each patch is a sequence of mutations.
LEMMA PatchType ==
  ASSUME NEW v \in 1 .. Len(Patches)
  PROVE  /\ v \in DOMAIN Patches
         /\ Len(Patches[v]) \in Nat
         /\ DOMAIN Patches[v] = 1 .. Len(Patches[v])
         /\ \A j \in DOMAIN Patches[v] :
               /\ Patches[v][j].index \in Indexes
               /\ Patches[v][j].op \in {"SET", "REMOVE"}
<1>1. PICK M : M = [op : {"SET", "REMOVE"}, index : Indexes]
  OBVIOUS
<1>2. Patches \in Seq(Seq(M))
  BY <1>1, PatchesAssumption
<1>3. v \in DOMAIN Patches /\ Patches[v] \in Seq(M)
  BY <1>2
<1>4. /\ Len(Patches[v]) \in Nat
      /\ DOMAIN Patches[v] = 1 .. Len(Patches[v])
      /\ \A j \in DOMAIN Patches[v] : Patches[v][j] \in M
  BY <1>3
<1> QED
  BY <1>1, <1>3, <1>4

\* The server has some number of patches.
LEMMA LenPatches == Len(Patches) \in Nat /\ DOMAIN Patches = 1 .. Len(Patches)
<1>1. PICK M : M = [op : {"SET", "REMOVE"}, index : Indexes]
  OBVIOUS
<1>2. Patches \in Seq(Seq(M))
  BY <1>1, PatchesAssumption
<1> QED
  BY <1>2

\* The mutations of an index in a patch, and the last of them.
LEMMA OfIndexMax ==
  ASSUME NEW v \in 1 .. Len(Patches), NEW i, OfIndex(v, i) # {}
  PROVE  /\ Max(OfIndex(v, i)) \in OfIndex(v, i)
         /\ \A j \in OfIndex(v, i) : j <= Max(OfIndex(v, i))
<1>1. Len(Patches[v]) \in Nat /\ OfIndex(v, i) \in SUBSET (1 .. Len(Patches[v]))
  BY PatchType DEF OfIndex
<1> QED
  BY <1>1, MaxIsGreatest

\* What the mutations of an index in a patch look like.
LEMMA OfIndexType ==
  ASSUME NEW v \in 1 .. Len(Patches), NEW i, NEW j \in OfIndex(v, i)
  PROVE  /\ j \in DOMAIN Patches[v]
         /\ j \in Nat \ {0}
         /\ Patches[v][j].index = i
         /\ Patches[v][j].op \in {"SET", "REMOVE"}
BY PatchType DEF OfIndex

\* A value MAC is not the mark of a missing value.
LEMMA MacType ==
  ASSUME NEW m \in Macs
  PROVE  \E v \in 1 .. Len(Patches) : \E j \in DOMAIN Patches[v] : m = <<v, j>>
BY LenPatches DEF Macs

\* Each mutation of a patch has a value MAC.
LEMMA MacIn ==
  ASSUME NEW v \in 1 .. Len(Patches), NEW j \in DOMAIN Patches[v]
  PROVE  <<v, j>> \in Macs
BY LenPatches DEF Macs

\* The absent MAC is no value MAC.
LEMMA NoMacNotIn == NoMac \notin Macs
BY MacType DEF NoMac

\* The value that the mutations of an index leave is one of them.
LEMMA ValueInType ==
  ASSUME NEW v \in 1 .. Len(Patches), NEW i, OfIndex(v, i) # {}
  PROVE  LET j == Max(OfIndex(v, i))
         IN  /\ j \in OfIndex(v, i)
             /\ Patches[v][j].op = "SET" => ValueIn(v, i) = <<v, j>>
             /\ Patches[v][j].op # "SET" => ValueIn(v, i) = NoMac
BY OfIndexMax DEF ValueIn

\* Nothing is set at version 0.
LEMMA LiveAtZero ==
  0 \in Versions /\ LiveAt[0] = NothingSet
<1>1. 0 \in Versions
  BY LenPatches DEF Versions
<1>2. \A i \in Indexes : ValueAt(0, i) = NoMac
  BY DEF ValueAt
<1> QED
  BY <1>1, <1>2 DEF LiveAt, NothingSet

\* The table of the live values holds the value at each version.
LEMMA LiveAtIs ==
  ASSUME NEW v \in Versions, NEW i \in Indexes
  PROVE  LiveAt[v][i] = ValueAt(v, i)
BY DEF LiveAt

\* A patch that does not touch an index leaves its value.
LEMMA LiveAtUntouched ==
  ASSUME NEW v \in 1 .. Len(Patches), NEW i \in Indexes, OfIndex(v, i) = {}
  PROVE  LiveAt[v][i] = LiveAt[v - 1][i]
<1>1. v \in Versions /\ v - 1 \in Versions
  BY LenPatches DEF Versions
<1>2. {u \in 1 .. v : OfIndex(u, i) # {}} = {u \in 1 .. (v - 1) : OfIndex(u, i) # {}}
  BY LenPatches
<1>3. ValueAt(v, i) = ValueAt(v - 1, i)
  BY <1>2 DEF ValueAt
<1> QED
  BY <1>1, <1>3, LiveAtIs

\* A patch that touches an index decides its value.
LEMMA LiveAtTouched ==
  ASSUME NEW v \in 1 .. Len(Patches), NEW i \in Indexes, OfIndex(v, i) # {}
  PROVE  LiveAt[v][i] = ValueIn(v, i)
<1>1. v \in Versions
  BY LenPatches DEF Versions
<1>2. PICK T : T = {u \in 1 .. v : OfIndex(u, i) # {}}
  OBVIOUS
<1>3. T \in SUBSET Int /\ v \in T /\ \A u \in T : u <= v
  BY <1>2, LenPatches
<1>4. Max(T) = v
  BY <1>3, MaxIs
<1>5. ValueAt(v, i) = ValueIn(v, i)
  BY <1>2, <1>3, <1>4 DEF ValueAt
<1> QED
  BY <1>1, <1>5, LiveAtIs

\* A value at version v was set by a patch up to v, for its own index.
LEMMA LiveAtType ==
  ASSUME NEW v \in Versions, NEW i \in Indexes, LiveAt[v][i] # NoMac
  PROVE  \E u \in 1 .. Len(Patches) : \E j \in DOMAIN Patches[u] :
            /\ u <= v
            /\ LiveAt[v][i] = <<u, j>>
            /\ Patches[u][j].index = i
<1>1. PICK T : T = {u \in 1 .. v : OfIndex(u, i) # {}}
  OBVIOUS
<1>2. ValueAt(v, i) # NoMac
  BY LiveAtIs
<1>3. T # {} /\ ValueAt(v, i) = ValueIn(Max(T), i)
  BY <1>1, <1>2 DEF ValueAt
<1>4. v \in Nat /\ v <= Len(Patches) /\ T \in SUBSET (1 .. v)
  BY <1>1, LenPatches DEF Versions
<1>5. Max(T) \in T
  BY <1>3, <1>4, MaxIsGreatest
<1>6. PICK u : u = Max(T)
  OBVIOUS
<1>7. u \in 1 .. Len(Patches) /\ u <= v /\ OfIndex(u, i) # {}
  <2>1. u \in 1 .. v /\ OfIndex(u, i) # {}
    BY <1>1, <1>5, <1>6
  <2> QED
    BY <1>4, <2>1, LenPatches
<1>8. PICK j : j = Max(OfIndex(u, i))
  OBVIOUS
<1>9. j \in OfIndex(u, i) /\ ValueIn(u, i) \in {<<u, j>>, NoMac}
  BY <1>7, <1>8, ValueInType
<1>10. LiveAt[v][i] = <<u, j>>
  BY <1>2, <1>3, <1>6, <1>9, LiveAtIs
<1>11. j \in DOMAIN Patches[u] /\ Patches[u][j].index = i
  BY <1>7, <1>9, OfIndexType
<1> QED
  BY <1>7, <1>10, <1>11

\* The live values of a version are a map from indexes to MACs.
LEMMA LiveAtValues ==
  ASSUME NEW v \in Versions
  PROVE  LiveAt[v] \in Values
<1>1. LiveAt[v] = [i \in Indexes |-> ValueAt(v, i)]
  BY DEF LiveAt
<1>2. ASSUME NEW i \in Indexes PROVE LiveAt[v][i] \in Macs \cup {NoMac}
  <2>1. CASE LiveAt[v][i] = NoMac
    BY <2>1
  <2>2. CASE LiveAt[v][i] # NoMac
    <3>1. PICK u \in 1 .. Len(Patches) : \E j \in DOMAIN Patches[u] : LiveAt[v][i] = <<u, j>>
      BY <2>2, LiveAtType
    <3>2. PICK j \in DOMAIN Patches[u] : LiveAt[v][i] = <<u, j>>
      BY <3>1
    <3> QED
      BY <3>2, MacIn
  <2> QED
    BY <2>1, <2>2
<1> QED
  BY <1>1, <1>2 DEF Values

\* No two indexes have one value.
LEMMA LiveAtInjective ==
  ASSUME NEW v \in Versions, NEW i \in Indexes, NEW k \in Indexes,
         LiveAt[v][i] # NoMac, LiveAt[v][i] = LiveAt[v][k]
  PROVE  i = k
<1>1. PICK u \in 1 .. Len(Patches) : \E j \in DOMAIN Patches[u] :
         LiveAt[v][i] = <<u, j>> /\ Patches[u][j].index = i
  BY LiveAtType
<1>2. PICK j \in DOMAIN Patches[u] : LiveAt[v][i] = <<u, j>> /\ Patches[u][j].index = i
  BY <1>1
<1>3. LiveAt[v][k] # NoMac
  OBVIOUS
<1>4. PICK u2 \in 1 .. Len(Patches) : \E j2 \in DOMAIN Patches[u2] :
         LiveAt[v][k] = <<u2, j2>> /\ Patches[u2][j2].index = k
  BY <1>3, LiveAtType
<1>5. PICK j2 \in DOMAIN Patches[u2] : LiveAt[v][k] = <<u2, j2>> /\ Patches[u2][j2].index = k
  BY <1>4
<1>6. <<u, j>> = <<u2, j2>>
  BY <1>2, <1>5, Zenon
<1>7. u = u2 /\ j = j2
  BY ONLY <1>6
<1> QED
  BY <1>2, <1>5, <1>7

-----------------------------------------------------------------------------
(* The LT-hash as a formal sum.                                            *)

\* The server's hash counts each live MAC once and no other.
LEMMA ServerHashIs ==
  ASSUME NEW v \in Versions
  PROVE  /\ ServerHash[v] \in [Macs -> {0, 1}]
         /\ \A m \in Macs : (\E i \in Indexes : LiveAt[v][i] = m) => ServerHash[v][m] = 1
         /\ \A m \in Macs : ~(\E i \in Indexes : LiveAt[v][i] = m) => ServerHash[v][m] = 0
BY DEF ServerHash

\* Before the first patch the server's hash is the empty sum.
LEMMA ServerHashZero == ServerHash[0] = EmptyHash
<1>1. \A m \in Macs : ~(\E i \in Indexes : LiveAt[0][i] = m)
  BY LiveAtZero, NoMacNotIn DEF NothingSet
<1>2. ServerHash[0] = [m \in Macs |-> IF \E i \in Indexes : LiveAt[0][i] = m THEN 1 ELSE 0]
  BY LiveAtZero DEF ServerHash
<1> QED
  BY <1>1, <1>2 DEF EmptyHash

\* The records of a snapshot, added up from nothing, give the server's hash.
LEMMA SnapshotSum ==
  ASSUME NEW v \in Versions
  PROVE  SnapshotHash(EmptyHash, v) = ServerHash[v]
<1>1. ASSUME NEW m \in Macs PROVE SnapshotHash(EmptyHash, v)[m] = ServerHash[v][m]
  <2>1. PICK A : A = {a \in {<<i, LiveAt[v][i]>> : i \in Indexes} : a[2] = m}
    OBVIOUS
  <2>2. {r \in {} : r[2] = m} = {}
    OBVIOUS
  <2>3. SnapshotHash(EmptyHash, v)[m] = 0 + Cardinality(A) - Cardinality({})
    BY <2>1, <2>2 DEF SnapshotHash, SubtractThenAdd, EmptyHash
  <2>4. Cardinality({}) = 0
    BY FS_EmptySet
  <2>5. CASE \E i \in Indexes : LiveAt[v][i] = m
    <3>1. PICK i \in Indexes : LiveAt[v][i] = m
      BY <2>5
    <3>2. m # NoMac
      BY NoMacNotIn
    <3>3. ASSUME NEW k \in Indexes, LiveAt[v][k] = m PROVE k = i
      BY <3>1, <3>2, <3>3, LiveAtInjective
    <3>4. A = {<<i, m>>}
      BY <2>1, <3>1, <3>3
    <3>5. Cardinality(A) = 1
      BY <3>4, FS_Singleton
    <3> QED
      BY <2>3, <2>4, <2>5, <3>5, ServerHashIs
  <2>6. CASE ~(\E i \in Indexes : LiveAt[v][i] = m)
    <3>1. A = {}
      BY <2>1, <2>6
    <3> QED
      BY <2>3, <2>4, <2>6, <3>1, ServerHashIs
  <2> QED
    BY <2>5, <2>6
<1>2. DOMAIN SnapshotHash(EmptyHash, v) = Macs
  BY DEF SnapshotHash, SubtractThenAdd
<1>3. SnapshotHash(EmptyHash, v) = [m \in Macs |-> SnapshotHash(EmptyHash, v)[m]]
  BY <1>2 DEF SnapshotHash, SubtractThenAdd
<1>4. ServerHash[v] = [m \in Macs |-> ServerHash[v][m]]
  BY ServerHashIs
<1> QED
  BY <1>1, <1>3, <1>4

\* The mutations of the same index before mutation j of patch v.
Earlier(v, j) == {k \in OfIndex(v, Patches[v][j].index) : k < j}

\* With no earlier mutation of the index in the patch the stored row decides.
LEMMA PrevNone ==
  ASSUME NEW v, NEW j, Earlier(v, j) = {}
  PROVE  PrevSetValueMac(v, j) = GetMutationMac(Patches[v][j].index)
BY DEF PrevSetValueMac, Earlier

\* Else the last earlier mutation of the index decides.
LEMMA PrevSome ==
  ASSUME NEW v \in 1 .. Len(Patches), NEW j \in DOMAIN Patches[v], Earlier(v, j) # {}
  PROVE  \E k \in Earlier(v, j) :
            /\ \A l \in Earlier(v, j) : l <= k
            /\ Patches[v][k].op = "SET" => PrevSetValueMac(v, j) = <<v, k>>
            /\ Patches[v][k].op # "SET" => PrevSetValueMac(v, j) = NoMac
<1>1. Len(Patches[v]) \in Nat /\ Earlier(v, j) \in SUBSET (1 .. Len(Patches[v]))
  BY PatchType DEF Earlier, OfIndex
<1>2. Max(Earlier(v, j)) \in Earlier(v, j) /\ \A l \in Earlier(v, j) : l <= Max(Earlier(v, j))
  BY <1>1, MaxIsGreatest
<1>3. /\ Patches[v][Max(Earlier(v, j))].op = "SET" =>
           PrevSetValueMac(v, j) = <<v, Max(Earlier(v, j))>>
      /\ Patches[v][Max(Earlier(v, j))].op # "SET" => PrevSetValueMac(v, j) = NoMac
  BY DEF PrevSetValueMac, Earlier
<1> QED
  BY <1>2, <1>3

\* How often a patch adds and subtracts a value.
Added(v, m) ==
    {a \in {<<j, <<v, j>>>> : j \in {k \in DOMAIN Patches[v] : Patches[v][k].op = "SET"}} :
        a[2] = m}
Removed(v, m) ==
    {r \in {<<j, PrevSetValueMac(v, j)>> : j \in DOMAIN Patches[v]} : r[2] = m}

\* The sum after a patch, MAC by MAC.
LEMMA UpdateHashAt ==
  ASSUME NEW h, NEW v, NEW m \in Macs
  PROVE  UpdateHash(h, v)[m] =
            h[m] + Cardinality(Added(v, m)) - Cardinality(Removed(v, m))
BY DEF UpdateHash, SubtractThenAdd, Added, Removed

\* A MAC that no mutation replaces is never subtracted.
LEMMA RemovedNever ==
  ASSUME NEW v, NEW m, \A j \in DOMAIN Patches[v] : PrevSetValueMac(v, j) # m
  PROVE  Cardinality(Removed(v, m)) = 0
<1>1. Removed(v, m) = {}
  BY DEF Removed
<1> QED
  BY <1>1, FS_EmptySet

\* A MAC that one mutation replaces is subtracted once.
LEMMA RemovedOnce ==
  ASSUME NEW v, NEW m, NEW n \in DOMAIN Patches[v], PrevSetValueMac(v, n) = m,
         \A j \in DOMAIN Patches[v] : PrevSetValueMac(v, j) = m => j = n
  PROVE  Cardinality(Removed(v, m)) = 1
<1>1. Removed(v, m) = {<<n, m>>}
  BY DEF Removed
<1> QED
  BY <1>1, FS_Singleton

\* A MAC is added once by the mutation that sets it, and by no other.
LEMMA AddedCount ==
  ASSUME NEW v \in 1 .. Len(Patches), NEW u, NEW k
  PROVE  /\ v = u /\ k \in DOMAIN Patches[v] /\ Patches[v][k].op = "SET" =>
              Cardinality(Added(v, <<u, k>>)) = 1
         /\ v # u \/ Patches[v][k].op # "SET" => Cardinality(Added(v, <<u, k>>)) = 0
<1>1. ASSUME v = u, k \in DOMAIN Patches[v], Patches[v][k].op = "SET"
      PROVE  Added(v, <<u, k>>) = {<<k, <<u, k>>>>}
  BY <1>1 DEF Added
<1>2. ASSUME v # u \/ Patches[v][k].op # "SET"
      PROVE  Added(v, <<u, k>>) = {}
  BY <1>2 DEF Added
<1> QED
  BY <1>1, <1>2, FS_EmptySet, FS_Singleton

\* The rows hold the values at a version.
RowsAt(v) == \A i \in Indexes : GetMutationMac(i) = LiveAt[v][i]

\* The value that a mutation without an earlier one of its index replaces is
\* older than the patch.
LEMMA PrevOld ==
  ASSUME NEW v \in 1 .. Len(Patches), RowsAt(v - 1), NEW j \in DOMAIN Patches[v],
         Earlier(v, j) = {}
  PROVE  /\ PrevSetValueMac(v, j) = LiveAt[v - 1][Patches[v][j].index]
         /\ \A k : PrevSetValueMac(v, j) # <<v, k>>
<1>1. PICK i : i = Patches[v][j].index
  OBVIOUS
<1>2. i \in Indexes
  BY <1>1, PatchType
<1>3. PrevSetValueMac(v, j) = LiveAt[v - 1][i]
  BY <1>1, <1>2, PrevNone DEF RowsAt
<1>4. v - 1 \in Versions /\ v \in Nat \ {0}
  BY LenPatches DEF Versions
<1>5. ASSUME NEW k, LiveAt[v - 1][i] = <<v, k>> PROVE FALSE
  <2>1. <<v, k>> # NoMac
    BY <1>4 DEF NoMac
  <2>2. LiveAt[v - 1][i] # NoMac
    BY <1>5, <2>1
  <2>3. PICK u \in 1 .. Len(Patches) :
          \E l \in DOMAIN Patches[u] : u <= v - 1 /\ LiveAt[v - 1][i] = <<u, l>>
    BY <1>2, <1>4, <2>2, LiveAtType
  <2>4. PICK l : u <= v - 1 /\ <<v, k>> = <<u, l>>
    BY <1>5, <2>3
  <2>5. v = u
    BY ONLY <2>4
  <2> QED
    BY <2>4, <2>5, <1>4
<1> QED
  BY <1>1, <1>3, <1>5

\* A value of this patch is subtracted when the next mutation of its index
\* comes, and only then.
LEMMA SumOfNew ==
  ASSUME NEW v \in 1 .. Len(Patches), RowsAt(v - 1), NEW k \in DOMAIN Patches[v]
  PROVE  UpdateHash(ServerHash[v - 1], v)[<<v, k>>] = ServerHash[v][<<v, k>>]
<1>1. PICK m : m = <<v, k>>
  OBVIOUS
<1>2. PICK i : i = Patches[v][k].index
  OBVIOUS
<1>3. m \in Macs /\ i \in Indexes /\ k \in OfIndex(v, i) /\ k \in Nat
  BY <1>1, <1>2, MacIn, PatchType DEF OfIndex
<1>4. v - 1 \in Versions /\ v \in Versions /\ v \in Nat \ {0}
  BY LenPatches DEF Versions
<1>5. ServerHash[v - 1][m] = 0
  <2>1. ASSUME NEW l \in Indexes, LiveAt[v - 1][l] = m PROVE FALSE
    <3>1. m # NoMac
      BY <1>1, <1>4 DEF NoMac
    <3>2. LiveAt[v - 1][l] # NoMac
      BY <2>1, <3>1
    <3>3. PICK u \in 1 .. Len(Patches) :
            \E n \in DOMAIN Patches[u] : u <= v - 1 /\ LiveAt[v - 1][l] = <<u, n>>
      BY <1>4, <3>2, LiveAtType
    <3>4. PICK n : u <= v - 1 /\ <<v, k>> = <<u, n>>
      BY <1>1, <2>1, <3>3
    <3>5. v = u
      BY ONLY <3>4
    <3> QED
      BY <3>4, <3>5, <1>4
  <2> QED
    BY <1>3, <1>4, <2>1, ServerHashIs
<1>6. UpdateHash(ServerHash[v - 1], v)[m] =
        0 + Cardinality(Added(v, m)) - Cardinality(Removed(v, m))
  BY <1>3, <1>5, UpdateHashAt
<1>7. ASSUME NEW j \in DOMAIN Patches[v], PrevSetValueMac(v, j) = m
      PROVE  /\ j \in OfIndex(v, i) /\ k < j
             /\ Patches[v][k].op = "SET"
             /\ \A l \in Earlier(v, j) : l <= k
  <2>1. Earlier(v, j) # {}
    BY <1>1, <1>7, PrevOld
  <2>2. PICK n \in Earlier(v, j) :
            /\ \A l \in Earlier(v, j) : l <= n
            /\ Patches[v][n].op = "SET" => PrevSetValueMac(v, j) = <<v, n>>
            /\ Patches[v][n].op # "SET" => PrevSetValueMac(v, j) = NoMac
    BY <2>1, PrevSome
  <2>3. m # NoMac
    BY <1>3, NoMacNotIn
  <2>4. Patches[v][n].op = "SET" /\ <<v, n>> = <<v, k>>
    BY <1>1, <1>7, <2>2, <2>3
  <2>5. n = k
    BY ONLY <2>4
  <2>6. k \in OfIndex(v, Patches[v][j].index) /\ k < j
    BY <2>2, <2>5 DEF Earlier
  <2>7. Patches[v][j].index = i
    BY <1>2, <2>6 DEF OfIndex
  <2> QED
    BY <2>2, <2>4, <2>5, <2>6, <2>7 DEF OfIndex
<1>8. ASSUME NEW l \in Indexes, LiveAt[v][l] = m
      PROVE  /\ Patches[v][k].op = "SET"
             /\ \A j \in OfIndex(v, i) : j <= k
  <2>1. OfIndex(v, l) # {}
    <3>1. SUFFICES ASSUME OfIndex(v, l) = {} PROVE FALSE
      OBVIOUS
    <3>2. LiveAt[v - 1][l] = m
      BY <1>8, <3>1, LiveAtUntouched
    <3> QED
      BY <1>3, <1>4, <1>5, <3>2, ServerHashIs
  <2>2. PICK n : n = Max(OfIndex(v, l))
    OBVIOUS
  <2>3. /\ n \in OfIndex(v, l)
        /\ Patches[v][n].op = "SET" => m = <<v, n>>
        /\ Patches[v][n].op # "SET" => m = NoMac
        /\ \A j \in OfIndex(v, l) : j <= n
    BY <1>8, <2>1, <2>2, LiveAtTouched, ValueInType, OfIndexMax
  <2>4. m # NoMac
    BY <1>3, NoMacNotIn
  <2>5. Patches[v][n].op = "SET" /\ <<v, n>> = <<v, k>>
    BY <1>1, <2>3, <2>4
  <2>6. n = k
    BY ONLY <2>5
  <2>7. l = i
    BY <1>2, <2>3, <2>6 DEF OfIndex
  <2> QED
    BY <2>3, <2>5, <2>6, <2>7
<1>9. CASE Patches[v][k].op # "SET"
  <2>1. Cardinality(Added(v, m)) = 0
    BY <1>1, <1>9, AddedCount
  <2>2. Cardinality(Removed(v, m)) = 0
    BY <1>7, <1>9, RemovedNever
  <2>3. ServerHash[v][m] = 0
    BY <1>3, <1>4, <1>8, <1>9, ServerHashIs
  <2> QED
    BY <1>1, <1>6, <2>1, <2>2, <2>3
<1>10. CASE Patches[v][k].op = "SET" /\ \A j \in OfIndex(v, i) : j <= k
  <2>1. Cardinality(Added(v, m)) = 1
    BY <1>1, <1>10, AddedCount
  <2>2. \A j \in OfIndex(v, i) : j \in Nat
    BY OfIndexType
  <2>3. ASSUME NEW j \in DOMAIN Patches[v], PrevSetValueMac(v, j) = m PROVE FALSE
    <3>1. j \in OfIndex(v, i) /\ k < j
      BY <1>7, <2>3
    <3>2. j <= k /\ j \in Nat
      BY <1>10, <2>2, <3>1
    <3> QED
      BY <1>3, <3>1, <3>2
  <2>4. Cardinality(Removed(v, m)) = 0
    BY <2>3, RemovedNever
  <2>5. Max(OfIndex(v, i)) = k
    BY <1>3, <1>10, <2>2, MaxIs
  <2>6. LiveAt[v][i] = m
    BY <1>1, <1>3, <1>10, <2>5, LiveAtTouched, ValueInType
  <2>7. ServerHash[v][m] = 1
    BY <1>3, <1>4, <2>6, ServerHashIs
  <2> QED
    BY <1>1, <1>6, <2>1, <2>4, <2>7
<1>11. CASE Patches[v][k].op = "SET" /\ ~(\A j \in OfIndex(v, i) : j <= k)
  <2>1. Cardinality(Added(v, m)) = 1
    BY <1>1, <1>11, AddedCount
  <2>2. \A j \in OfIndex(v, i) : j \in Nat /\ j \in DOMAIN Patches[v]
    BY OfIndexType
  <2>3. PICK L : L = {j \in OfIndex(v, i) : k < j}
    OBVIOUS
  <2>4. L \in SUBSET Nat /\ L # {}
    <3>1. PICK j \in OfIndex(v, i) : ~(j <= k)
      BY <1>11
    <3>2. j \in Nat /\ k \in Nat
      BY <1>3, <2>2
    <3>3. k < j
      BY ONLY <3>1, <3>2
    <3>4. j \in L
      BY <2>3, <3>3
    <3> QED
      BY <2>2, <2>3, <3>4
  <2>5. PICK n \in L : \A j \in L : n <= j
    BY <2>4, LeastExists
  <2>6. n \in OfIndex(v, i) /\ k < n /\ n \in Nat /\ n \in DOMAIN Patches[v]
    BY <2>2, <2>3, <2>5
  <2>7. Patches[v][n].index = i
    BY <2>6 DEF OfIndex
  <2>8. k \in Earlier(v, n) /\ \A l \in Earlier(v, n) : l <= k
    <3>1. k \in Earlier(v, n)
      BY <1>3, <2>6, <2>7 DEF Earlier
    <3>2. ASSUME NEW l \in Earlier(v, n) PROVE l <= k
      <4>1. l \in OfIndex(v, i) /\ l < n /\ l \in Nat
        BY <2>2, <2>7 DEF Earlier
      <4>2. ~(k < l)
        BY <2>3, <2>5, <2>6, <4>1
      <4> QED
        BY <1>3, <4>1, <4>2
    <3> QED
      BY <3>1, <3>2
  <2>9. PrevSetValueMac(v, n) = m
    <3>1. PICK q \in Earlier(v, n) :
            /\ \A l \in Earlier(v, n) : l <= q
            /\ Patches[v][q].op = "SET" => PrevSetValueMac(v, n) = <<v, q>>
      BY <2>6, <2>8, PrevSome
    <3>2. q \in Nat /\ k <= q /\ q <= k
      BY <2>2, <2>7, <2>8, <3>1 DEF Earlier
    <3>3. q = k
      BY <1>3, <3>2
    <3> QED
      BY <1>1, <1>11, <3>1, <3>3
  <2>10. ASSUME NEW j \in DOMAIN Patches[v], PrevSetValueMac(v, j) = m PROVE j = n
    <3>1. j \in OfIndex(v, i) /\ k < j /\ \A l \in Earlier(v, j) : l <= k
      BY <1>7, <2>10
    <3>2. n <= j /\ j \in Nat
      BY <2>2, <2>3, <2>5, <3>1
    <3>3. ~(n < j)
      <4>1. SUFFICES ASSUME n < j PROVE FALSE
        OBVIOUS
      <4>2. Patches[v][j].index = i
        BY <3>1 DEF OfIndex
      <4>3. n \in Earlier(v, j)
        BY <2>6, <4>1, <4>2 DEF Earlier
      <4> QED
        BY <1>3, <2>6, <3>1, <4>3
    <3> QED
      BY <2>6, <3>2, <3>3
  <2>11. Cardinality(Removed(v, m)) = 1
    BY <2>6, <2>9, <2>10, RemovedOnce
  <2>12. ServerHash[v][m] = 0
    BY <1>3, <1>4, <1>8, <1>11, ServerHashIs
  <2> QED
    BY <1>1, <1>6, <2>1, <2>11, <2>12
<1> QED
  BY <1>9, <1>10, <1>11

\* A value of an older patch is subtracted at the first mutation of its index.
LEMMA SumOfOld ==
  ASSUME NEW v \in 1 .. Len(Patches), RowsAt(v - 1),
         NEW u \in 1 .. Len(Patches), NEW k \in DOMAIN Patches[u], u # v
  PROVE  UpdateHash(ServerHash[v - 1], v)[<<u, k>>] = ServerHash[v][<<u, k>>]
<1>1. PICK m : m = <<u, k>>
  OBVIOUS
<1>2. m \in Macs /\ m # NoMac
  BY <1>1, MacIn, NoMacNotIn
<1>3. v - 1 \in Versions /\ v \in Versions /\ v \in Nat \ {0}
  BY LenPatches DEF Versions
<1>4. Cardinality(Added(v, m)) = 0
  BY <1>1, AddedCount
<1>5. UpdateHash(ServerHash[v - 1], v)[m] =
        ServerHash[v - 1][m] + 0 - Cardinality(Removed(v, m))
  BY <1>2, <1>4, UpdateHashAt
<1>6. ASSUME NEW j \in DOMAIN Patches[v], PrevSetValueMac(v, j) = m
      PROVE  Earlier(v, j) = {} /\ LiveAt[v - 1][Patches[v][j].index] = m
  <2>1. Earlier(v, j) = {}
    <3>1. SUFFICES ASSUME Earlier(v, j) # {} PROVE FALSE
      OBVIOUS
    <3>2. PICK n : PrevSetValueMac(v, j) \in {<<v, n>>, NoMac}
      BY <3>1, PrevSome
    <3>3. <<u, k>> = <<v, n>>
      BY <1>1, <1>2, <1>6, <3>2
    <3>4. u = v
      BY ONLY <3>3
    <3> QED
      BY <3>4
  <2> QED
    BY <1>6, <2>1, PrevOld
<1>7. ASSUME NEW l \in Indexes, LiveAt[v][l] = m
      PROVE  OfIndex(v, l) = {} /\ LiveAt[v - 1][l] = m
  <2>1. OfIndex(v, l) = {}
    <3>1. SUFFICES ASSUME OfIndex(v, l) # {} PROVE FALSE
      OBVIOUS
    <3>2. PICK n : m \in {<<v, n>>, NoMac}
      BY <1>7, <3>1, LiveAtTouched, ValueInType
    <3>3. <<u, k>> = <<v, n>>
      BY <1>1, <1>2, <3>2
    <3>4. u = v
      BY ONLY <3>3
    <3> QED
      BY <3>4
  <2> QED
    BY <1>7, <2>1, LiveAtUntouched
<1>8. CASE ~(\E l \in Indexes : LiveAt[v - 1][l] = m)
  <2>1. ServerHash[v - 1][m] = 0
    BY <1>2, <1>3, <1>8, ServerHashIs
  <2>2. ServerHash[v][m] = 0
    BY <1>2, <1>3, <1>7, <1>8, ServerHashIs
  <2>3. \A j \in DOMAIN Patches[v] : PrevSetValueMac(v, j) # m
    BY <1>6, <1>8, PatchType
  <2>4. Cardinality(Removed(v, m)) = 0
    BY <2>3, RemovedNever
  <2> QED
    BY <1>1, <1>5, <2>1, <2>2, <2>4
<1>9. CASE \E l \in Indexes : LiveAt[v - 1][l] = m
  <2>1. PICK i \in Indexes : LiveAt[v - 1][i] = m
    BY <1>9
  <2>2. ServerHash[v - 1][m] = 1
    BY <1>2, <1>3, <1>9, ServerHashIs
  <2>3. ASSUME NEW l \in Indexes, LiveAt[v - 1][l] = m PROVE l = i
    BY <1>2, <1>3, <2>1, <2>3, LiveAtInjective
  <2>4. CASE OfIndex(v, i) = {}
    <3>1. LiveAt[v][i] = m
      BY <2>1, <2>4, LiveAtUntouched
    <3>2. ServerHash[v][m] = 1
      BY <1>2, <1>3, <3>1, ServerHashIs
    <3>3. ASSUME NEW j \in DOMAIN Patches[v], PrevSetValueMac(v, j) = m PROVE FALSE
      <4>1. Patches[v][j].index = i
        BY <1>6, <2>3, <3>3, PatchType
      <4> QED
        BY <2>4, <4>1 DEF OfIndex
    <3>4. Cardinality(Removed(v, m)) = 0
      BY <3>3, RemovedNever
    <3> QED
      BY <1>1, <1>5, <2>2, <3>2, <3>4
  <2>5. CASE OfIndex(v, i) # {}
    <3>1. ServerHash[v][m] = 0
      BY <1>2, <1>3, <1>7, <2>3, <2>5, ServerHashIs
    <3>2. \A j \in OfIndex(v, i) : j \in Nat /\ j \in DOMAIN Patches[v] /\ Patches[v][j].index = i
      BY OfIndexType
    <3>3. PICK n \in OfIndex(v, i) : \A j \in OfIndex(v, i) : n <= j
      BY <2>5, <3>2, LeastExists
    <3>4. Earlier(v, n) = {}
      BY <3>2, <3>3 DEF Earlier
    <3>5. PrevSetValueMac(v, n) = m
      BY <2>1, <3>2, <3>3, <3>4, PrevOld
    <3>6. ASSUME NEW j \in DOMAIN Patches[v], PrevSetValueMac(v, j) = m PROVE j = n
      <4>1. Earlier(v, j) = {} /\ Patches[v][j].index = i
        BY <1>6, <2>3, <3>6, PatchType
      <4>2. j \in OfIndex(v, i)
        BY <4>1 DEF OfIndex
      <4>3. ~(n < j)
        BY <3>3, <4>1 DEF Earlier
      <4> QED
        BY <3>2, <3>3, <4>2, <4>3
    <3>7. Cardinality(Removed(v, m)) = 1
      BY <3>2, <3>3, <3>5, <3>6, RemovedOnce
    <3> QED
      BY <1>1, <1>5, <2>2, <3>1, <3>7
  <2> QED
    BY <2>4, <2>5
<1> QED
  BY <1>8, <1>9

\* A patch decoded over the rows of the version before gives the server's hash.
LEMMA PatchSum ==
  ASSUME NEW v \in 1 .. Len(Patches), RowsAt(v - 1)
  PROVE  UpdateHash(ServerHash[v - 1], v) = ServerHash[v]
<1>1. ASSUME NEW m \in Macs
      PROVE  UpdateHash(ServerHash[v - 1], v)[m] = ServerHash[v][m]
  <2>1. PICK u \in 1 .. Len(Patches) : \E k \in DOMAIN Patches[u] : m = <<u, k>>
    BY MacType
  <2>2. PICK k \in DOMAIN Patches[u] : m = <<u, k>>
    BY <2>1
  <2> QED
    BY <2>2, SumOfNew, SumOfOld
<1>2. UpdateHash(ServerHash[v - 1], v) = [m \in Macs |-> UpdateHash(ServerHash[v - 1], v)[m]]
  BY DEF UpdateHash, SubtractThenAdd
<1>3. v \in Versions
  BY LenPatches DEF Versions
<1>4. ServerHash[v] = [m \in Macs |-> ServerHash[v][m]]
  BY <1>3, ServerHashIs
<1> QED
  BY <1>1, <1>2, <1>4

-----------------------------------------------------------------------------
(* Types.                                                                  *)

\* The empty events are a map of values.
LEMMA NothingSetType == NothingSet \in Values
BY DEF NothingSet, Values

\* The cursor of a collection never synced is the server's at version 0.
LEMMA NeverSyncedGenuine == Genuine(NeverSynced) /\ NeverSynced.version = 0
<1>1. EmptyHash \in [Macs -> {0, 1}] /\ 0 \in Versions
  BY LiveAtZero DEF EmptyHash
<1>2. NeverSynced \in HashStates /\ NeverSynced.version = 0 /\ NeverSynced.hash = EmptyHash
  BY <1>1 DEF NeverSynced, HashStates
<1> QED
  BY <1>2, ServerHashZero DEF Genuine, VerifySnapshotMac

\* The type of the absent page.
LEMMA NoPageType == NoPage \in PageLists
BY LenPatches DEF NoPage, PageLists, Versions

\* What a task that is not running carries.
LEMMA IdleType ==
  /\ Idle \in Tasks
  /\ Idle.pc = "idle" /\ Idle.state = NeverSynced /\ Idle.want = FALSE
  /\ Idle.page = NoPage /\ Idle.muts = NothingSet
<1>1. NeverSynced \in HashStates /\ NoPage \in PageLists /\ NothingSet \in Values
  BY NeverSyncedGenuine, NoPageType, NothingSetType DEF Genuine
<1> QED
  BY <1>1 DEF Idle, Tasks

\* The type of the absent result.
LEMMA NoResultType ==
  NoResult \in Results /\ NoResult.state = NeverSynced /\ NoResult.muts = NothingSet
<1>1. NeverSynced \in HashStates /\ NothingSet \in Values
  BY NeverSyncedGenuine, NothingSetType DEF Genuine
<1> QED
  BY <1>1 DEF NoResult, Results

\* A decoded item has passed its MAC.
LEMMA OutcomeOk ==
  ASSUME NEW key, NEW state, NEW records, Outcome(key, state, records) = "ok"
  PROVE  VerifySnapshotMac(state)
BY DEF Outcome

\* Events after events: the later ones prevail.
LEMMA ThenType ==
  ASSUME NEW m \in Values, NEW n \in Values
  PROVE  /\ Then(m, n) \in Values
         /\ \A i \in Indexes : /\ n[i] = NoMac => Then(m, n)[i] = m[i]
                               /\ n[i] # NoMac => Then(m, n)[i] = n[i]
BY DEF Then, Values

\* The events of a patch: the last value set of each index.
LEMMA EventsType ==
  ASSUME NEW v \in 1 .. Len(Patches)
  PROVE  EventsOf(v) \in Values
<1>1. ASSUME NEW i \in Indexes PROVE EventsOf(v)[i] \in Macs \cup {NoMac}
  <2>1. PICK T : T = {j \in OfIndex(v, i) : Patches[v][j].op = "SET"}
    OBVIOUS
  <2>2. EventsOf(v)[i] = IF T = {} THEN NoMac ELSE <<v, Max(T)>>
    BY <2>1 DEF EventsOf
  <2>3. CASE T = {}
    BY <2>2, <2>3
  <2>4. CASE T # {}
    <3>1. Len(Patches[v]) \in Nat /\ T \in SUBSET (1 .. Len(Patches[v]))
      BY <2>1, PatchType DEF OfIndex
    <3>2. Max(T) \in T
      BY <2>4, <3>1, MaxIsGreatest
    <3>3. Max(T) \in DOMAIN Patches[v]
      BY <2>1, <3>2, OfIndexType
    <3> QED
      BY <2>2, <2>4, <3>3, MacIn
  <2> QED
    BY <2>3, <2>4
<1>2. EventsOf(v) = [i \in Indexes |-> EventsOf(v)[i]]
  BY DEF EventsOf
<1> QED
  BY <1>1, <1>2 DEF Values

\* The events of a patch tell every value that it leaves set.
LEMMA EventsTell ==
  ASSUME NEW v \in 1 .. Len(Patches), NEW i \in Indexes, LiveAt[v][i] # NoMac
  PROVE  \/ EventsOf(v)[i] = LiveAt[v][i]
         \/ EventsOf(v)[i] = NoMac /\ LiveAt[v][i] = LiveAt[v - 1][i]
<1>1. PICK T : T = {j \in OfIndex(v, i) : Patches[v][j].op = "SET"}
  OBVIOUS
<1>2. EventsOf(v)[i] = IF T = {} THEN NoMac ELSE <<v, Max(T)>>
  BY <1>1 DEF EventsOf
<1>3. CASE OfIndex(v, i) = {}
  <2>1. T = {}
    BY <1>1, <1>3
  <2> QED
    BY <1>2, <1>3, <2>1, LiveAtUntouched
<1>4. CASE OfIndex(v, i) # {}
  <2>1. PICK n : n = Max(OfIndex(v, i))
    OBVIOUS
  <2>2. n \in OfIndex(v, i) /\ \A j \in OfIndex(v, i) : j <= n
    BY <1>4, <2>1, OfIndexMax
  <2>3. Patches[v][n].op = "SET" /\ LiveAt[v][i] = <<v, n>>
    BY <1>4, <2>1, LiveAtTouched, ValueInType
  <2>4. T \in SUBSET Int /\ n \in T /\ \A j \in T : j <= n
    BY <1>1, <2>2, <2>3, OfIndexType
  <2>5. Max(T) = n
    BY <2>4, MaxIs
  <2> QED
    BY <1>2, <2>3, <2>4, <2>5
<1> QED
  BY <1>3, <1>4

\* Value MACs of rows to be put.
LEMMA PutType ==
  ASSUME NEW at \in Nat, NEW v \in Versions, NEW i \in Indexes, NEW mac \in Macs
  PROVE  /\ PutMutationMac(at, v, i, mac) \in Writes
         /\ PutMutationMac(at, v, i, mac).kind = "put"
         /\ PutMutationMac(at, v, i, mac).at = at
         /\ PutMutationMac(at, v, i, mac).row = [version |-> v, index |-> i, mac |-> mac]
         /\ PutMutationMac(at, v, i, mac).row.version = v
         /\ PutMutationMac(at, v, i, mac).row.index = i
         /\ PutMutationMac(at, v, i, mac).row.mac = mac
<1>1. [version |-> v, index |-> i, mac |-> mac] \in Rows
  BY DEF Rows
<1>2. PutMutationMac(at, v, i, mac) \in [kind : {"put"}, at : Nat, row : Rows]
  BY <1>1 DEF PutMutationMac
<1> QED
  BY <1>2 DEF Writes, PutMutationMac

\* A delete, field by field.
LEMMA DeleteType ==
  ASSUME NEW at \in Nat, NEW i \in Indexes
  PROVE  /\ DeleteMutationMac(at, i) \in Writes
         /\ DeleteMutationMac(at, i).kind = "delete"
         /\ DeleteMutationMac(at, i).at = at
         /\ DeleteMutationMac(at, i).index = i
<1>1. DeleteMutationMac(at, i) \in [kind : {"delete"}, at : Nat, index : Indexes]
  BY DEF DeleteMutationMac
<1> QED
  BY <1>1 DEF Writes, DeleteMutationMac

\* The write of the cursor, field by field.
LEMMA VersionType ==
  ASSUME NEW state \in HashStates
  PROVE  /\ PutVersion(state) \in Writes
         /\ PutVersion(state).kind = "version"
         /\ PutVersion(state).at = 0
         /\ PutVersion(state).state = state
<1>1. PutVersion(state) \in [kind : {"version"}, at : Nat, state : HashStates]
  BY DEF PutVersion
<1> QED
  BY <1>1 DEF Writes, PutVersion

\* A pending write has the fields of its kind.
LEMMA WritesType ==
  ASSUME NEW w \in Writes
  PROVE  /\ w.at \in Nat
         /\ w.kind \in {"version", "delete", "put"}
         /\ w.kind = "version" => w.state \in HashStates
         /\ w.kind = "delete" => w.index \in Indexes
         /\ w.kind = "put" => w.row \in Rows
BY DEF Writes

\* The rows of an item's mutations: of its version, one for each place.
RowsOfItem(deltas, v) ==
    /\ deltas \subseteq Writes
    /\ \A w \in deltas :
         /\ w.kind # "version"
         /\ w.kind = "put" => w.row.version = v
         /\ \A x \in deltas : w.kind = "put" /\ x.kind = "put" /\ x.at = w.at
                                /\ x.row.index = w.row.index => x = w

\* The rows of a snapshot are of its version, one for each index.
LEMMA SnapshotDeltas ==
  ASSUME NEW v \in Versions
  PROVE  RowsOfItem(SnapshotRows(v), v)
<1>1. ASSUME NEW i \in LiveIndexes(v)
      PROVE  i \in Indexes /\ LiveAt[v][i] \in Macs
  BY LiveAtValues DEF LiveIndexes, Values
<1>2. ASSUME NEW w \in SnapshotRows(v)
      PROVE  \E i \in LiveIndexes(v) : w = PutMutationMac(0, v, i, LiveAt[v][i])
  BY DEF SnapshotRows, SnapshotRow
<1>3. ASSUME NEW w \in SnapshotRows(v)
      PROVE  /\ w \in Writes /\ w.kind = "put" /\ w.row.version = v
             /\ w.row.index \in LiveIndexes(v)
             /\ w = PutMutationMac(0, v, w.row.index, LiveAt[v][w.row.index])
  <2>1. PICK i \in LiveIndexes(v) : w = PutMutationMac(0, v, i, LiveAt[v][i])
    BY <1>2
  <2>2. i \in Indexes /\ LiveAt[v][i] \in Macs
    BY <1>1
  <2>3. /\ w \in Writes /\ w.kind = "put" /\ w.row.version = v /\ w.row.index = i
    <3>1. PICK z : z = 0
      OBVIOUS
    <3>2. PICK mac : mac = LiveAt[v][i]
      OBVIOUS
    <3>3. z \in Nat /\ i \in Indexes /\ mac \in Macs /\ w = PutMutationMac(z, v, i, mac)
      BY <2>1, <2>2, <3>1, <3>2
    <3>4. w \in Writes
      BY <3>3, PutType
    <3>5. w.kind = "put" /\ w.row.version = v /\ w.row.index = i
      BY <3>3 DEF PutMutationMac
    <3> QED
      BY <3>4, <3>5
  <2> QED
    BY <2>1, <2>3
<1> QED
  BY <1>3 DEF RowsOfItem

\* The writes of a patch, by the mutations they come from.
LEMMA PatchWrites ==
  ASSUME NEW v \in 1 .. Len(Patches), NEW w \in ComputeMacDeltas(v)
  PROVE  \E j \in DOMAIN Patches[v] :
            /\ j \in Nat \ {0}
            /\ w.at = j
            /\ w \in Writes
            /\ \/ /\ w.kind = "delete" /\ w.index = Patches[v][j].index
                  /\ Patches[v][j].op = "REMOVE"
                  /\ w = DeleteMutationMac(j, Patches[v][j].index)
               \/ /\ w.kind = "put"
                  /\ w.row = [version |-> v, index |-> Patches[v][j].index, mac |-> <<v, j>>]
                  /\ w = PutMutationMac(j, v, Patches[v][j].index, <<v, j>>)
                  /\ \A k \in OfIndex(v, Patches[v][j].index) :
                        k >= j => Patches[v][k].op # "REMOVE"
<1>1. v \in Versions
  BY LenPatches DEF Versions
<1>2. \/ \E j \in DOMAIN Patches[v] :
            Patches[v][j].op = "REMOVE" /\ w = DeleteMutationMac(j, Patches[v][j].index)
      \/ \E j \in DOMAIN Patches[v] :
            /\ \A k \in OfIndex(v, Patches[v][j].index) :
                        k >= j => Patches[v][k].op # "REMOVE"
            /\ w = PutMutationMac(j, v, Patches[v][j].index, <<v, j>>)
  BY DEF ComputeMacDeltas
<1>3. \A j \in DOMAIN Patches[v] :
         j \in Nat \ {0} /\ Patches[v][j].index \in Indexes /\ <<v, j>> \in Macs
  BY PatchType, MacIn
<1>4. ASSUME NEW j \in DOMAIN Patches[v], Patches[v][j].op = "REMOVE",
             w = DeleteMutationMac(j, Patches[v][j].index)
      PROVE  w \in Writes /\ w.kind = "delete" /\ w.index = Patches[v][j].index /\ w.at = j
  <2>1. j \in Nat /\ Patches[v][j].index \in Indexes
    BY <1>3
  <2> QED
    BY ONLY <1>4, <2>1, DeleteType
<1>5. ASSUME NEW j \in DOMAIN Patches[v],
             w = PutMutationMac(j, v, Patches[v][j].index, <<v, j>>)
      PROVE  /\ w \in Writes /\ w.kind = "put" /\ w.at = j
             /\ w.row = [version |-> v, index |-> Patches[v][j].index, mac |-> <<v, j>>]
  BY <1>1, <1>3, <1>5, PutType
<1>6. CASE \E j \in DOMAIN Patches[v] :
            Patches[v][j].op = "REMOVE" /\ w = DeleteMutationMac(j, Patches[v][j].index)
  <2>1. PICK j \in DOMAIN Patches[v] :
            Patches[v][j].op = "REMOVE" /\ w = DeleteMutationMac(j, Patches[v][j].index)
    BY <1>6
  <2>2. w \in Writes /\ w.kind = "delete" /\ w.index = Patches[v][j].index /\ w.at = j
    BY <1>4, <2>1
  <2> QED
    BY <1>3, <2>1, <2>2
<1>7. CASE \E j \in DOMAIN Patches[v] :
            /\ \A k \in OfIndex(v, Patches[v][j].index) :
                        k >= j => Patches[v][k].op # "REMOVE"
            /\ w = PutMutationMac(j, v, Patches[v][j].index, <<v, j>>)
  <2>1. PICK j \in DOMAIN Patches[v] :
            /\ \A k \in OfIndex(v, Patches[v][j].index) :
                        k >= j => Patches[v][k].op # "REMOVE"
            /\ w = PutMutationMac(j, v, Patches[v][j].index, <<v, j>>)
    BY <1>7
  <2>2. /\ w \in Writes /\ w.kind = "put" /\ w.at = j
        /\ w.row = [version |-> v, index |-> Patches[v][j].index, mac |-> <<v, j>>]
    BY <1>5, <2>1
  <2> QED
    BY <1>3, <2>1, <2>2
<1> QED
  BY <1>2, <1>6, <1>7

\* The rows of a patch are of its version, one for each place of the list.
LEMMA PatchDeltas ==
  ASSUME NEW v \in 1 .. Len(Patches)
  PROVE  RowsOfItem(ComputeMacDeltas(v), v)
<1>1. ASSUME NEW w \in ComputeMacDeltas(v) PROVE w \in Writes
  BY PatchWrites
<1>2. ASSUME NEW w \in ComputeMacDeltas(v)
      PROVE  w.kind # "version" /\ (w.kind = "put" => w.row.version = v)
  <2>1. PICK j : \/ w.kind = "delete"
                 \/ /\ w.kind = "put"
                    /\ w.row = [version |-> v, index |-> Patches[v][j].index, mac |-> <<v, j>>]
    BY PatchWrites
  <2> QED
    BY <2>1
<1>3. ASSUME NEW w \in ComputeMacDeltas(v), NEW x \in ComputeMacDeltas(v),
             w.kind = "put", x.kind = "put", x.at = w.at
      PROVE  x = w
  <2>1. PICK j \in DOMAIN Patches[v] :
          w.at = j /\ w = PutMutationMac(j, v, Patches[v][j].index, <<v, j>>)
    BY <1>3, PatchWrites
  <2>2. PICK k \in DOMAIN Patches[v] :
          x.at = k /\ x = PutMutationMac(k, v, Patches[v][k].index, <<v, k>>)
    BY <1>3, PatchWrites
  <2>3. j = k
    BY <1>3, <2>1, <2>2
  <2> QED
    BY <2>1, <2>2, <2>3
<1> QED
  BY <1>1, <1>2, <1>3 DEF RowsOfItem

-----------------------------------------------------------------------------
(* Types, genuine cursors, pages and pending writes, by action.            *)

\* The stored cursor is a hash state.
LEMMA CursorType ==
  ASSUME TypeOK
  PROVE  Cursor \in HashStates /\ Cursor.version = store.version /\ Cursor.hash = store.hash
<1>1. store.version \in Versions /\ store.hash \in [Macs -> {0, 1}]
  BY DEF TypeOK, Stores
<1> QED
  BY <1>1 DEF Cursor, HashStates

\* The cursor changes with the store only.
LEMMA CursorSame ==
  ASSUME store' = store
  PROVE  Cursor' = Cursor
BY DEF Cursor

\* Tasks with the server's cursors and the same store.
LEMMA CursorsGenuineSame ==
  ASSUME CursorsGenuine, store' = store,
         \A f \in Fetches : Genuine(fetch'[f].state), Genuine(result'.state)
  PROVE  CursorsGenuine'
<1>1. Cursor' = Cursor
  BY CursorSame
<1> QED
  BY <1>1 DEF CursorsGenuine

\* The pending writes and the result stay.
LEMMA WritesOfResultSame ==
  ASSUME WritesOfResult, writes' = writes, result' = result
  PROVE  WritesOfResult'
BY DEF WritesOfResult, Puts

\* Nothing is pending.
LEMMA WritesOfNone ==
  ASSUME writes' = {}
  PROVE  WritesOfResult'
BY DEF WritesOfResult

\* The server and the phone.
LEMMA BasicQuiet ==
  ASSUME Basic, sver' \in Versions, keys' \subseteq Keys,
         UNCHANGED <<store, fetch, loop, result, pageMuts, writes, view, disturbed, lossy, faults>>
  PROVE  Basic'
<1>1. TypeOK'
  BY DEF Basic, TypeOK
<1>2. CursorsGenuine'
  BY CursorsGenuineSame DEF Basic, CursorsGenuine
<1>3. PagesFollow' /\ LoopState'
  BY DEF Basic, PagesFollow, LoopState
<1>4. WritesOfResult'
  BY WritesOfResultSame DEF Basic
<1> QED
  BY <1>1, <1>2, <1>3, <1>4 DEF Basic

\* A step that only gives task f new local variables t, outside apply_patch_list.
LEMMA BasicTask ==
  ASSUME Basic, NEW f \in Fetches, NEW t \in Tasks, loop = Nobody,
         fetch' = [fetch EXCEPT ![f] = t], view' \in Values, lossy' \in BOOLEAN,
         Genuine(t.state), t.want => t.state.version = 0,
         t.pc = "page" =>
             /\ t.page.snapshot > 0 =>
                  t.state.version = 0 /\ t.page.next = t.page.snapshot + 1
             /\ t.page.snapshot = 0 => t.page.next = t.state.version + 1,
         t.pc = "idle" => t.muts = NothingSet,
         UNCHANGED <<sver, keys, store, loop, result, pageMuts, writes, disturbed>>,
         faults' \in 0 .. MaxFaults
  PROVE  Basic'
<1>0. /\ fetch' \in [Fetches -> Tasks] /\ fetch'[f] = t
      /\ \A g \in Fetches \ {f} : fetch'[g] = fetch[g]
  BY DEF Basic, TypeOK
<1>1. TypeOK'
  BY <1>0 DEF Basic, TypeOK
<1>2. CursorsGenuine'
  <2>1. \A g \in Fetches : Genuine(fetch'[g].state)
    BY <1>0 DEF Basic, CursorsGenuine
  <2> QED
    BY <2>1, CursorsGenuineSame DEF Basic, CursorsGenuine
<1>3. PagesFollow'
  <2>1. \A g \in Fetches : loop # g
    BY FetchesAssumption
  <2> QED
    BY <1>0, <2>1 DEF Basic, PagesFollow
<1>4. LoopState'
  <2>1. loop \notin Fetches
    BY FetchesAssumption
  <2> QED
    BY <1>0, <2>1 DEF Basic, LoopState
<1>5. WritesOfResult'
  BY WritesOfResultSame DEF Basic
<1> QED
  BY <1>1, <1>2, <1>3, <1>4, <1>5 DEF Basic

\* The task that a server_sync starts.
LEMMA FetchTask ==
  ASSUME TypeOK
  PROVE  LET t == [Idle EXCEPT !.pc = "wait", !.state = Cursor, !.want = store.version = 0]
         IN  /\ t \in Tasks /\ t.pc = "wait" /\ t.state = Cursor
             /\ t.want = (store.version = 0) /\ t.muts = NothingSet
<1>1. Cursor \in HashStates
  BY CursorType
<1> QED
  BY <1>1, IdleType DEF Tasks

\* A task starts.
LEMMA BasicFetch ==
  ASSUME Basic, NEW f \in Fetches, Fetch(f)
  PROVE  Basic'
<1>1. PICK t : t = [Idle EXCEPT !.pc = "wait", !.state = Cursor, !.want = store.version = 0]
  OBVIOUS
<1>2. t \in Tasks /\ t.pc = "wait" /\ t.state = Cursor /\ t.want = (store.version = 0)
  BY <1>1, FetchTask DEF Basic
<1>3. fetch' = [fetch EXCEPT ![f] = t] /\ loop = Nobody
  BY <1>1 DEF Fetch
<1>4. Genuine(t.state) /\ (t.want => t.state.version = 0)
  BY <1>2, CursorType DEF Basic, CursorsGenuine
<1>5. UNCHANGED <<sver, keys, store, loop, result, pageMuts, writes, view, disturbed, lossy, faults>>
  BY DEF Fetch, applyVars, history
<1>6. view' \in Values /\ lossy' \in BOOLEAN /\ faults' \in 0 .. MaxFaults
  BY <1>5 DEF Basic, TypeOK
<1> QED
  BY <1>2, <1>3, <1>4, <1>5, <1>6, BasicTask

\* The pages a server may send.
LEMMA PagesType ==
  ASSUME NEW n \in Versions, NEW want \in BOOLEAN, sver \in Versions, NEW p \in Pages(n, want)
  PROVE  /\ p \in PageLists
         /\ p.snapshot > 0 => want /\ p.next = p.snapshot + 1
         /\ p.snapshot = 0 => p.next = n + 1
<1>1. n \in Nat /\ sver \in Nat /\ n <= Len(Patches) /\ sver <= Len(Patches) /\ Len(Patches) \in Nat
  BY LenPatches DEF Versions
<1>2. CASE want /\ sver > 0
  <2>1. PICK v \in 1 .. sver : \E m \in v .. sver :
          p = [snapshot |-> v, next |-> v + 1, upto |-> m, more |-> m < sver]
    BY <1>2 DEF Pages
  <2>2. PICK m \in v .. sver :
          p = [snapshot |-> v, next |-> v + 1, upto |-> m, more |-> m < sver]
    BY <2>1
  <2>3. v \in Versions /\ m \in Versions /\ v + 1 \in 1 .. Len(Patches) + 1 /\ v > 0
    BY <1>1 DEF Versions
  <2> QED
    BY <1>2, <2>2, <2>3 DEF PageLists
<1>3. CASE ~(want /\ sver > 0)
  <2>1. PICK m \in n .. sver :
          p = [snapshot |-> 0, next |-> n + 1, upto |-> m, more |-> m < sver]
    BY <1>3 DEF Pages
  <2>2. 0 \in Versions /\ m \in Versions /\ n + 1 \in 1 .. Len(Patches) + 1
    BY <1>1 DEF Versions
  <2> QED
    BY <2>1, <2>2 DEF PageLists
<1> QED
  BY <1>2, <1>3

\* A page arrives.
LEMMA BasicAnswer ==
  ASSUME Basic, NEW f \in Fetches, Answer(f)
  PROVE  Basic'
<1>1. fetch \in [Fetches -> Tasks] /\ fetch[f] \in Tasks /\ sver \in Versions
  BY DEF Basic, TypeOK
<1>2. PICK s : s = fetch[f]
  OBVIOUS
<1>3. PICK p \in Pages(s.state.version, s.want) :
        fetch' = [fetch EXCEPT ![f].pc = "page", ![f].page = p]
  BY <1>2 DEF Answer
<1>4. s \in Tasks /\ s.state.version \in Versions /\ s.want \in BOOLEAN
  BY <1>1, <1>2 DEF Tasks, HashStates
<1>5. /\ p \in PageLists
      /\ p.snapshot > 0 => s.want /\ p.next = p.snapshot + 1
      /\ p.snapshot = 0 => p.next = s.state.version + 1
  BY <1>1, <1>3, <1>4, PagesType
<1>6. PICK t : t = [s EXCEPT !.pc = "page", !.page = p]
  OBVIOUS
<1>7. /\ t \in Tasks /\ t.pc = "page" /\ t.page = p /\ t.state = s.state /\ t.want = s.want
      /\ t.muts = s.muts
  BY <1>4, <1>5, <1>6 DEF Tasks
<1>8. fetch' = [fetch EXCEPT ![f] = t]
  BY <1>1, <1>2, <1>3, <1>4, <1>6 DEF Tasks
<1>9. UNCHANGED <<sver, keys, store, loop, result, pageMuts, writes, view, disturbed, lossy, faults>>
      /\ loop = Nobody
  BY DEF Answer, applyVars, history
<1>10. Genuine(t.state) /\ (t.want => t.state.version = 0)
  BY <1>2, <1>7 DEF Basic, CursorsGenuine, PagesFollow
<1>11. view' \in Values /\ lossy' \in BOOLEAN /\ faults' \in 0 .. MaxFaults
  BY <1>9 DEF Basic, TypeOK
<1> QED
  BY <1>5, <1>7, <1>8, <1>9, <1>10, <1>11, BasicTask

\* A step by which task f leaves apply_patch_list, or gives up outside it.
LEMMA BasicLeave ==
  ASSUME Basic, NEW f \in Fetches, NEW t \in Tasks, loop \in {f, Nobody},
         fetch' = [fetch EXCEPT ![f] = t], lossy' \in BOOLEAN, disturbed' \in BOOLEAN,
         Genuine(t.state), t.want => t.state.version = 0, t.pc # "page",
         t.pc = "idle" => t.muts = NothingSet,
         loop' = Nobody, result' = NoResult, pageMuts' = NothingSet, writes' = {},
         UNCHANGED <<sver, keys, store, view>>,
         faults' \in 0 .. MaxFaults
  PROVE  Basic'
<1>0. /\ fetch' \in [Fetches -> Tasks] /\ fetch'[f] = t
      /\ \A g \in Fetches \ {f} : fetch'[g] = fetch[g]
  BY DEF Basic, TypeOK
<1>1. TypeOK'
  BY <1>0, NoResultType, NothingSetType DEF Basic, TypeOK
<1>2. CursorsGenuine'
  <2>1. \A g \in Fetches : Genuine(fetch'[g].state)
    BY <1>0 DEF Basic, CursorsGenuine
  <2>2. Genuine(result'.state)
    BY NoResultType, NeverSyncedGenuine
  <2> QED
    BY <2>1, <2>2, CursorsGenuineSame DEF Basic
<1>3. PagesFollow'
  <2>1. \A g \in Fetches : loop' # g
    BY FetchesAssumption
  <2>2. \A g \in Fetches \ {f} : loop # g
    BY FetchesAssumption
  <2> QED
    BY <1>0, <2>1, <2>2 DEF Basic, PagesFollow
<1>4. LoopState'
  <2>1. loop' \notin Fetches
    BY FetchesAssumption
  <2> QED
    BY <1>0, <2>1 DEF Basic, LoopState
<1>5. WritesOfResult'
  BY WritesOfNone
<1> QED
  BY <1>1, <1>2, <1>3, <1>4, <1>5 DEF Basic

\* A task fails.
LEMMA BasicRaise ==
  ASSUME Basic, NEW f \in Fetches, loop \in {f, Nobody}, Raise(f),
         disturbed' = disturbed, faults' \in 0 .. MaxFaults
  PROVE  Basic'
<1>1. Idle \in Tasks /\ Idle.pc = "idle" /\ Idle.muts = NothingSet /\ Idle.want = FALSE
      /\ Genuine(Idle.state)
  BY IdleType, NeverSyncedGenuine
<1>2. lossy' \in BOOLEAN /\ disturbed' \in BOOLEAN
  BY DEF Raise, Basic, TypeOK
<1>3. /\ fetch' = [fetch EXCEPT ![f] = Idle]
      /\ loop' = Nobody /\ result' = NoResult /\ pageMuts' = NothingSet /\ writes' = {}
      /\ UNCHANGED <<sver, keys, store, view>>
  BY DEF Raise
<1> QED
  BY <1>1, <1>2, <1>3, BasicLeave

\* What a fetch that has finished keeps: the mutations to emit.
FinishedTask(muts) ==
    IF muts = NothingSet THEN Idle ELSE [Idle EXCEPT !.pc = "emit", !.muts = muts]

\* The finished task, field by field.
LEMMA FinishedType ==
  ASSUME NEW muts \in Values
  PROVE  /\ FinishedTask(muts) \in Tasks
         /\ FinishedTask(muts).pc \in {"idle", "emit"}
         /\ FinishedTask(muts).muts = muts
         /\ FinishedTask(muts).pc = "emit" <=> muts # NothingSet
         /\ FinishedTask(muts).state = NeverSynced
         /\ FinishedTask(muts).want = FALSE
<1>1. CASE muts = NothingSet
  BY <1>1, IdleType DEF FinishedTask
<1>2. CASE muts # NothingSet
  <2>1. PICK t : t = [Idle EXCEPT !.pc = "emit", !.muts = muts]
    OBVIOUS
  <2>2. /\ t \in Tasks /\ t.pc = "emit" /\ t.muts = muts /\ t.state = NeverSynced
        /\ t.want = FALSE
    BY <2>1, IdleType DEF Tasks
  <2>3. FinishedTask(muts) = t
    BY <1>2, <2>1 DEF FinishedTask
  <2> QED
    BY <1>2, <2>2, <2>3
<1> QED
  BY <1>1, <1>2

\* A task finishes.
LEMMA BasicFinish ==
  ASSUME Basic, NEW f \in Fetches, loop = f, writes = {},
         NEW muts \in Values, NEW unsent, Finish(f, muts, unsent)
  PROVE  Basic'
<1>1. PICK t : t = FinishedTask(muts)
  OBVIOUS
<1>2. /\ t \in Tasks /\ t.pc \in {"idle", "emit"} /\ t.muts = muts
      /\ (t.pc = "emit" <=> muts # NothingSet) /\ t.state = NeverSynced /\ t.want = FALSE
  BY <1>1, FinishedType
<1>3. fetch' = [fetch EXCEPT ![f] = t]
  BY <1>1 DEF Finish, FinishedTask
<1>4. lossy' \in BOOLEAN /\ disturbed' \in BOOLEAN /\ faults' \in 0 .. MaxFaults
  BY DEF Finish, Basic, TypeOK
<1>5. /\ loop' = Nobody /\ result' = NoResult /\ pageMuts' = NothingSet /\ writes' = {}
      /\ UNCHANGED <<sver, keys, store, view>>
  BY DEF Finish
<1>6. Genuine(t.state)
  BY <1>2, NeverSyncedGenuine
<1> QED
  BY <1>2, <1>3, <1>4, <1>5, <1>6, BasicLeave

\* A task enters apply_patch_list.
LEMMA BasicApply ==
  ASSUME Basic, NEW f \in Fetches, ApplyPatchList(f)
  PROVE  Basic'
<1>1. fetch \in [Fetches -> Tasks] /\ fetch[f] \in Tasks
  BY DEF Basic, TypeOK
<1>2. /\ loop = Nobody /\ fetch[f].pc = "page" /\ loop' = f /\ pageMuts' = NothingSet
      /\ fetch' = [fetch EXCEPT ![f].want = FALSE]
      /\ UNCHANGED <<sver, keys, store, result, writes, view, lossy, faults>>
      /\ disturbed' = (disturbed \/ fetch[f].state # Cursor)
  BY DEF ApplyPatchList
<1>3. PICK t : t = [fetch[f] EXCEPT !.want = FALSE]
  OBVIOUS
<1>4. /\ t \in Tasks /\ t.pc = "page" /\ t.want = FALSE /\ t.page = fetch[f].page
      /\ t.state = fetch[f].state /\ t.muts = fetch[f].muts
  BY <1>1, <1>2, <1>3 DEF Tasks
<1>5. /\ fetch' \in [Fetches -> Tasks] /\ fetch'[f] = t
      /\ \A g \in Fetches \ {f} : fetch'[g] = fetch[g]
  BY <1>1, <1>2, <1>3, <1>4
<1>6. TypeOK'
  BY <1>2, <1>5, NothingSetType DEF Basic, TypeOK
<1>7. CursorsGenuine'
  <2>1. \A g \in Fetches : Genuine(fetch'[g].state)
    BY <1>4, <1>5 DEF Basic, CursorsGenuine
  <2> QED
    BY <1>2, <2>1, CursorsGenuineSame DEF Basic, CursorsGenuine
<1>8. writes = {}
  BY <1>2, FetchesAssumption DEF Basic, LoopState
<1>9. PagesFollow'
  BY <1>2, <1>4, <1>5, <1>8 DEF Basic, PagesFollow
<1>10. LoopState'
  BY <1>2, <1>4, <1>5, <1>8, FetchesAssumption DEF Basic, LoopState
<1>11. WritesOfResult'
  BY <1>2, WritesOfResultSame DEF Basic
<1> QED
  BY <1>6, <1>7, <1>9, <1>10, <1>11 DEF Basic

\* One event emitted: what the task keeps and what the application learns.
EmittedTask(s, i) ==
    LET left == [s.muts EXCEPT ![i] = NoMac]
    IN  IF left = NothingSet THEN Idle ELSE [s EXCEPT !.muts = left]

\* The task past an event, field by field.
LEMMA EmittedType ==
  ASSUME NEW s \in Tasks, NEW i \in Indexes, s.pc = "emit"
  PROVE  /\ EmittedTask(s, i) \in Tasks
         /\ EmittedTask(s, i).pc \in {"idle", "emit"}
         /\ EmittedTask(s, i).muts = [s.muts EXCEPT ![i] = NoMac]
         /\ EmittedTask(s, i).pc = "idle" => EmittedTask(s, i).muts = NothingSet
         /\ EmittedTask(s, i).state \in {NeverSynced, s.state}
         /\ EmittedTask(s, i).want \in {FALSE, s.want}
<1>1. PICK left : left = [s.muts EXCEPT ![i] = NoMac]
  OBVIOUS
<1>2. s.muts \in Values /\ left \in Values
  BY <1>1 DEF Tasks, Values
<1>3. CASE left = NothingSet
  <2>1. EmittedTask(s, i) = Idle
    BY <1>1, <1>3 DEF EmittedTask
  <2> QED
    BY <1>1, <1>3, <2>1, IdleType
<1>4. CASE left # NothingSet
  <2>1. PICK t : t = [s EXCEPT !.muts = left]
    OBVIOUS
  <2>2. t \in Tasks /\ t.pc = "emit" /\ t.muts = left /\ t.state = s.state /\ t.want = s.want
    BY <1>2, <2>1 DEF Tasks
  <2>3. EmittedTask(s, i) = t
    BY <1>1, <1>4, <2>1 DEF EmittedTask
  <2> QED
    BY <1>1, <2>2, <2>3
<1> QED
  BY <1>3, <1>4

\* An Emit step in terms of these.
LEMMA EmitStep ==
  ASSUME TypeOK, NEW f \in Fetches, Emit(f)
  PROVE  \E i \in Indexes :
            /\ fetch[f].muts[i] # NoMac
            /\ view' = [view EXCEPT ![i] = fetch[f].muts[i]]
            /\ fetch' = [fetch EXCEPT ![f] = EmittedTask(fetch[f], i)]
<1>1. fetch \in [Fetches -> Tasks]
  BY DEF TypeOK
<1>2. PICK i \in Indexes :
        /\ fetch[f].muts[i] # NoMac
        /\ view' = [view EXCEPT ![i] = fetch[f].muts[i]]
        /\ fetch' = [fetch EXCEPT ![f] =
              IF [fetch[f].muts EXCEPT ![i] = NoMac] = NothingSet THEN Idle
              ELSE [@ EXCEPT !.muts = [fetch[f].muts EXCEPT ![i] = NoMac]]]
  BY DEF Emit
<1>3. fetch' = [fetch EXCEPT ![f] = EmittedTask(fetch[f], i)]
  BY <1>1, <1>2 DEF EmittedTask
<1> QED
  BY <1>2, <1>3

\* An event is emitted.
LEMMA BasicEmit ==
  ASSUME Basic, NEW f \in Fetches, Emit(f)
  PROVE  Basic'
<1>1. fetch \in [Fetches -> Tasks] /\ fetch[f] \in Tasks /\ view \in Values
  BY DEF Basic, TypeOK
<1>2. PICK i \in Indexes :
        /\ fetch[f].muts[i] # NoMac
        /\ view' = [view EXCEPT ![i] = fetch[f].muts[i]]
        /\ fetch' = [fetch EXCEPT ![f] = EmittedTask(fetch[f], i)]
  BY EmitStep DEF Basic
<1>3. PICK s : s = fetch[f]
  OBVIOUS
<1>4. PICK t : t = EmittedTask(s, i)
  OBVIOUS
<1>5. /\ t \in Tasks /\ t.pc \in {"idle", "emit"} /\ (t.pc = "idle" => t.muts = NothingSet)
      /\ t.state \in {NeverSynced, s.state} /\ t.want \in {FALSE, s.want}
      /\ t.muts = [s.muts EXCEPT ![i] = NoMac]
  BY <1>1, <1>3, <1>4, EmittedType DEF Emit, Emitting
<1>6. Genuine(t.state) /\ (t.want => t.state.version = 0)
  BY <1>3, <1>5, NeverSyncedGenuine DEF Basic, CursorsGenuine, PagesFollow
<1>7. loop = Nobody /\ UNCHANGED <<sver, keys, store, loop, result, pageMuts, writes, disturbed,
                                   lossy, faults>>
  BY DEF Emit, applyVars, history
<1>8. view' \in Values
  <2>1. s.muts[i] \in Macs \cup {NoMac}
    BY <1>1, <1>3 DEF Tasks, Values
  <2> QED
    BY <1>1, <1>2, <1>3, <2>1 DEF Values
<1>9. lossy' \in BOOLEAN /\ faults' \in 0 .. MaxFaults
  BY <1>7 DEF Basic, TypeOK
<1>10. fetch' = [fetch EXCEPT ![f] = t]
  BY <1>2, <1>3, <1>4
<1> QED
  BY <1>5, <1>6, <1>7, <1>8, <1>9, <1>10, BasicTask

\* The server's cursor at a version.
ServerCursor(v) == [version |-> v, hash |-> ServerHash[v]]

\* The server's cursor at a version is genuine.
LEMMA ServerCursorType ==
  ASSUME NEW v \in Versions
  PROVE  /\ Genuine(ServerCursor(v)) /\ ServerCursor(v) \in HashStates
         /\ ServerCursor(v).version = v
<1>1. ServerHash[v] \in [Macs -> {0, 1}]
  BY ServerHashIs
<1>2. /\ ServerCursor(v) \in HashStates /\ ServerCursor(v).version = v
      /\ ServerCursor(v).hash = ServerHash[v]
  BY <1>1 DEF ServerCursor, HashStates
<1> QED
  BY <1>2 DEF Genuine, VerifySnapshotMac

\* Two genuine cursors of one version are equal.
LEMMA GenuineUnique ==
  ASSUME NEW s, NEW t, Genuine(s), Genuine(t), s.version = t.version
  PROVE  s = t
<1>1. s \in HashStates /\ t \in HashStates /\ s.hash = t.hash
  BY DEF Genuine, VerifySnapshotMac
<1> QED
  BY <1>1 DEF HashStates

\* The item was decoded: the cursor to persist is the server's at v.
Decoded(f, v, events, deltas, t) ==
    /\ result' = [state |-> ServerCursor(v), muts |-> events]
    /\ writes' = {PutVersion(ServerCursor(v))} \cup deltas
    /\ fetch' = [fetch EXCEPT ![f] = t]
    /\ UNCHANGED <<sver, keys, store, loop, pageMuts, view, disturbed, lossy, faults>>
    /\ t \in Tasks /\ t.pc = fetch[f].pc /\ t.want = fetch[f].want
    /\ t.state = fetch[f].state /\ t.muts = fetch[f].muts
    /\ t.page.snapshot = 0 /\ t.page.next = v + 1

\* The four ways an item ends.
LEMMA DecodeSnapshotCases ==
  ASSUME Basic, NEW f \in Fetches, DecodeSnapshot(f)
  PROVE  /\ loop = f /\ writes = {} /\ fetch[f].page.snapshot \in 1 .. Len(Patches)
         /\ fetch[f].state.version = 0
         /\ \/ \E t : LET v == fetch[f].page.snapshot
                      IN  Decoded(f, v, LiveAt[v], SnapshotRows(v), t)
            \/ Finish(f, fetch[f].muts, pageMuts)
            \/ SnapshotOutcome(f) = "MacMismatch" /\ Raise(f) /\ UNCHANGED <<disturbed, faults>>
<1>1. PICK v : v = fetch[f].page.snapshot
  OBVIOUS
<1>2. PICK s : s = fetch[f]
  OBVIOUS
<1>3. fetch \in [Fetches -> Tasks] /\ s \in Tasks /\ s.page \in PageLists /\ s.state \in HashStates
  BY <1>2 DEF Basic, TypeOK, Tasks
<1>4. loop = f /\ writes = {} /\ v > 0 /\ v = s.page.snapshot
  BY <1>1, <1>2 DEF DecodeSnapshot
<1>5. v \in 1 .. Len(Patches) /\ v \in Versions
  BY <1>3, <1>4, LenPatches DEF PageLists, Versions
<1>6. s.state.version = 0 /\ s.page.next = v + 1 /\ s.pc = "page"
  BY <1>2, <1>4 DEF Basic, PagesFollow, LoopState
<1>7. PICK o : o = SnapshotOutcome(f)
  OBVIOUS
<1>8. PICK a : a = [fetch EXCEPT ![f].page.snapshot = 0]
  OBVIOUS
<1>9. PICK st : st = SnapshotState(f)
  OBVIOUS
<1>10. Decode(f, o, st, LiveAt[v], SnapshotRows(v), a)
  BY <1>1, <1>7, <1>8, <1>9 DEF DecodeSnapshot
<1>11. CASE o = "ok"
  <2>1. VerifySnapshotMac(st)
    BY <1>7, <1>9, <1>11, OutcomeOk DEF SnapshotOutcome
  <2>2. st = [version |-> v, hash |-> SnapshotHash(s.state.hash, v)]
    BY <1>1, <1>2, <1>9 DEF SnapshotState
  <2>3. st = ServerCursor(v)
    BY <2>1, <2>2 DEF VerifySnapshotMac, ServerCursor
  <2>4. PICK t : t = [s EXCEPT !.page.snapshot = 0]
    OBVIOUS
  <2>5. a = [fetch EXCEPT ![f] = t]
    BY <1>2, <1>3, <1>8, <2>4
  <2>6. /\ t \in Tasks /\ t.pc = s.pc /\ t.want = s.want /\ t.state = s.state /\ t.muts = s.muts
        /\ t.page.snapshot = 0 /\ t.page.next = v + 1
    <3>1. PICK q : q = [s.page EXCEPT !.snapshot = 0]
      OBVIOUS
    <3>2. q \in PageLists /\ q.snapshot = 0 /\ q.next = v + 1
      BY <1>3, <1>6, <3>1, LiveAtZero DEF PageLists
    <3>3. t = [s EXCEPT !.page = q]
      BY <1>3, <2>4, <3>1 DEF Tasks
    <3> QED
      BY <1>3, <3>2, <3>3 DEF Tasks
  <2>7. /\ result' = [state |-> st, muts |-> LiveAt[v]]
        /\ writes' = {PutVersion(st)} \cup SnapshotRows(v)
        /\ fetch' = a
        /\ UNCHANGED <<sver, keys, store, loop, pageMuts, view, disturbed, lossy, faults>>
    BY <1>10, <1>11 DEF Decode, history
  <2>8. Decoded(f, v, LiveAt[v], SnapshotRows(v), t)
    BY <1>2, <2>3, <2>5, <2>6, <2>7 DEF Decoded
  <2> QED
    BY <1>1, <1>2, <1>4, <1>5, <1>6, <2>8
<1>12. CASE o # "ok"
  <2>1. \/ Finish(f, fetch[f].muts, pageMuts)
        \/ o = "MacMismatch" /\ Raise(f) /\ UNCHANGED <<disturbed, faults>>
    BY <1>10, <1>12 DEF Decode
  <2> QED
    BY <1>1, <1>2, <1>4, <1>5, <1>6, <1>7, <2>1
<1> QED
  BY <1>11, <1>12

\* The same for a patch, which follows the cursor of its task.
LEMMA DecodePatchCases ==
  ASSUME Basic, NEW f \in Fetches, DecodePatch(f)
  PROVE  /\ loop = f /\ writes = {} /\ fetch[f].page.snapshot = 0
         /\ fetch[f].page.next \in 1 .. Len(Patches)
         /\ fetch[f].page.next = fetch[f].state.version + 1
         /\ \/ \E t : LET v == fetch[f].page.next
                      IN  Decoded(f, v, EventsOf(v), ComputeMacDeltas(v), t)
            \/ Finish(f, fetch[f].muts, pageMuts)
            \/ PatchOutcome(f) = "MacMismatch" /\ Raise(f) /\ UNCHANGED <<disturbed, faults>>
<1>1. PICK v : v = fetch[f].page.next
  OBVIOUS
<1>2. PICK s : s = fetch[f]
  OBVIOUS
<1>3. fetch \in [Fetches -> Tasks] /\ s \in Tasks /\ s.page \in PageLists /\ s.state \in HashStates
  BY <1>2 DEF Basic, TypeOK, Tasks
<1>4. loop = f /\ writes = {} /\ s.page.snapshot = 0 /\ v <= s.page.upto /\ v = s.page.next
  BY <1>1, <1>2 DEF DecodePatch, PatchesLeft
<1>5. v \in 1 .. Len(Patches) /\ v \in Versions /\ v + 1 \in 1 .. Len(Patches) + 1
  BY <1>3, <1>4, LenPatches DEF PageLists, Versions
<1>6. v = s.state.version + 1 /\ s.pc = "page"
  BY <1>2, <1>4 DEF Basic, PagesFollow, LoopState
<1>7. PICK o : o = PatchOutcome(f)
  OBVIOUS
<1>8. PICK a : a = [fetch EXCEPT ![f].page.next = v + 1]
  OBVIOUS
<1>9. PICK st : st = PatchState(f)
  OBVIOUS
<1>10. Decode(f, o, st, EventsOf(v), ComputeMacDeltas(v), a)
  BY <1>1, <1>7, <1>8, <1>9 DEF DecodePatch
<1>11. CASE o = "ok"
  <2>1. VerifySnapshotMac(st)
    BY <1>7, <1>9, <1>11, OutcomeOk DEF PatchOutcome
  <2>2. st = [version |-> v, hash |-> UpdateHash(s.state.hash, v)]
    BY <1>1, <1>2, <1>9 DEF PatchState
  <2>3. st = ServerCursor(v)
    BY <2>1, <2>2 DEF VerifySnapshotMac, ServerCursor
  <2>4. PICK t : t = [s EXCEPT !.page.next = v + 1]
    OBVIOUS
  <2>5. a = [fetch EXCEPT ![f] = t]
    BY <1>2, <1>3, <1>8, <2>4
  <2>6. /\ t \in Tasks /\ t.pc = s.pc /\ t.want = s.want /\ t.state = s.state /\ t.muts = s.muts
        /\ t.page.snapshot = 0 /\ t.page.next = v + 1
    <3>1. PICK q : q = [s.page EXCEPT !.next = v + 1]
      OBVIOUS
    <3>2. q \in PageLists /\ q.snapshot = 0 /\ q.next = v + 1
      BY <1>3, <1>4, <1>5, <3>1 DEF PageLists
    <3>3. t = [s EXCEPT !.page = q]
      BY <1>3, <2>4, <3>1 DEF Tasks
    <3> QED
      BY <1>3, <3>2, <3>3 DEF Tasks
  <2>7. /\ result' = [state |-> st, muts |-> EventsOf(v)]
        /\ writes' = {PutVersion(st)} \cup ComputeMacDeltas(v)
        /\ fetch' = a
        /\ UNCHANGED <<sver, keys, store, loop, pageMuts, view, disturbed, lossy, faults>>
    BY <1>10, <1>11 DEF Decode, history
  <2>8. Decoded(f, v, EventsOf(v), ComputeMacDeltas(v), t)
    BY <1>2, <2>3, <2>5, <2>6, <2>7 DEF Decoded
  <2> QED
    BY <1>1, <1>2, <1>4, <1>5, <1>6, <2>8
<1>12. CASE o # "ok"
  <2>1. \/ Finish(f, fetch[f].muts, pageMuts)
        \/ o = "MacMismatch" /\ Raise(f) /\ UNCHANGED <<disturbed, faults>>
    BY <1>10, <1>12 DEF Decode
  <2> QED
    BY <1>1, <1>2, <1>4, <1>5, <1>6, <1>7, <2>1
<1> QED
  BY <1>11, <1>12

\* An item is decoded.
LEMMA BasicDecoded ==
  ASSUME Basic, NEW f \in Fetches, loop = f, writes = {},
         NEW v \in Versions, NEW events \in Values, NEW deltas, RowsOfItem(deltas, v), NEW t,
         Decoded(f, v, events, deltas, t)
  PROVE  Basic'
<1>1. PICK c : c = ServerCursor(v)
  OBVIOUS
<1>2. Genuine(c) /\ c \in HashStates /\ c.version = v
  BY <1>1, ServerCursorType
<1>3. /\ result' = [state |-> c, muts |-> events] /\ writes' = {PutVersion(c)} \cup deltas
      /\ fetch' = [fetch EXCEPT ![f] = t]
      /\ UNCHANGED <<sver, keys, store, loop, pageMuts, view, disturbed, lossy, faults>>
      /\ t \in Tasks /\ t.pc = fetch[f].pc /\ t.want = fetch[f].want
      /\ t.state = fetch[f].state /\ t.muts = fetch[f].muts
      /\ t.page.snapshot = 0 /\ t.page.next = v + 1
  BY <1>1 DEF Decoded
<1>4. /\ fetch' \in [Fetches -> Tasks] /\ fetch'[f] = t
      /\ \A g \in Fetches \ {f} : fetch'[g] = fetch[g]
  BY <1>3 DEF Basic, TypeOK
<1>5. result' \in Results /\ result'.state = c /\ result'.muts = events
  BY <1>2, <1>3 DEF Results
<1>6. writes' \subseteq Writes /\ writes' # {}
  BY <1>2, <1>3, VersionType DEF RowsOfItem
<1>7. TypeOK'
  BY <1>3, <1>4, <1>5, <1>6 DEF Basic, TypeOK
<1>8. CursorsGenuine'
  <2>1. \A g \in Fetches : Genuine(fetch'[g].state)
    BY <1>3, <1>4 DEF Basic, CursorsGenuine
  <2> QED
    BY <1>2, <1>3, <1>5, <2>1, CursorsGenuineSame DEF Basic
<1>9. PagesFollow'
  BY <1>2, <1>3, <1>4, <1>5, <1>6 DEF Basic, PagesFollow
<1>10. LoopState'
  BY <1>3, <1>4, <1>6 DEF Basic, LoopState
<1>11. WritesOfResult'
  <2>1. ASSUME NEW w \in writes', w.kind = "version" PROVE w = PutVersion(c)
    BY <1>3, <2>1 DEF RowsOfItem
  <2>2. PutVersion(c).kind = "version"
    BY <1>2, VersionType
  <2>3. ASSUME NEW w \in writes', w.kind = "put"
        PROVE  /\ w.row.version = v
               /\ \A x \in writes' : x.kind = "put" /\ x.row.index = w.row.index /\ x.at = w.at
                     => x = w
    <3>1. w \in deltas
      BY <1>3, <2>2, <2>3
    <3>2. \A x \in writes' : x.kind = "put" => x \in deltas
      BY <1>3, <2>2
    <3> QED
      BY <2>3, <3>1, <3>2 DEF RowsOfItem
  <2> QED
    BY <1>2, <1>5, <2>1, <2>3 DEF WritesOfResult, Puts
<1> QED
  BY <1>7, <1>8, <1>9, <1>10, <1>11 DEF Basic

\* What one write does to the store.
LEMMA WrittenIs ==
  ASSUME Basic, NEW w \in writes
  PROVE  /\ Written(w) \in Stores
         /\ w.kind = "version" =>
              /\ Written(w).version = result.state.version
              /\ Written(w).hash = result.state.hash
              /\ Written(w).rows = store.rows
         /\ w.kind # "version" =>
              Written(w).version = store.version /\ Written(w).hash = store.hash
         /\ w.kind = "delete" => Written(w).rows = {r \in store.rows : r.index # w.index}
         /\ w.kind = "put" => Written(w).rows = PutRow(store.rows, w.row)
<1>1. /\ store \in Stores /\ w \in Writes /\ result.state \in HashStates
  BY DEF Basic, TypeOK, Results
<1>2. CASE w.kind = "version"
  <2>1. w.state = result.state
    BY <1>1, <1>2, VersionType DEF Basic, WritesOfResult
  <2>2. Written(w) = [store EXCEPT !.version = result.state.version, !.hash = result.state.hash]
    BY <1>2, <2>1 DEF Written
  <2> QED
    BY <1>1, <1>2, <2>2 DEF Stores, HashStates
<1>3. CASE w.kind = "delete"
  <2>1. Written(w) = [store EXCEPT !.rows = {r \in @ : r.index # w.index}]
    BY <1>3 DEF Written
  <2> QED
    BY <1>1, <1>3, <2>1 DEF Stores
<1>4. CASE w.kind = "put"
  <2>1. Written(w) = [store EXCEPT !.rows = PutRow(@, w.row)]
    BY <1>4 DEF Written
  <2>2. w.row \in Rows
    BY <1>1, <1>4, WritesType
  <2>3. PutRow(store.rows, w.row) \in SUBSET Rows
    BY <1>1, <2>2 DEF PutRow, Stores
  <2> QED
    BY <1>1, <1>4, <2>1, <2>3 DEF Stores
<1> QED
  BY <1>1, <1>2, <1>3, <1>4, WritesType

\* A write of _persist, and what follows the last one.
Wrote(f, w) ==
    /\ w \in writes /\ Due(w)
    /\ store' = Written(w)
    /\ writes' = writes \ {w}
    /\ writes' = {} => /\ fetch' = [fetch EXCEPT ![f].state = result.state]
                       /\ pageMuts' = Then(pageMuts, result.muts)
                       /\ result' = NoResult
    /\ writes' # {} => fetch' = fetch /\ pageMuts' = pageMuts /\ result' = result
    /\ UNCHANGED <<sver, keys, loop, view, disturbed, lossy, faults>>

\* Persist makes one write.
LEMMA PersistStep ==
  ASSUME NEW f \in Fetches, Persist(f)
  PROVE  loop = f /\ \E w : Wrote(f, w)
BY DEF Persist, Wrote, history

\* Everybody's local variables after a write.
LEMMA WroteTask ==
  ASSUME Basic, NEW f \in Fetches, NEW w, Wrote(f, w)
  PROVE  /\ fetch' \in [Fetches -> Tasks]
         /\ \A g \in Fetches \ {f} : fetch'[g] = fetch[g]
         /\ fetch'[f].pc = fetch[f].pc /\ fetch'[f].want = fetch[f].want
         /\ fetch'[f].page = fetch[f].page /\ fetch'[f].muts = fetch[f].muts
         /\ writes' = {} => fetch'[f].state = result.state
         /\ writes' # {} => fetch'[f].state = fetch[f].state
<1>1. fetch \in [Fetches -> Tasks] /\ fetch[f] \in Tasks /\ result.state \in HashStates
  BY DEF Basic, TypeOK, Results
<1>2. CASE writes' # {}
  BY <1>1, <1>2 DEF Wrote
<1>3. CASE writes' = {}
  <2>1. PICK t : t = [fetch[f] EXCEPT !.state = result.state]
    OBVIOUS
  <2>2. fetch' = [fetch EXCEPT ![f] = t]
    BY <1>1, <1>3, <2>1 DEF Wrote
  <2>3. /\ t \in Tasks /\ t.pc = fetch[f].pc /\ t.want = fetch[f].want /\ t.page = fetch[f].page
        /\ t.muts = fetch[f].muts /\ t.state = result.state
    BY <1>1, <2>1 DEF Tasks
  <2> QED
    BY <1>1, <1>3, <2>2, <2>3
<1> QED
  BY <1>2, <1>3

\* The cursor after a write.
LEMMA WroteCursor ==
  ASSUME Basic, NEW f \in Fetches, NEW w, Wrote(f, w)
  PROVE  /\ w.kind = "version" => Cursor' = result.state /\ store'.version = result.state.version
         /\ w.kind # "version" => Cursor' = Cursor /\ store'.version = store.version
<1>1. result.state \in HashStates
  BY DEF Basic, TypeOK, Results
<1>2. CASE w.kind = "version"
  <2>1. store'.version = result.state.version /\ store'.hash = result.state.hash
    BY <1>2, WrittenIs DEF Wrote
  <2> QED
    BY <1>1, <1>2, <2>1 DEF Cursor, HashStates
<1>3. CASE w.kind # "version"
  <2>1. store'.version = store.version /\ store'.hash = store.hash
    BY <1>3, WrittenIs DEF Wrote
  <2> QED
    BY <1>3, <2>1 DEF Cursor
<1> QED
  BY <1>2, <1>3

\* A write is made.
LEMMA BasicWrote ==
  ASSUME Basic, NEW f \in Fetches, loop = f, NEW w, Wrote(f, w)
  PROVE  Basic'
<1>1. w \in writes /\ writes # {} /\ result \in Results /\ result.muts \in Values
      /\ pageMuts \in Values
  BY DEF Wrote, Basic, TypeOK, Results
<1>2. /\ fetch' \in [Fetches -> Tasks]
      /\ \A g \in Fetches \ {f} : fetch'[g] = fetch[g]
      /\ fetch'[f].pc = fetch[f].pc /\ fetch'[f].want = fetch[f].want
      /\ fetch'[f].page = fetch[f].page /\ fetch'[f].muts = fetch[f].muts
      /\ writes' = {} => fetch'[f].state = result.state
      /\ writes' # {} => fetch'[f].state = fetch[f].state
  BY WroteTask
<1>3. store' \in Stores
  BY <1>1, WrittenIs DEF Wrote
<1>4. /\ pageMuts' \in Values /\ result' \in Results
      /\ writes' # {} => result' = result
      /\ writes' = {} => result' = NoResult
  BY <1>1, ThenType, NoResultType DEF Wrote, Basic, TypeOK
<1>5. /\ UNCHANGED <<sver, keys, loop, view, disturbed, lossy, faults>>
      /\ writes' \subseteq writes
  BY DEF Wrote
<1>6. TypeOK'
  BY <1>2, <1>3, <1>4, <1>5 DEF Basic, TypeOK
<1>7. CursorsGenuine'
  <2>1. Genuine(Cursor')
    <3>1. Cursor' = result.state \/ Cursor' = Cursor
      BY WroteCursor
    <3> QED
      BY <3>1 DEF Basic, CursorsGenuine
  <2>2. \A g \in Fetches : Genuine(fetch'[g].state)
    BY <1>2 DEF Basic, CursorsGenuine
  <2>3. Genuine(result'.state)
    BY <1>4, NoResultType, NeverSyncedGenuine DEF Basic, CursorsGenuine
  <2> QED
    BY <2>1, <2>2, <2>3 DEF CursorsGenuine
<1>8. fetch[f].page.snapshot = 0 /\ fetch[f].pc = "page" /\ ~fetch[f].want
  BY <1>1 DEF Basic, LoopState
<1>9. PagesFollow'
  BY <1>1, <1>2, <1>4, <1>5, <1>8 DEF Basic, PagesFollow
<1>10. LoopState'
  BY <1>2, <1>4, <1>5, <1>8, FetchesAssumption DEF Basic, LoopState
<1>11. WritesOfResult'
  BY <1>4, <1>5 DEF Basic, WritesOfResult, Puts
<1> QED
  BY <1>6, <1>7, <1>9, <1>10, <1>11 DEF Basic

\* The end of a page with more to come.
PageMore(f) ==
    /\ fetch' = [fetch EXCEPT ![f].pc = "wait", ![f].page = NoPage,
                              ![f].muts = Then(fetch[f].muts, pageMuts)]
    /\ loop' = Nobody
    /\ pageMuts' = NothingSet
    /\ UNCHANGED <<sver, keys, store, result, writes, view, disturbed, lossy, faults>>

\* The two ways a page ends.
LEMMA PageDoneCases ==
  ASSUME NEW f \in Fetches, PageDone(f)
  PROVE  /\ loop = f /\ writes = {} /\ fetch[f].page.snapshot = 0
         /\ \/ PageMore(f)
            \/ Finish(f, Then(fetch[f].muts, pageMuts), NothingSet)
BY DEF PageDone, PageMore, history

\* The task that asks for the next page, field by field.
LEMMA PageMoreTask ==
  ASSUME Basic, NEW f \in Fetches, PageMore(f)
  PROVE  \E t \in Tasks :
            /\ fetch' = [fetch EXCEPT ![f] = t]
            /\ t.pc = "wait" /\ t.state = fetch[f].state /\ t.want = fetch[f].want
            /\ t.muts = Then(fetch[f].muts, pageMuts)
<1>1. fetch \in [Fetches -> Tasks] /\ fetch[f] \in Tasks /\ fetch[f].muts \in Values
      /\ pageMuts \in Values
  BY DEF Basic, TypeOK, Tasks
<1>2. PICK m : m = Then(fetch[f].muts, pageMuts)
  OBVIOUS
<1>3. m \in Values
  BY <1>1, <1>2, ThenType
<1>4. PICK t : t = [fetch[f] EXCEPT !.pc = "wait", !.page = NoPage, !.muts = m]
  OBVIOUS
<1>5. t \in Tasks /\ t.pc = "wait" /\ t.state = fetch[f].state /\ t.want = fetch[f].want /\ t.muts = m
  BY <1>1, <1>3, <1>4, NoPageType DEF Tasks
<1>6. fetch' = [fetch EXCEPT ![f] = t]
  BY <1>1, <1>2, <1>4 DEF PageMore, Tasks
<1> QED
  BY <1>2, <1>5, <1>6

\* A page ends with more to come.
LEMMA BasicPageMore ==
  ASSUME Basic, NEW f \in Fetches, loop = f, writes = {}, PageMore(f)
  PROVE  Basic'
<1>1. PICK t \in Tasks :
            /\ fetch' = [fetch EXCEPT ![f] = t]
            /\ t.pc = "wait" /\ t.state = fetch[f].state /\ t.want = fetch[f].want
  BY PageMoreTask
<1>2. result' = NoResult /\ writes' = {} /\ loop' = Nobody /\ pageMuts' = NothingSet
      /\ UNCHANGED <<sver, keys, store, view, disturbed, lossy, faults>>
  BY DEF PageMore, Basic, LoopState
<1>3. Genuine(t.state) /\ (t.want => t.state.version = 0)
  BY <1>1 DEF Basic, CursorsGenuine, PagesFollow
<1>4. lossy' \in BOOLEAN /\ disturbed' \in BOOLEAN /\ faults' \in 0 .. MaxFaults
  BY <1>2 DEF Basic, TypeOK
<1> QED
  BY <1>1, <1>2, <1>3, <1>4, BasicLeave

\* The process dies and is started again.
LEMMA BasicRestart ==
  ASSUME Basic, Restart
  PROVE  Basic'
<1>1. /\ fetch' = [f \in Fetches |-> Idle] /\ loop' = Nobody /\ result' = NoResult
      /\ pageMuts' = NothingSet /\ writes' = {} /\ UNCHANGED <<sver, keys, store, view>>
      /\ faults' = faults - 1 /\ faults > 0
  BY DEF Restart
<1>2. disturbed' \in BOOLEAN /\ lossy' \in BOOLEAN
  BY DEF Restart, Basic, TypeOK
<1>3. TypeOK'
  BY <1>1, <1>2, IdleType, NoResultType, NothingSetType, BoundsAssumption DEF Basic, TypeOK
<1>4. CursorsGenuine'
  <2>1. \A g \in Fetches : Genuine(fetch'[g].state)
    BY <1>1, IdleType, NeverSyncedGenuine
  <2>2. Genuine(result'.state)
    BY <1>1, NoResultType, NeverSyncedGenuine
  <2> QED
    BY <1>1, <2>1, <2>2, CursorsGenuineSame DEF Basic
<1>5. PagesFollow' /\ LoopState'
  BY <1>1, IdleType, FetchesAssumption DEF PagesFollow, LoopState
<1>6. WritesOfResult'
  BY <1>1, WritesOfNone
<1> QED
  BY <1>3, <1>4, <1>5, <1>6 DEF Basic

\* Initially.
LEMMA BasicInit ==
  ASSUME Init
  PROVE  Basic
<1>1. store \in Stores /\ store.version = 0 /\ store.hash = EmptyHash
  BY LiveAtZero DEF Init, Stores, EmptyHash
<1>2. TypeOK
  <2>1. sver \in Versions /\ faults \in 0 .. MaxFaults
    BY LiveAtZero, BoundsAssumption DEF Init
  <2>2. fetch \in [Fetches -> Tasks]
    BY IdleType DEF Init
  <2>3. result \in Results /\ pageMuts \in Values /\ view \in Values
    BY NoResultType, NothingSetType DEF Init
  <2>4. keys \subseteq Keys /\ loop \in Fetches \cup {Nobody} /\ writes \subseteq Writes
        /\ disturbed \in BOOLEAN /\ lossy \in BOOLEAN
    BY DEF Init
  <2> QED
    BY <1>1, <2>1, <2>2, <2>3, <2>4 DEF TypeOK
<1>3. Genuine(Cursor)
  BY <1>1, <1>2, CursorType, ServerHashZero DEF Genuine, VerifySnapshotMac
<1>4. CursorsGenuine
  BY <1>3, IdleType, NoResultType, NeverSyncedGenuine DEF Init, CursorsGenuine
<1>5. PagesFollow /\ LoopState /\ WritesOfResult
  BY IdleType, FetchesAssumption DEF Init, PagesFollow, LoopState, WritesOfResult
<1> QED
  BY <1>2, <1>4, <1>5 DEF Basic

-----------------------------------------------------------------------------
(* What the writes of an item make of the rows.                            *)

\* The rows of a snapshot settle every index of an empty table.
LEMMA SnapshotSettles ==
  ASSUME NEW v \in Versions, NEW c \in HashStates, NEW i \in Indexes
  PROVE  Settles({PutVersion(c)} \cup SnapshotRows(v), i, LiveAt[v][i], NoMac)
<1>1. PICK ws : ws = {PutVersion(c)} \cup SnapshotRows(v)
  OBVIOUS
<1>2. PutVersion(c).kind = "version"
  BY VersionType
<1>3. ASSUME NEW w \in SnapshotRows(v)
      PROVE  /\ w.kind = "put"
             /\ \E k \in LiveIndexes(v) :
                   w.row.index = k /\ w.row.mac = LiveAt[v][k] /\ w.at = 0
  <2>1. PICK k \in LiveIndexes(v) : w = PutMutationMac(0, v, k, LiveAt[v][k])
    BY DEF SnapshotRows, SnapshotRow
  <2> QED
    BY <2>1 DEF PutMutationMac
<1>4. Deletes(ws, i) = {}
  BY <1>1, <1>2, <1>3 DEF Deletes
<1>5. \A w \in Puts(ws, i) : w.row.mac = LiveAt[v][i] /\ w.at = 0 /\ i \in LiveIndexes(v)
  BY <1>1, <1>2, <1>3 DEF Puts
<1>6. CASE Puts(ws, i) # {}
  <2>1. PICK w : w \in Puts(ws, i)
    BY <1>6
  <2>2. \A x \in Puts(ws, i) : x.at <= w.at
    BY <1>5, <2>1
  <2>3. Settles(ws, i, LiveAt[v][i], NoMac)
    BY <1>5, <1>6, <2>1, <2>2 DEF Settles
  <2> QED
    BY <1>1, <2>3
<1>7. CASE Puts(ws, i) = {}
  <2>1. i \notin LiveIndexes(v)
    <3>1. SUFFICES ASSUME i \in LiveIndexes(v) PROVE FALSE
      OBVIOUS
    <3>2. PICK w : w = SnapshotRow(v, i)
      OBVIOUS
    <3>3. w \in ws
      BY <1>1, <3>1, <3>2 DEF SnapshotRows
    <3>4. w.kind = "put" /\ w.row.index = i
      BY <3>2 DEF SnapshotRow, PutMutationMac
    <3> QED
      BY <1>7, <3>3, <3>4 DEF Puts
  <2>2. LiveAt[v][i] = NoMac
    BY <2>1 DEF LiveIndexes
  <2>3. Settles(ws, i, LiveAt[v][i], NoMac)
    BY <1>4, <1>7, <2>2 DEF Settles
  <2> QED
    BY <1>1, <2>3
<1> QED
  BY <1>6, <1>7

\* The deltas of a patch settle every index of a table that is level before it.
LEMMA PatchSettles ==
  ASSUME NEW v \in 1 .. Len(Patches), NEW c \in HashStates, NEW i \in Indexes
  PROVE  Settles({PutVersion(c)} \cup ComputeMacDeltas(v), i, LiveAt[v][i], LiveAt[v - 1][i])
<1>1. PICK ws : ws = {PutVersion(c)} \cup ComputeMacDeltas(v)
  OBVIOUS
<1>2. PutVersion(c).kind = "version"
  BY VersionType
<1>3. ASSUME NEW w \in Puts(ws, i)
      PROVE  \E j \in OfIndex(v, i) :
                /\ w.at = j /\ w.row.mac = <<v, j>>
                /\ \A k \in OfIndex(v, i) : k >= j => Patches[v][k].op # "REMOVE"
  <2>1. w \in ComputeMacDeltas(v) /\ w.kind = "put" /\ w.row.index = i
    BY <1>1, <1>2 DEF Puts
  <2>2. PICK j \in DOMAIN Patches[v] :
          /\ w.at = j
          /\ w.row = [version |-> v, index |-> Patches[v][j].index, mac |-> <<v, j>>]
          /\ \A k \in OfIndex(v, Patches[v][j].index) : k >= j => Patches[v][k].op # "REMOVE"
    BY <2>1, PatchWrites
  <2>3. Patches[v][j].index = i /\ w.row.mac = <<v, j>>
    BY <2>1, <2>2
  <2> QED
    BY <2>2, <2>3 DEF OfIndex
<1>4. ASSUME NEW w \in Deletes(ws, i)
      PROVE  \E j \in OfIndex(v, i) : Patches[v][j].op = "REMOVE"
  <2>1. w \in ComputeMacDeltas(v) /\ w.kind = "delete" /\ w.index = i
    BY <1>1, <1>2 DEF Deletes
  <2>2. PICK j \in DOMAIN Patches[v] : w.index = Patches[v][j].index /\ Patches[v][j].op = "REMOVE"
    BY <2>1, PatchWrites
  <2> QED
    BY <2>1, <2>2 DEF OfIndex
<1>5. CASE OfIndex(v, i) = {}
  <2>1. Puts(ws, i) = {} /\ Deletes(ws, i) = {}
    BY <1>3, <1>4, <1>5
  <2>2. LiveAt[v][i] = LiveAt[v - 1][i]
    BY <1>5, LiveAtUntouched
  <2>3. Settles(ws, i, LiveAt[v][i], LiveAt[v - 1][i])
    BY <2>1, <2>2 DEF Settles
  <2> QED
    BY <1>1, <2>3
<1>6. CASE OfIndex(v, i) # {}
  <2>1. PICK n : n = Max(OfIndex(v, i))
    OBVIOUS
  <2>2. /\ n \in OfIndex(v, i)
        /\ \A j \in OfIndex(v, i) : j <= n
        /\ Patches[v][n].op = "SET" => LiveAt[v][i] = <<v, n>>
        /\ Patches[v][n].op # "SET" => LiveAt[v][i] = NoMac
    BY <1>6, <2>1, LiveAtTouched, ValueInType, OfIndexMax
  <2>3. /\ \A j \in OfIndex(v, i) : j \in Nat
        /\ n \in DOMAIN Patches[v] /\ Patches[v][n].index = i
        /\ Patches[v][n].op \in {"SET", "REMOVE"}
    BY <2>2, OfIndexType
  <2>4. CASE Patches[v][n].op = "SET"
    <3>1. PICK w : w = PutMutationMac(n, v, Patches[v][n].index, <<v, n>>)
      OBVIOUS
    <3>2. \A k \in OfIndex(v, Patches[v][n].index) : k >= n => Patches[v][k].op # "REMOVE"
      <4>1. ASSUME NEW k \in OfIndex(v, i), k >= n PROVE Patches[v][k].op # "REMOVE"
        <5>1. k = n
          BY <2>2, <2>3, <4>1
        <5> QED
          BY <2>4, <5>1
      <4> QED
        BY <2>3, <4>1
    <3>3. w \in ComputeMacDeltas(v)
      BY <2>3, <3>1, <3>2 DEF ComputeMacDeltas
    <3>4. w.kind = "put" /\ w.row.index = i /\ w.at = n /\ w.row.mac = <<v, n>>
      BY <2>3, <3>1 DEF PutMutationMac
    <3>5. w \in Puts(ws, i)
      BY <1>1, <3>3, <3>4 DEF Puts
    <3>6. \A x \in Puts(ws, i) : x.at <= w.at
      BY <1>3, <2>2, <3>4
    <3>7. Settles(ws, i, LiveAt[v][i], LiveAt[v - 1][i])
      BY <2>2, <2>4, <3>4, <3>5, <3>6 DEF Settles
    <3> QED
      BY <1>1, <3>7
  <2>5. CASE Patches[v][n].op = "REMOVE"
    <3>1. PICK w : w = DeleteMutationMac(n, Patches[v][n].index)
      OBVIOUS
    <3>2. w \in ComputeMacDeltas(v)
      BY <2>3, <2>5, <3>1 DEF ComputeMacDeltas
    <3>3. w.kind = "delete" /\ w.index = i
      BY <2>3, <3>1 DEF DeleteMutationMac
    <3>4. Deletes(ws, i) # {}
      BY <1>1, <3>2, <3>3 DEF Deletes
    <3>5. Puts(ws, i) = {}
      <4>1. SUFFICES ASSUME NEW x \in Puts(ws, i) PROVE FALSE
        OBVIOUS
      <4>2. PICK j \in OfIndex(v, i) :
              \A k \in OfIndex(v, i) : k >= j => Patches[v][k].op # "REMOVE"
        BY <1>3
      <4>3. n >= j
        BY <2>2, <2>3
      <4> QED
        BY <2>2, <2>5, <4>2, <4>3
    <3>6. LiveAt[v][i] = NoMac
      BY <2>2, <2>5
    <3>7. Settles(ws, i, LiveAt[v][i], LiveAt[v - 1][i])
      BY <3>4, <3>5, <3>6 DEF Settles
    <3> QED
      BY <1>1, <3>7
  <2> QED
    BY <2>3, <2>4, <2>5
<1> QED
  BY <1>5, <1>6

\* Any write but of this index leaves what the rest makes of it.
LEMMA OtherSettles ==
  ASSUME NEW ws, NEW w \in ws, NEW i, NEW value, NEW old, Settles(ws, i, value, old),
         w \notin Puts(ws, i), w \notin Deletes(ws, i)
  PROVE  Settles(ws \ {w}, i, value, old)
<1>1. Puts(ws \ {w}, i) = Puts(ws, i) /\ Deletes(ws \ {w}, i) = Deletes(ws, i)
  BY DEF Puts, Deletes
<1> QED
  BY <1>1 DEF Settles

\* A delete leaves the rest to settle from no row.
LEMMA DeleteSettles ==
  ASSUME NEW ws, NEW i, NEW w \in Deletes(ws, i), NEW value, NEW old,
         Settles(ws, i, value, old)
  PROVE  Settles(ws \ {w}, i, value, NoMac)
<1>1. Puts(ws \ {w}, i) = Puts(ws, i) /\ Deletes(ws, i) # {}
  BY DEF Puts, Deletes
<1> QED
  BY <1>1 DEF Settles

\* The rows of an index are put in order.
LEMMA PutSettles ==
  ASSUME NEW ws, NEW i, NEW w \in Puts(ws, i), NEW value, NEW old,
         Settles(ws, i, value, old), Deletes(ws, i) = {},
         \A x \in Puts(ws, i) : x.at \in Nat /\ w.at <= x.at /\ (x.at = w.at => x = w)
  PROVE  Settles(ws \ {w}, i, value, w.row.mac)
<1>1. Puts(ws \ {w}, i) = Puts(ws, i) \ {w} /\ Deletes(ws \ {w}, i) = {}
  BY DEF Puts, Deletes
<1>2. PICK y \in Puts(ws, i) : y.row.mac = value /\ \A x \in Puts(ws, i) : x.at <= y.at
  BY DEF Settles
<1>3. CASE y = w
  <2>1. Puts(ws, i) \ {w} = {}
    <3>1. SUFFICES ASSUME NEW x \in Puts(ws, i), x # w PROVE FALSE
      OBVIOUS
    <3>2. x.at <= w.at /\ w.at <= x.at /\ x.at \in Nat /\ w.at \in Nat
      BY <1>2, <1>3
    <3>3. x.at = w.at
      BY ONLY <3>2
    <3> QED
      BY <3>1, <3>3
  <2> QED
    BY <1>1, <1>2, <1>3, <2>1 DEF Settles
<1>4. CASE y # w
  BY <1>1, <1>2, <1>4 DEF Settles
<1> QED
  BY <1>3, <1>4

-----------------------------------------------------------------------------
(* The newest row of an index.                                             *)

NewestMac(rows) ==
    IF rows = {} THEN NoMac
    ELSE (CHOOSE r \in rows : \A s \in rows : s.version <= r.version).mac

\* The lookup of an index depends on its rows only.
LEMMA MacSame ==
  ASSUME NEW i, {r \in store'.rows : r.index = i} = {r \in store.rows : r.index = i}
  PROVE  GetMutationMac(i)' = GetMutationMac(i)
<1>1. GetMutationMac(i) = NewestMac({r \in store.rows : r.index = i})
  BY DEF GetMutationMac, NewestMac
<1>2. GetMutationMac(i)' = NewestMac({r \in store'.rows : r.index = i})
  BY DEF GetMutationMac, NewestMac
<1> QED
  BY <1>1, <1>2, Zenon

\* The lookup depends on the store only.
LEMMA MacUnchanged ==
  ASSUME store' = store
  PROVE  \A i : GetMutationMac(i)' = GetMutationMac(i)
BY MacSame

\* What a delete does to the lookups.
LEMMA MacDeleted ==
  ASSUME NEW j, store'.rows = {r \in store.rows : r.index # j}
  PROVE  GetMutationMac(j)' = NoMac /\ \A i : i # j => GetMutationMac(i)' = GetMutationMac(i)
<1>1. {r \in store'.rows : r.index = j} = {}
  OBVIOUS
<1>2. GetMutationMac(j)' = NoMac
  BY <1>1 DEF GetMutationMac
<1>3. ASSUME NEW i, i # j PROVE GetMutationMac(i)' = GetMutationMac(i)
  <2>1. {r \in store'.rows : r.index = i} = {r \in store.rows : r.index = i}
    BY <1>3
  <2> QED
    BY <2>1, MacSame
<1> QED
  BY <1>2, <1>3

\* What a row put at the newest version does to the lookups.
LEMMA MacPut ==
  ASSUME store.rows \subseteq Rows, NEW row \in Rows,
         store'.rows = PutRow(store.rows, row),
         \A r \in store.rows : r.version <= row.version
  PROVE  /\ GetMutationMac(row.index)' = row.mac
         /\ \A i : i # row.index => GetMutationMac(i)' = GetMutationMac(i)
<1>1. store'.rows = {r \in store.rows : <<r.version, r.index>> # <<row.version, row.index>>}
                      \cup {row}
  BY DEF PutRow
<1>2. \A r \in Rows : r.version \in Nat
  BY LenPatches DEF Rows, Versions
<1>3. PICK T : T = {r \in store'.rows : r.index = row.index}
  OBVIOUS
<1>4. row \in T
  BY <1>1, <1>3
<1>5. ASSUME NEW r \in T, r # row PROVE r.version < row.version
  <2>1. r \in store.rows /\ r.index = row.index
        /\ <<r.version, r.index>> # <<row.version, row.index>>
    BY <1>1, <1>3, <1>5
  <2>2. r.version # row.version
    BY <2>1
  <2>3. r.version <= row.version /\ r.version \in Nat /\ row.version \in Nat
    BY <1>2, <2>1
  <2> QED
    BY ONLY <2>2, <2>3
<1>6. \A s \in T : s.version <= row.version
  <2>1. row.version \in Nat
    BY <1>2
  <2>2. ASSUME NEW s \in T PROVE s.version <= row.version
    <3>1. CASE s = row
      BY <2>1, <3>1
    <3>2. CASE s # row
      <4>1. s \in Rows /\ s.version < row.version
        BY <1>1, <1>3, <1>5, <3>2
      <4> QED
        BY <1>2, <2>1, <4>1
    <3> QED
      BY <3>1, <3>2
  <2> QED
    BY <2>2
<1>7. PICK c : c = CHOOSE r \in T : \A s \in T : s.version <= r.version
  OBVIOUS
<1>8. c \in T /\ \A s \in T : s.version <= c.version
  BY <1>4, <1>6, <1>7
<1>9. c = row
  <2>1. SUFFICES ASSUME c # row PROVE FALSE
    OBVIOUS
  <2>2. c.version < row.version
    BY <1>5, <1>8, <2>1
  <2>3. row.version <= c.version
    BY <1>4, <1>8
  <2>4. c.version \in Nat /\ row.version \in Nat
    <3>1. c \in Rows
      BY <1>1, <1>3, <1>8
    <3> QED
      BY <1>2, <3>1
  <2> QED
    BY ONLY <2>2, <2>3, <2>4
<1>10. T # {}
  BY <1>4
<1>11. GetMutationMac(row.index)' = c.mac
  BY <1>3, <1>7, <1>10 DEF GetMutationMac
<1>12. ASSUME NEW i, i # row.index PROVE GetMutationMac(i)' = GetMutationMac(i)
  <2>1. {r \in store'.rows : r.index = i} = {r \in store.rows : r.index = i}
    BY <1>1, <1>12
  <2> QED
    BY <2>1, MacSame
<1> QED
  BY <1>9, <1>11, <1>12

-----------------------------------------------------------------------------
(* The undisturbed store, by action.                                       *)

\* Versions are naturals.
LEMMA VersionsNat ==
  ASSUME TypeOK
  PROVE  /\ store.version \in Nat
         /\ result.state.version \in Nat
         /\ \A f \in Fetches : fetch[f].state.version \in Nat
         /\ \A r \in store.rows : r.version \in Nat
<1>1. \A v \in Versions : v \in Nat
  BY LenPatches DEF Versions
<1>2. store.version \in Versions /\ result.state.version \in Versions
  BY DEF TypeOK, Stores, Results, HashStates
<1>3. \A f \in Fetches : fetch[f].state.version \in Versions
  BY DEF TypeOK, Tasks, HashStates
<1>4. \A r \in store.rows : r.version \in Versions
  BY DEF TypeOK, Stores, Rows
<1> QED
  BY <1>1, <1>2, <1>3, <1>4

\* The store stays, and stays level.
LEMMA LevelSame ==
  ASSUME Level, store' = store
  PROVE  Level'
<1>1. \A i : GetMutationMac(i)' = GetMutationMac(i)
  BY MacUnchanged
<1> QED
  BY <1>1 DEF Level

\* The store and what is pending stay.
LEMMA RowsFollowSame ==
  ASSUME RowsFollow, UNCHANGED <<store, writes, result>>
  PROVE  RowsFollow'
<1>1. \A i : GetMutationMac(i)' = GetMutationMac(i)
  BY MacUnchanged
<1>2. \A i \in Indexes : Settled(i) => Settled(i)'
  BY <1>1 DEF Settled
<1>3. Level => Level'
  BY LevelSame
<1> QED
  BY <1>2, <1>3 DEF RowsFollow, VersionPending

\* Outside the writes of an item the rows are level.
LEMMA RowsFollowNone ==
  ASSUME Level, store' = store, writes' = {}
  PROVE  RowsFollow'
BY LevelSame DEF RowsFollow

\* One task changes outside apply_patch_list, and gets no cursor of its own making.
LEMMA UndisturbedTask ==
  ASSUME Basic, UndisturbedInv, NEW f \in Fetches, NEW t \in Tasks, loop = Nobody,
         fetch' = [fetch EXCEPT ![f] = t],
         t.state \in {fetch[f].state, Cursor, NeverSynced},
         UNCHANGED <<store, loop, result, writes, disturbed>>
  PROVE  UndisturbedInv'
<1>1. SUFFICES ASSUME ~disturbed PROVE CursorMoves' /\ RowsFollow'
  BY DEF UndisturbedInv
<1>2. fetch \in [Fetches -> Tasks] /\ TypeOK
  BY DEF Basic, TypeOK
<1>3. fetch'[f] = t /\ \A g \in Fetches \ {f} : fetch'[g] = fetch[g]
  BY <1>2
<1>4. CursorMoves /\ RowsFollow
  BY <1>1 DEF UndisturbedInv
<1>5. writes = {} /\ loop' \notin Fetches
  BY FetchesAssumption DEF Basic, LoopState
<1>6. t.state.version <= store.version
  BY <1>2, <1>4, CursorType, NeverSyncedGenuine, VersionsNat DEF CursorMoves
<1>7. CursorMoves'
  BY <1>3, <1>4, <1>5, <1>6 DEF CursorMoves
<1> QED
  BY <1>4, <1>7, RowsFollowSame

\* Nothing of it changes.
LEMMA UndisturbedQuiet ==
  ASSUME UndisturbedInv, UNCHANGED <<store, fetch, loop, result, writes, disturbed>>
  PROVE  UndisturbedInv'
<1>1. SUFFICES ASSUME ~disturbed PROVE CursorMoves' /\ RowsFollow'
  BY DEF UndisturbedInv
<1>2. CursorMoves /\ RowsFollow
  BY <1>1 DEF UndisturbedInv
<1>3. Cursor' = Cursor
  BY CursorSame
<1>4. CursorMoves'
  BY <1>2, <1>3 DEF CursorMoves, VersionPending
<1> QED
  BY <1>2, <1>4, RowsFollowSame

\* A task leaves apply_patch_list.
LEMMA UndisturbedLeave ==
  ASSUME Basic, UndisturbedInv, NEW f \in Fetches, NEW t \in Tasks, writes = {},
         fetch' = [fetch EXCEPT ![f] = t],
         t.state \in {fetch[f].state, NeverSynced},
         loop' = Nobody, writes' = {}, UNCHANGED <<store, disturbed>>
  PROVE  UndisturbedInv'
<1>1. SUFFICES ASSUME ~disturbed PROVE CursorMoves' /\ RowsFollow'
  BY DEF UndisturbedInv
<1>2. fetch \in [Fetches -> Tasks] /\ TypeOK
  BY DEF Basic, TypeOK
<1>3. fetch'[f] = t /\ \A g \in Fetches \ {f} : fetch'[g] = fetch[g]
  BY <1>2
<1>4. CursorMoves /\ RowsFollow
  BY <1>1 DEF UndisturbedInv
<1>5. loop' \notin Fetches
  BY FetchesAssumption
<1>6. t.state.version <= store.version
  BY <1>2, <1>4, NeverSyncedGenuine, VersionsNat DEF CursorMoves
<1>7. CursorMoves'
  BY <1>3, <1>4, <1>5, <1>6 DEF CursorMoves
<1>8. Level
  BY <1>4 DEF RowsFollow
<1> QED
  BY <1>7, <1>8, RowsFollowNone

\* A task fails.
LEMMA UndisturbedRaise ==
  ASSUME Basic, UndisturbedInv, NEW f \in Fetches, writes = {}, Raise(f), disturbed' = disturbed
  PROVE  UndisturbedInv'
<1>1. Idle \in Tasks /\ Idle.state = NeverSynced
  BY IdleType
<1>2. fetch' = [fetch EXCEPT ![f] = Idle] /\ loop' = Nobody /\ writes' = {} /\ store' = store
  BY DEF Raise
<1> QED
  BY <1>1, <1>2, UndisturbedLeave

\* A task finishes.
LEMMA UndisturbedFinish ==
  ASSUME Basic, UndisturbedInv, NEW f \in Fetches, writes = {},
         NEW muts \in Values, NEW unsent, Finish(f, muts, unsent)
  PROVE  UndisturbedInv'
<1>1. PICK t : t = FinishedTask(muts)
  OBVIOUS
<1>2. t \in Tasks /\ t.state = NeverSynced
  BY <1>1, FinishedType
<1>3. fetch' = [fetch EXCEPT ![f] = t]
  BY <1>1 DEF Finish, FinishedTask
<1>4. loop' = Nobody /\ writes' = {} /\ store' = store /\ disturbed' = disturbed
  BY DEF Finish
<1> QED
  BY <1>2, <1>3, <1>4, UndisturbedLeave

\* A page ends with more to come.
LEMMA UndisturbedPageMore ==
  ASSUME Basic, UndisturbedInv, NEW f \in Fetches, writes = {}, PageMore(f)
  PROVE  UndisturbedInv'
<1>1. PICK t \in Tasks : fetch' = [fetch EXCEPT ![f] = t] /\ t.state = fetch[f].state
  BY PageMoreTask
<1>2. loop' = Nobody /\ writes' = {} /\ store' = store /\ disturbed' = disturbed
  BY DEF PageMore
<1> QED
  BY <1>1, <1>2, UndisturbedLeave

\* A page meets the cursor it starts from, or the store counts as disturbed.
LEMMA UndisturbedApply ==
  ASSUME Basic, UndisturbedInv, NEW f \in Fetches, ApplyPatchList(f)
  PROVE  UndisturbedInv'
<1>1. SUFFICES ASSUME ~disturbed' PROVE CursorMoves' /\ RowsFollow'
  BY DEF UndisturbedInv
<1>2. /\ loop = Nobody /\ loop' = f /\ fetch' = [fetch EXCEPT ![f].want = FALSE]
      /\ UNCHANGED <<store, result, writes>> /\ ~disturbed /\ fetch[f].state = Cursor
  BY <1>1 DEF ApplyPatchList
<1>3. fetch \in [Fetches -> Tasks]
  BY DEF Basic, TypeOK
<1>4. \A g \in Fetches : fetch'[g].state = fetch[g].state
  BY <1>2, <1>3 DEF Tasks
<1>5. CursorMoves /\ RowsFollow
  BY <1>2 DEF UndisturbedInv
<1>6. writes = {}
  BY <1>2, FetchesAssumption DEF Basic, LoopState
<1>7. Cursor' = Cursor
  BY <1>2, CursorSame
<1>8. CursorMoves'
  BY <1>2, <1>4, <1>5, <1>6, <1>7 DEF CursorMoves
<1> QED
  BY <1>2, <1>5, <1>8, RowsFollowSame

\* A crash within the MAC writes disturbs the store, any other leaves it level.
LEMMA UndisturbedRestart ==
  ASSUME Basic, UndisturbedInv, Restart
  PROVE  UndisturbedInv'
<1>1. SUFFICES ASSUME ~disturbed' PROVE CursorMoves' /\ RowsFollow'
  BY DEF UndisturbedInv
<1>2. /\ fetch' = [f \in Fetches |-> Idle] /\ loop' = Nobody /\ writes' = {} /\ store' = store
      /\ ~disturbed /\ ~Torn
  BY <1>1 DEF Restart
<1>3. CursorMoves /\ RowsFollow
  BY <1>2 DEF UndisturbedInv
<1>4. Level
  BY <1>2, <1>3 DEF RowsFollow, Torn, VersionPending
<1>5. store.version \in Nat
  BY VersionsNat DEF Basic
<1>6. \A f \in Fetches : fetch'[f].state.version <= store'.version
  BY <1>2, <1>5, IdleType, NeverSyncedGenuine
<1>7. CursorMoves'
  BY <1>2, <1>6, FetchesAssumption DEF CursorMoves
<1> QED
  BY <1>2, <1>4, <1>7, RowsFollowNone

\* A decoded item: its writes settle every index.
LEMMA UndisturbedDecoded ==
  ASSUME Basic, UndisturbedInv, NEW f \in Fetches, loop = f, writes = {},
         NEW v \in Versions, NEW events, NEW deltas, NEW t, Decoded(f, v, events, deltas, t),
         fetch[f].state.version < v,
         ~disturbed => \A i \in Indexes :
             Settles({PutVersion(ServerCursor(v))} \cup deltas, i, LiveAt[v][i],
                     LiveAt[fetch[f].state.version][i])
  PROVE  UndisturbedInv'
<1>1. PICK c : c = ServerCursor(v)
  OBVIOUS
<1>2. c.version = v /\ c \in HashStates
  BY <1>1, ServerCursorType
<1>3. /\ result' = [state |-> c, muts |-> events] /\ writes' = {PutVersion(c)} \cup deltas
      /\ fetch' = [fetch EXCEPT ![f] = t] /\ UNCHANGED <<store, loop, disturbed>>
      /\ t.state = fetch[f].state
  BY <1>1 DEF Decoded
<1>4. SUFFICES ASSUME ~disturbed PROVE CursorMoves' /\ RowsFollow'
  BY <1>3 DEF UndisturbedInv
<1>5. CursorMoves /\ RowsFollow
  BY <1>4 DEF UndisturbedInv
<1>6. fetch \in [Fetches -> Tasks] /\ TypeOK
  BY DEF Basic, TypeOK
<1>7. \A g \in Fetches : fetch'[g].state = fetch[g].state
  BY <1>3, <1>6
<1>8. VersionPending'
  BY <1>2, <1>3, VersionType DEF VersionPending
<1>9. fetch[f].state = Cursor /\ Cursor' = Cursor /\ Level
  BY <1>3, <1>5, CursorSame DEF CursorMoves, RowsFollow
<1>10. result'.state = c
  BY <1>3
<1>11. CursorMoves'
  BY <1>2, <1>3, <1>5, <1>7, <1>8, <1>9, <1>10 DEF CursorMoves
<1>12. store.version = fetch[f].state.version
  BY <1>6, <1>9, CursorType
<1>13. ASSUME NEW i \in Indexes PROVE Settled(i)'
  <2>1. GetMutationMac(i)' = LiveAt[fetch[f].state.version][i]
    BY <1>3, <1>9, <1>12, MacUnchanged DEF Level
  <2>2. Settles(writes', i, LiveAt[v][i], LiveAt[fetch[f].state.version][i])
    BY <1>1, <1>3, <1>4
  <2> QED
    BY <1>2, <1>10, <2>1, <2>2 DEF Settled
<1>14. \A r \in store'.rows : r.version <= result'.state.version
  <2>1. store.version < v /\ v \in Nat /\ store.version \in Nat
    BY <1>6, <1>12, VersionsNat, LenPatches DEF Versions
  <2>2. \A r \in store.rows : r.version \in Nat /\ r.version <= store.version
    BY <1>6, <1>9, VersionsNat DEF Level
  <2> QED
    BY <1>2, <1>3, <1>10, <2>1, <2>2
<1>15. RowsFollow'
  BY <1>3, <1>9, <1>13, <1>14, LevelSame DEF RowsFollow
<1> QED
  BY <1>11, <1>15

\* After a write of _persist no version is left to write.
LEMMA WroteVersion ==
  ASSUME Basic, NEW f \in Fetches, NEW w, Wrote(f, w)
  PROVE  /\ ~VersionPending'
         /\ VersionPending <=> w.kind = "version"
<1>1. w \in writes /\ writes' = writes \ {w} /\ Due(w)
  BY DEF Wrote
<1>2. VersionPending => w.kind = "version"
  BY <1>1 DEF VersionPending, Due
<1>3. ASSUME NEW x \in writes, x.kind = "version" PROVE x = w
  BY <1>1, <1>2, <1>3 DEF VersionPending, Basic, WritesOfResult
<1> QED
  BY <1>1, <1>2, <1>3 DEF VersionPending

\* What is left after a write still settles every index.
LEMMA WroteSettles ==
  ASSUME Basic, RowsFollow, NEW f \in Fetches, NEW w, Wrote(f, w)
  PROVE  /\ \A i \in Indexes :
               Settles(writes', i, LiveAt[result.state.version][i], GetMutationMac(i)')
         /\ \A r \in store'.rows : r.version <= result.state.version
<1>1. w \in writes /\ writes' = writes \ {w} /\ store' = Written(w) /\ Due(w)
      /\ w \in Writes /\ writes \subseteq Writes
  BY DEF Wrote, Basic, TypeOK
<1>2. \A i \in Indexes :
         Settles(writes, i, LiveAt[result.state.version][i], GetMutationMac(i))
  BY <1>1 DEF RowsFollow, Settled
<1>3. \A r \in store.rows : r.version <= result.state.version
  BY <1>1 DEF RowsFollow
<1>4. CASE w.kind = "version"
  <2>1. store'.rows = store.rows
    BY <1>1, <1>4, WrittenIs
  <2>2. ASSUME NEW i \in Indexes
        PROVE  Settles(writes', i, LiveAt[result.state.version][i], GetMutationMac(i)')
    <3>1. GetMutationMac(i)' = GetMutationMac(i)
      BY <2>1, MacSame
    <3>2. w \notin Puts(writes, i) /\ w \notin Deletes(writes, i)
      BY <1>4 DEF Puts, Deletes
    <3>3. Settles(writes \ {w}, i, LiveAt[result.state.version][i], GetMutationMac(i))
      BY <1>1, <1>2, <3>2, OtherSettles
    <3> QED
      BY <1>1, <3>1, <3>3
  <2> QED
    BY <1>3, <2>1, <2>2
<1>5. CASE w.kind = "delete"
  <2>1. store'.rows = {r \in store.rows : r.index # w.index}
    BY <1>1, <1>5, WrittenIs
  <2>2. /\ GetMutationMac(w.index)' = NoMac
        /\ \A i : i # w.index => GetMutationMac(i)' = GetMutationMac(i)
    BY <2>1, MacDeleted
  <2>3. ASSUME NEW i \in Indexes
        PROVE  Settles(writes', i, LiveAt[result.state.version][i], GetMutationMac(i)')
    <3>1. CASE i = w.index
      <4>1. w \in Deletes(writes, i)
        BY <1>1, <1>5, <3>1 DEF Deletes
      <4>2. Settles(writes \ {w}, i, LiveAt[result.state.version][i], NoMac)
        BY <1>2, <4>1, DeleteSettles
      <4> QED
        BY <1>1, <2>2, <3>1, <4>2
    <3>2. CASE i # w.index
      <4>1. w \notin Puts(writes, i) /\ w \notin Deletes(writes, i)
        BY <1>5, <3>2 DEF Puts, Deletes
      <4>2. Settles(writes \ {w}, i, LiveAt[result.state.version][i], GetMutationMac(i))
        BY <1>1, <1>2, <4>1, OtherSettles
      <4> QED
        BY <1>1, <2>2, <3>2, <4>2
    <3> QED
      BY <3>1, <3>2
  <2> QED
    BY <1>3, <2>1, <2>3
<1>6. CASE w.kind = "put"
  <2>1. store'.rows = PutRow(store.rows, w.row)
    BY <1>1, <1>6, WrittenIs
  <2>2. /\ w.row \in Rows /\ w.row.version = result.state.version
        /\ \A x \in Puts(writes, w.row.index) : x.at = w.at => x = w
    BY <1>1, <1>6, WritesType DEF Basic, WritesOfResult
  <2>3. store.rows \subseteq Rows
    BY DEF Basic, TypeOK, Stores
  <2>4. /\ GetMutationMac(w.row.index)' = w.row.mac
        /\ \A i : i # w.row.index => GetMutationMac(i)' = GetMutationMac(i)
    BY <1>3, <2>1, <2>2, <2>3, MacPut
  <2>5. ASSUME NEW i \in Indexes
        PROVE  Settles(writes', i, LiveAt[result.state.version][i], GetMutationMac(i)')
    <3>1. CASE i = w.row.index
      <4>1. w \in Puts(writes, i)
        BY <1>1, <1>6, <3>1 DEF Puts
      <4>2. Deletes(writes, i) = {}
        BY <1>1, <1>6 DEF Due, Deletes
      <4>3. \A x \in Puts(writes, i) : x.at \in Nat /\ w.at <= x.at /\ (x.at = w.at => x = w)
        BY <1>1, <1>6, <2>2, <3>1, WritesType DEF Due, Puts
      <4>4. Settles(writes \ {w}, i, LiveAt[result.state.version][i], w.row.mac)
        BY <1>2, <4>1, <4>2, <4>3, PutSettles
      <4> QED
        BY <1>1, <2>4, <3>1, <4>4
    <3>2. CASE i # w.row.index
      <4>1. w \notin Puts(writes, i) /\ w \notin Deletes(writes, i)
        BY <1>6, <3>2 DEF Puts, Deletes
      <4>2. Settles(writes \ {w}, i, LiveAt[result.state.version][i], GetMutationMac(i))
        BY <1>1, <1>2, <4>1, OtherSettles
      <4> QED
        BY <1>1, <2>4, <3>2, <4>2
    <3> QED
      BY <3>1, <3>2
  <2>6. \A r \in store'.rows : r.version <= result.state.version
    <3>1. \A r \in store'.rows : r \in store.rows \/ r = w.row
      BY <2>1 DEF PutRow
    <3>2. result.state.version \in Nat
      BY VersionsNat DEF Basic
    <3> QED
      BY <1>3, <2>2, <3>1, <3>2
  <2> QED
    BY <2>5, <2>6
<1> QED
  BY <1>1, <1>4, <1>5, <1>6, WritesType

\* Where the cursors stand after a write to an undisturbed store.
LEMMA WroteMoves ==
  ASSUME Basic, CursorMoves, NEW f \in Fetches, loop = f, NEW w, Wrote(f, w)
  PROVE  /\ Cursor' = result.state /\ store'.version = result.state.version
         /\ store.version <= store'.version
         /\ w.kind = "version" => store.version < store'.version
         /\ fetch[f].state.version < result.state.version
<1>1. w \in writes /\ TypeOK /\ writes # {}
  BY DEF Wrote, Basic
<1>2. fetch[f].state.version < result.state.version
  BY <1>1 DEF CursorMoves
<1>3. store.version \in Nat /\ result.state.version \in Nat
  BY <1>1, VersionsNat
<1>4. CASE w.kind = "version"
  <2>1. fetch[f].state = Cursor
    BY <1>1, <1>4, WroteVersion DEF CursorMoves
  <2>2. fetch[f].state.version = store.version
    BY <1>1, <2>1, CursorType
  <2>3. Cursor' = result.state /\ store'.version = result.state.version
    BY <1>4, WroteCursor
  <2> QED
    BY <1>2, <1>3, <2>2, <2>3
<1>5. CASE w.kind # "version"
  <2>1. ~VersionPending
    BY <1>5, WroteVersion
  <2>2. result.state = Cursor
    BY <1>1, <2>1 DEF CursorMoves
  <2>3. Cursor' = Cursor /\ store'.version = store.version
    BY <1>5, WroteCursor
  <2>4. result.state.version = store.version
    BY <1>1, <2>2, CursorType
  <2> QED
    BY <1>2, <1>3, <1>5, <2>2, <2>3, <2>4
<1> QED
  BY <1>4, <1>5

\* A write is made: after the last one the rows are level with the new cursor.
LEMMA UndisturbedWrote ==
  ASSUME Basic, UndisturbedInv, NEW f \in Fetches, loop = f, NEW w, Wrote(f, w)
  PROVE  UndisturbedInv'
<1>1. UNCHANGED <<loop, disturbed>>
  BY DEF Wrote
<1>2. SUFFICES ASSUME ~disturbed PROVE CursorMoves' /\ RowsFollow'
  BY <1>1 DEF UndisturbedInv
<1>3. CursorMoves /\ RowsFollow /\ TypeOK
  BY <1>2 DEF UndisturbedInv, Basic
<1>4. /\ Cursor' = result.state /\ store'.version = result.state.version
      /\ store.version <= store'.version
      /\ fetch[f].state.version < result.state.version
  BY <1>3, WroteMoves
<1>5. /\ \A i \in Indexes :
           Settles(writes', i, LiveAt[result.state.version][i], GetMutationMac(i)')
      /\ \A r \in store'.rows : r.version <= result.state.version
  BY <1>3, WroteSettles
<1>6. ~VersionPending'
  BY WroteVersion
<1>7. /\ \A g \in Fetches \ {f} : fetch'[g] = fetch[g]
      /\ writes' = {} => fetch'[f].state = result.state
      /\ writes' # {} => fetch'[f].state = fetch[f].state /\ result' = result
  BY WroteTask DEF Wrote
<1>8. /\ store.version \in Nat /\ result.state.version \in Nat
      /\ \A g \in Fetches : fetch[g].state.version \in Nat /\ fetch[g].state.version <= store.version
  BY <1>3, VersionsNat DEF CursorMoves
<1>9. CursorMoves'
  <2>1. \A g \in Fetches : fetch'[g].state.version <= store'.version
    BY <1>4, <1>7, <1>8
  <2> QED
    BY <1>1, <1>4, <1>6, <1>7, <2>1 DEF CursorMoves
<1>10. RowsFollow'
  <2>1. CASE writes' = {}
    <3>1. ASSUME NEW i \in Indexes PROVE GetMutationMac(i)' = LiveAt[result.state.version][i]
      <4>1. Settles({}, i, LiveAt[result.state.version][i], GetMutationMac(i)')
        BY <1>5, <2>1
      <4> QED
        BY <4>1 DEF Settles, Puts, Deletes
    <3>2. Level'
      BY <1>4, <1>5, <3>1 DEF Level
    <3> QED
      BY <2>1, <3>2 DEF RowsFollow
  <2>2. CASE writes' # {}
    <3>1. \A i \in Indexes : Settled(i)'
      BY <1>5, <1>7, <2>2 DEF Settled
    <3> QED
      BY <1>5, <1>6, <1>7, <2>2, <3>1 DEF RowsFollow
  <2> QED
    BY <2>1, <2>2
<1> QED
  BY <1>9, <1>10

-----------------------------------------------------------------------------
(* The events, by action.                                                  *)

\* Nothing is pending, or the cursor is still to be written.
Before == writes = {} \/ VersionPending

\* A step that hands nothing over and leaves every task its mutations.
LEMMA EventsKept ==
  ASSUME EventsInv, Before, Before', Ahead',
         \A g \in Fetches : fetch'[g].muts = fetch[g].muts /\ (Emitting(g)' <=> Emitting(g)),
         UNCHANGED <<store, pageMuts, view>>,
         disturbed' = FALSE => ~disturbed,
         lossy' = FALSE => ~lossy,
         disturbed' \in BOOLEAN, lossy' \in BOOLEAN,
         disturbed' = FALSE /\ lossy' = FALSE =>
            \A g \in Fetches : Overtaken(g) => Overtaken(g)'
  PROVE  EventsInv'
<1>1. SUFFICES ASSUME disturbed' = FALSE, lossy' = FALSE
               PROVE  OneEmitter' /\ ((\E g \in Fetches : Overtaken(g)') \/ AllKnown')
  BY DEF EventsInv
<1>2. OneEmitter /\ ((\E g \in Fetches : Overtaken(g)) \/ AllKnown)
  BY <1>1 DEF EventsInv
<1>3. OneEmitter'
  BY <1>2 DEF OneEmitter
<1>4. CASE \E g \in Fetches : Overtaken(g)
  BY <1>1, <1>3, <1>4
<1>5. CASE AllKnown
  <2>1. ASSUME NEW i, NEW x, Known(i, x) PROVE Known(i, x)'
    <3>1. OnPage(i, x)
      BY <2>1 DEF Known, Before
    <3>2. ToldBy(i, x) => ToldBy(i, x)'
      BY DEF ToldBy
    <3>3. CarriedBy(i, x) => CarriedBy(i, x)'
      BY <3>2 DEF CarriedBy
    <3>4. OnPage(i, x)'
      BY <3>1, <3>3 DEF OnPage
    <3> QED
      BY <3>4 DEF Known, Before
  <2>2. AllKnown'
    BY <1>5, <2>1 DEF AllKnown
  <2> QED
    BY <1>3, <2>2
<1> QED
  BY <1>2, <1>4, <1>5

\* Nothing of it changes.
LEMMA EventsQuiet ==
  ASSUME EventsInv, UNCHANGED <<store, fetch, loop, result, pageMuts, writes, view,
                                disturbed, lossy>>
  PROVE  EventsInv'
<1>1. Ahead => Ahead'
  BY DEF Ahead, VersionPending
<1>2. OneEmitter => OneEmitter'
  BY DEF OneEmitter, Emitting
<1>3. \A f \in Fetches : Overtaken(f) => Overtaken(f)'
  BY DEF Overtaken
<1>4. ASSUME NEW i, NEW x, Known(i, x) PROVE Known(i, x)'
  BY <1>4 DEF Known, OnPage, CarriedBy, ToldBy, Emitting, VersionPending
<1>5. AllKnown => AllKnown'
  BY <1>4 DEF AllKnown
<1> QED
  BY <1>1, <1>2, <1>3, <1>5 DEF EventsInv

\* A step outside apply_patch_list that keeps the mutations of its task.
LEMMA EventsTask ==
  ASSUME Basic, Basic', EventsInv, NEW f \in Fetches, NEW t \in Tasks, loop = Nobody,
         fetch' = [fetch EXCEPT ![f] = t], t.muts = fetch[f].muts,
         t.pc = "emit" <=> fetch[f].pc = "emit",
         Overtaken(f) => t.pc \in {"wait", "page"} /\ t.state = fetch[f].state,
         UNCHANGED <<store, loop, pageMuts, writes, view, disturbed, lossy>>
  PROVE  EventsInv'
<1>1. fetch'[f] = t /\ \A g \in Fetches \ {f} : fetch'[g] = fetch[g]
  BY DEF Basic, TypeOK
<1>2. Before /\ Before' /\ Ahead'
  BY FetchesAssumption DEF Basic, LoopState, Before, Ahead
<1>3. \A g \in Fetches : fetch'[g].muts = fetch[g].muts /\ (Emitting(g)' <=> Emitting(g))
  BY <1>1 DEF Emitting
<1>4. \A g \in Fetches : Overtaken(g) => Overtaken(g)'
  BY <1>1 DEF Overtaken
<1>5. disturbed' \in BOOLEAN /\ lossy' \in BOOLEAN
  BY DEF Basic, TypeOK
<1> QED
  BY <1>2, <1>3, <1>4, <1>5, EventsKept

\* A task starts.
LEMMA EventsFetch ==
  ASSUME Basic, Basic', EventsInv, NEW f \in Fetches, Fetch(f)
  PROVE  EventsInv'
<1>1. PICK t : t = [Idle EXCEPT !.pc = "wait", !.state = Cursor, !.want = store.version = 0]
  OBVIOUS
<1>2. t \in Tasks /\ t.pc = "wait" /\ t.state = Cursor /\ t.muts = NothingSet
  BY <1>1, FetchTask DEF Basic
<1>3. fetch' = [fetch EXCEPT ![f] = t] /\ loop = Nobody /\ fetch[f].pc = "idle"
  BY <1>1 DEF Fetch
<1>4. t.muts = fetch[f].muts
  BY <1>2, <1>3 DEF Basic, LoopState
<1>5. ~Overtaken(f)
  BY <1>3 DEF Overtaken
<1>6. UNCHANGED <<store, loop, pageMuts, writes, view, disturbed, lossy>>
  BY DEF Fetch, applyVars, history
<1> QED
  BY <1>2, <1>3, <1>4, <1>5, <1>6, EventsTask

\* A page arrives.
LEMMA EventsAnswer ==
  ASSUME Basic, Basic', EventsInv, NEW f \in Fetches, Answer(f)
  PROVE  EventsInv'
<1>1. fetch \in [Fetches -> Tasks] /\ fetch[f] \in Tasks /\ fetch' \in [Fetches -> Tasks]
  BY DEF Basic, TypeOK
<1>2. PICK p : fetch' = [fetch EXCEPT ![f].pc = "page", ![f].page = p]
  BY DEF Answer
<1>3. loop = Nobody /\ fetch[f].pc = "wait"
      /\ UNCHANGED <<store, loop, pageMuts, writes, view, disturbed, lossy>>
  BY DEF Answer, applyVars, history
<1>4. PICK t : t = [fetch[f] EXCEPT !.pc = "page", !.page = p]
  OBVIOUS
<1>5. fetch' = [fetch EXCEPT ![f] = t]
  BY <1>1, <1>2, <1>4 DEF Tasks
<1>6. t = fetch'[f] /\ t \in Tasks
  BY <1>1, <1>5
<1>7. t.pc = "page" /\ t.muts = fetch[f].muts /\ t.state = fetch[f].state
  BY <1>1, <1>4 DEF Tasks
<1> QED
  BY <1>3, <1>5, <1>6, <1>7, EventsTask

\* A task enters apply_patch_list: if it was overtaken the store is disturbed.
LEMMA EventsApply ==
  ASSUME Basic, Basic', EventsInv, NEW f \in Fetches, ApplyPatchList(f)
  PROVE  EventsInv'
<1>1. fetch \in [Fetches -> Tasks] /\ TypeOK
  BY DEF Basic, TypeOK
<1>2. /\ loop = Nobody /\ fetch[f].pc = "page" /\ loop' = f /\ pageMuts' = NothingSet
      /\ fetch' = [fetch EXCEPT ![f].want = FALSE]
      /\ UNCHANGED <<store, writes, view, lossy>>
      /\ disturbed' = (disturbed \/ fetch[f].state # Cursor)
  BY DEF ApplyPatchList
<1>3. \A g \in Fetches : /\ fetch'[g].state = fetch[g].state /\ fetch'[g].muts = fetch[g].muts
                         /\ fetch'[g].pc = fetch[g].pc
  BY <1>1, <1>2 DEF Tasks
<1>4. writes = {} /\ pageMuts = NothingSet
  BY <1>2, FetchesAssumption DEF Basic, LoopState
<1>5. Before /\ Before' /\ Ahead'
  BY <1>2, <1>4 DEF Before, Ahead
<1>6. \A g \in Fetches : Emitting(g)' <=> Emitting(g)
  BY <1>3 DEF Emitting
<1>7. ASSUME disturbed' = FALSE, NEW g \in Fetches, Overtaken(g) PROVE Overtaken(g)'
  <2>1. fetch[f].state.version = store.version /\ store.version \in Nat
    BY <1>1, <1>2, <1>7, CursorType, VersionsNat
  <2>2. g # f
    BY <1>7, <2>1 DEF Overtaken
  <2> QED
    BY <1>2, <1>3, <1>7, <2>2 DEF Overtaken
<1>8. disturbed' \in BOOLEAN /\ lossy' \in BOOLEAN /\ lossy' = lossy
      /\ (disturbed' = FALSE => ~disturbed) /\ UNCHANGED <<store, pageMuts, view>>
  BY <1>2, <1>4 DEF Basic, TypeOK
<1> QED
  BY <1>3, <1>5, <1>6, <1>7, <1>8, EventsKept

\* A task that fails without a loss had nothing to hand over.
LEMMA EventsRaise ==
  ASSUME Basic, Basic', EventsInv, NEW f \in Fetches, loop \in {f, Nobody}, writes = {},
         fetch[f].pc \in {"wait", "page"}, Raise(f), disturbed' = disturbed
  PROVE  EventsInv'
<1>1. /\ fetch' = [fetch EXCEPT ![f] = Idle] /\ loop' = Nobody /\ pageMuts' = NothingSet
      /\ writes' = {} /\ lossy' = (lossy \/ Undelivered(f)) /\ UNCHANGED <<store, view>>
  BY DEF Raise
<1>2. fetch'[f] = Idle /\ \A g \in Fetches \ {f} : fetch'[g] = fetch[g]
  BY <1>1 DEF Basic, TypeOK
<1>3. Before /\ Before' /\ Ahead'
  BY <1>1, FetchesAssumption DEF Before, Ahead
<1>4. lossy \in BOOLEAN /\ disturbed' \in BOOLEAN /\ lossy' \in BOOLEAN
  BY DEF Basic, TypeOK
<1>5. CASE Undelivered(f)
  <2>1. lossy' = TRUE
    BY <1>1, <1>5
  <2> QED
    BY <1>3, <2>1 DEF EventsInv
<1>6. CASE ~Undelivered(f)
  <2>1. fetch[f].muts = NothingSet /\ pageMuts = NothingSet
    BY <1>6, FetchesAssumption DEF Undelivered, Basic, LoopState
  <2>2. \A g \in Fetches : fetch'[g].muts = fetch[g].muts /\ (Emitting(g)' <=> Emitting(g))
    BY <1>2, <2>1, IdleType DEF Emitting
  <2>3. \A g \in Fetches : Overtaken(g) => Overtaken(g)'
    BY <1>1, <1>2, <2>1, FetchesAssumption DEF Overtaken
  <2>4. lossy' = lossy /\ UNCHANGED <<store, pageMuts, view>>
    BY <1>1, <1>4, <1>6, <2>1
  <2> QED
    BY <1>3, <1>4, <2>2, <2>3, <2>4, EventsKept
<1> QED
  BY <1>5, <1>6

\* An item is decoded: its events do not count before its cursor is written.
LEMMA EventsDecoded ==
  ASSUME Basic, Basic', EventsInv, NEW f \in Fetches, loop = f, writes = {},
         NEW v \in Versions, NEW events, NEW deltas, NEW t, Decoded(f, v, events, deltas, t)
  PROVE  EventsInv'
<1>1. PICK c : c = ServerCursor(v)
  OBVIOUS
<1>2. /\ writes' = {PutVersion(c)} \cup deltas /\ fetch' = [fetch EXCEPT ![f] = t]
      /\ UNCHANGED <<store, loop, pageMuts, view, disturbed, lossy>>
      /\ t.state = fetch[f].state /\ t.muts = fetch[f].muts /\ t.pc = fetch[f].pc
  BY <1>1 DEF Decoded
<1>3. \A g \in Fetches : /\ fetch'[g].state = fetch[g].state /\ fetch'[g].muts = fetch[g].muts
                         /\ fetch'[g].pc = fetch[g].pc
  BY <1>2 DEF Basic, TypeOK
<1>4. VersionPending'
  BY <1>1, <1>2, ServerCursorType, VersionType DEF VersionPending
<1>5. Before /\ Before'
  BY <1>4 DEF Before
<1>6. \A g \in Fetches : (Emitting(g)' <=> Emitting(g)) /\ (Overtaken(g) => Overtaken(g)')
  BY <1>2, <1>3 DEF Emitting, Overtaken
<1>7. disturbed' \in BOOLEAN /\ lossy' \in BOOLEAN
  BY DEF Basic, TypeOK
<1>8. CASE disturbed
  BY <1>2, <1>8 DEF EventsInv
<1>9. CASE ~disturbed
  <2>1. Ahead
    BY <1>9 DEF EventsInv
  <2>2. Ahead'
    BY <1>2, <1>3, <1>4, <2>1 DEF Ahead
  <2> QED
    BY <1>2, <1>3, <1>5, <1>6, <1>7, <2>2, EventsKept
<1> QED
  BY <1>8, <1>9

\* What a crash loses is counted as lost.
LEMMA EventsRestart ==
  ASSUME Basic, Basic', EventsInv, Restart
  PROVE  EventsInv'
<1>1. /\ fetch' = [f \in Fetches |-> Idle] /\ loop' = Nobody /\ pageMuts' = NothingSet
      /\ writes' = {} /\ UNCHANGED <<store, view>>
      /\ disturbed' = (disturbed \/ Torn)
      /\ lossy' = (lossy \/ \E f \in Fetches : Undelivered(f))
  BY DEF Restart
<1>2. Ahead'
  BY <1>1, FetchesAssumption DEF Ahead
<1>3. SUFFICES ASSUME ~disturbed', ~lossy'
               PROVE  OneEmitter' /\ AllKnown'
  BY <1>2 DEF EventsInv
<1>4. ~disturbed /\ ~lossy /\ ~Torn /\ \A f \in Fetches : ~Undelivered(f)
  BY <1>1, <1>3
<1>5. \A f \in Fetches : fetch[f].muts = NothingSet
  BY <1>4 DEF Undelivered
<1>6. pageMuts = NothingSet
  BY <1>4 DEF Undelivered, Basic, LoopState, TypeOK
<1>7. AllKnown
  BY <1>4, <1>5 DEF EventsInv, Overtaken
<1>8. Before
  BY <1>4 DEF Before, Torn, VersionPending
<1>9. \A f \in Fetches : fetch'[f].muts = NothingSet /\ ~Emitting(f)'
  BY <1>1, IdleType DEF Emitting
<1>10. ASSUME NEW i \in Indexes, NEW x, Known(i, x) PROVE Known(i, x)'
  <2>1. NothingSet[i] = NoMac
    BY DEF NothingSet
  <2>2. OnPage(i, x)
    BY <1>8, <1>10 DEF Known, Before
  <2>3. CarriedBy(i, x)
    BY <1>6, <2>1, <2>2 DEF OnPage
  <2>4. ToldBy(i, x)
    BY <1>5, <2>1, <2>3 DEF CarriedBy
  <2>5. view[i] = x
    BY <1>5, <2>1, <2>4 DEF ToldBy
  <2>6. ToldBy(i, x)'
    BY <1>1, <1>9, <2>5 DEF ToldBy
  <2>7. CarriedBy(i, x)'
    BY <1>9, <2>1, <2>6 DEF CarriedBy
  <2>8. OnPage(i, x)'
    BY <1>1, <2>1, <2>7 DEF OnPage
  <2> QED
    BY <1>1, <2>8 DEF Known
<1>11. AllKnown'
  BY <1>1, <1>7, <1>10 DEF AllKnown, LiveIndexes
<1>12. OneEmitter'
  BY <1>9 DEF OneEmitter
<1> QED
  BY <1>11, <1>12

\* An event moves from the task that emits to what the application knows.
LEMMA EventsEmit ==
  ASSUME Basic, Basic', EventsInv, NEW f \in Fetches, Emit(f)
  PROVE  EventsInv'
<1>1. fetch \in [Fetches -> Tasks] /\ fetch[f] \in Tasks /\ view \in Values /\ TypeOK
      /\ fetch[f].muts \in Values
  BY DEF Basic, TypeOK, Tasks
<1>2. PICK k \in Indexes :
        /\ fetch[f].muts[k] # NoMac
        /\ view' = [view EXCEPT ![k] = fetch[f].muts[k]]
        /\ fetch' = [fetch EXCEPT ![f] = EmittedTask(fetch[f], k)]
  BY <1>1, EmitStep
<1>3. /\ loop = Nobody /\ Emitting(f)
      /\ UNCHANGED <<store, loop, result, pageMuts, writes, disturbed, lossy>>
  BY DEF Emit, applyVars, history
<1>4. PICK t : t = EmittedTask(fetch[f], k)
  OBVIOUS
<1>5. /\ t \in Tasks /\ t.pc \in {"idle", "emit"} /\ (t.pc = "idle" => t.muts = NothingSet)
      /\ t.muts = [fetch[f].muts EXCEPT ![k] = NoMac]
  BY <1>1, <1>3, <1>4, EmittedType DEF Emitting
<1>6. fetch'[f] = t /\ \A g \in Fetches \ {f} : fetch'[g] = fetch[g]
  BY <1>1, <1>2, <1>4
<1>7. writes = {} /\ Ahead'
  BY <1>3, FetchesAssumption DEF Basic, LoopState, Ahead
<1>8. SUFFICES ASSUME ~disturbed, ~lossy
               PROVE  OneEmitter' /\ ((\E g \in Fetches : Overtaken(g)') \/ AllKnown')
  BY <1>3, <1>7 DEF EventsInv
<1>9. OneEmitter /\ ((\E g \in Fetches : Overtaken(g)) \/ AllKnown)
  BY <1>8 DEF EventsInv
<1>10. \A g \in Fetches \ {f} : (Emitting(g)' <=> Emitting(g)) /\ ~Emitting(g)
  BY <1>3, <1>6, <1>9 DEF Emitting, OneEmitter
<1>11. OneEmitter'
  BY <1>10 DEF OneEmitter
<1>12. ASSUME NEW g \in Fetches, Overtaken(g) PROVE Overtaken(g)'
  <2>1. g # f
    BY <1>3, <1>12 DEF Overtaken, Emitting
  <2> QED
    BY <1>3, <1>6, <1>12, <2>1 DEF Overtaken
<1>13. ASSUME NEW i \in Indexes, NEW x, Known(i, x) PROVE Known(i, x)'
  <2>1. OnPage(i, x)
    BY <1>7, <1>13 DEF Known
  <2>2. NothingSet[i] = NoMac
    BY DEF NothingSet
  <2>3. ToldBy(i, x) => ToldBy(i, x)'
    <3>1. SUFFICES ASSUME ToldBy(i, x) PROVE ToldBy(i, x)'
      OBVIOUS
    <3>2. fetch[f].muts[i] \in {NoMac, x} /\ (fetch[f].muts[i] = NoMac => view[i] = x)
      BY <1>3, <1>10, <3>1 DEF ToldBy
    <3>3. CASE i = k
      <4>1. t.muts[i] = NoMac /\ view'[i] = x
        BY <1>1, <1>2, <1>5, <3>2, <3>3 DEF Values
      <4> QED
        BY <1>6, <1>10, <4>1 DEF ToldBy
    <3>4. CASE i # k
      <4>1. t.muts[i] = fetch[f].muts[i] /\ view'[i] = view[i]
        BY <1>1, <1>2, <1>5, <3>4 DEF Values
      <4>2. t.pc = "idle" => t.muts[i] = NoMac
        BY <1>5, <2>2
      <4>3. ASSUME \A g \in Fetches : Emitting(g)' => fetch'[g].muts[i] = NoMac
            PROVE  view'[i] = x
        <5>1. t.muts[i] = NoMac
          <6>1. CASE t.pc = "idle"
            BY <4>2, <6>1
          <6>2. CASE t.pc = "emit"
            <7>1. Emitting(f)'
              BY <1>6, <6>2 DEF Emitting
            <7> QED
              BY <1>6, <4>3, <7>1
          <6> QED
            BY <1>5, <6>1, <6>2
        <5> QED
          BY <3>2, <4>1, <5>1
      <4> QED
        BY <1>6, <1>10, <3>2, <4>1, <4>3 DEF ToldBy
    <3> QED
      BY <3>3, <3>4
  <2>4. CarriedBy(i, x) => CarriedBy(i, x)'
    <3>1. SUFFICES ASSUME CarriedBy(i, x) PROVE CarriedBy(i, x)'
      OBVIOUS
    <3>2. ~Emitting(f)' => fetch'[f].muts[i] = NoMac
      BY <1>5, <1>6, <2>2 DEF Emitting
    <3>3. \A g \in Fetches : ~Emitting(g)' => fetch'[g].muts[i] \in {NoMac, x}
      BY <1>6, <1>10, <3>1, <3>2 DEF CarriedBy
    <3>4. ASSUME \A g \in Fetches : ~Emitting(g)' => fetch'[g].muts[i] = NoMac
          PROVE  ToldBy(i, x)'
      <4>1. \A g \in Fetches : ~Emitting(g) => fetch[g].muts[i] = NoMac
        BY <1>3, <1>6, <1>10, <3>4
      <4> QED
        BY <2>3, <3>1, <4>1 DEF CarriedBy
    <3> QED
      BY <3>3, <3>4 DEF CarriedBy
  <2>5. OnPage(i, x)'
    BY <1>3, <2>1, <2>4 DEF OnPage
  <2> QED
    BY <1>3, <1>7, <2>5 DEF Known
<1>14. AllKnown => AllKnown'
  BY <1>3, <1>13 DEF AllKnown, LiveIndexes
<1> QED
  BY <1>9, <1>11, <1>12, <1>14

\* At the end of a page, unless a task is overtaken: the mutations of the page
\* and of those before it, and no other task's, tell of an index.
LEMMA PageTells ==
  ASSUME Basic, Ahead, NEW f \in Fetches, loop = f, ~(\E g \in Fetches : Overtaken(g)),
         NEW i \in Indexes, NEW x, x # NoMac, OnPage(i, x), NEW m,
         m = Then(fetch[f].muts, pageMuts)
  PROVE  /\ m[i] \in {NoMac, x}
         /\ \A g \in Fetches \ {f} : ~Emitting(g) => fetch[g].muts[i] \in {NoMac, x}
         /\ m[i] = NoMac /\ (\A g \in Fetches \ {f} : ~Emitting(g) => fetch[g].muts[i] = NoMac)
              => ToldBy(i, x)
<1>1. fetch[f].muts \in Values /\ pageMuts \in Values /\ TypeOK
  BY DEF Basic, TypeOK, Tasks
<1>2. /\ pageMuts[i] = NoMac => m[i] = fetch[f].muts[i]
      /\ pageMuts[i] # NoMac => m[i] = pageMuts[i]
  BY <1>1, ThenType
<1>3. ~Emitting(f)
  BY DEF Basic, LoopState, Emitting
<1>4. NothingSet[i] = NoMac
  BY DEF NothingSet
<1>5. CASE pageMuts[i] = NoMac
  <2>1. CarriedBy(i, x)
    BY <1>5 DEF OnPage
  <2> QED
    BY <1>2, <1>3, <1>5, <2>1 DEF CarriedBy
<1>6. CASE pageMuts[i] # NoMac
  <2>1. m[i] = x
    BY <1>2, <1>6 DEF OnPage
  <2>2. \A g \in Fetches \ {f} : fetch[g].state.version < store.version
    BY <1>4, <1>6 DEF Ahead
  <2>3. ASSUME NEW g \in Fetches \ {f}, ~Emitting(g) PROVE fetch[g].muts[i] = NoMac
    <3>1. fetch[g].pc \in {"idle", "wait", "page"}
      BY <1>1, <2>3 DEF TypeOK, Tasks, Emitting
    <3>2. fetch[g].muts = NothingSet
      BY <2>2, <3>1 DEF Overtaken, Basic, LoopState
    <3> QED
      BY <1>4, <3>2
  <2> QED
    BY <2>1, <2>3
<1> QED
  BY <1>5, <1>6

\* No value is told of an index but of those that are set.
LEMMA LiveNotNone ==
  ASSUME NEW v, NEW i \in LiveIndexes(v)
  PROVE  i \in Indexes /\ LiveAt[v][i] # NoMac
BY DEF LiveIndexes

\* The events of the page join those of the pages before.
LEMMA EventsPageMore ==
  ASSUME Basic, Basic', EventsInv, NEW f \in Fetches, loop = f, writes = {}, PageMore(f)
  PROVE  EventsInv'
<1>1. PICK m : m = Then(fetch[f].muts, pageMuts)
  OBVIOUS
<1>2. PICK t \in Tasks :
            /\ fetch' = [fetch EXCEPT ![f] = t]
            /\ t.pc = "wait" /\ t.state = fetch[f].state /\ t.muts = m
  BY <1>1, PageMoreTask
<1>3. /\ loop' = Nobody /\ pageMuts' = NothingSet
      /\ UNCHANGED <<store, writes, view, disturbed, lossy>>
  BY DEF PageMore
<1>4. fetch'[f] = t /\ \A g \in Fetches \ {f} : fetch'[g] = fetch[g]
  BY <1>2 DEF Basic, TypeOK
<1>5. Ahead'
  BY <1>3, FetchesAssumption DEF Ahead
<1>6. SUFFICES ASSUME ~disturbed, ~lossy
               PROVE  OneEmitter' /\ ((\E g \in Fetches : Overtaken(g)') \/ AllKnown')
  BY <1>3, <1>5 DEF EventsInv
<1>7. Ahead /\ OneEmitter /\ ((\E g \in Fetches : Overtaken(g)) \/ AllKnown)
  BY <1>6 DEF EventsInv
<1>8. ~Emitting(f) /\ ~Emitting(f)' /\ \A g \in Fetches : Emitting(g)' <=> Emitting(g)
  BY <1>2, <1>4 DEF Basic, LoopState, Emitting
<1>9. OneEmitter'
  BY <1>7, <1>8 DEF OneEmitter
<1>10. ASSUME NEW g \in Fetches, Overtaken(g) PROVE Overtaken(g)'
  BY <1>3, <1>4, <1>10, FetchesAssumption DEF Overtaken
<1>11. CASE \E g \in Fetches : Overtaken(g)
  BY <1>9, <1>10, <1>11
<1>12. CASE ~(\E g \in Fetches : Overtaken(g))
  <2>1. ASSUME NEW i \in Indexes, NEW x, x # NoMac, Known(i, x) PROVE Known(i, x)'
    <3>1. OnPage(i, x)
      BY <2>1 DEF Known
    <3>2. /\ m[i] \in {NoMac, x}
          /\ \A g \in Fetches \ {f} : ~Emitting(g) => fetch[g].muts[i] \in {NoMac, x}
          /\ m[i] = NoMac /\ (\A g \in Fetches \ {f} : ~Emitting(g) => fetch[g].muts[i] = NoMac)
               => ToldBy(i, x)
      BY <1>1, <1>7, <1>12, <2>1, <3>1, PageTells
    <3>3. ToldBy(i, x) => ToldBy(i, x)'
      BY <1>3, <1>4, <1>8 DEF ToldBy
    <3>4. CarriedBy(i, x)'
      BY <1>2, <1>4, <1>8, <3>2, <3>3 DEF CarriedBy
    <3>5. OnPage(i, x)'
      BY <1>3, <3>4 DEF OnPage, NothingSet
    <3> QED
      BY <1>3, <3>5 DEF Known
  <2>2. AllKnown'
    BY <1>3, <1>7, <1>12, <2>1, LiveNotNone DEF AllKnown
  <2> QED
    BY <1>9, <2>2
<1> QED
  BY <1>11, <1>12

\* The events of all pages go to the emitter.
LEMMA EventsFinish ==
  ASSUME Basic, Basic', EventsInv, NEW f \in Fetches, loop = f, writes = {},
         NEW m, m = Then(fetch[f].muts, pageMuts), NEW unsent, Finish(f, m, unsent)
  PROVE  EventsInv'
<1>1. fetch \in [Fetches -> Tasks] /\ fetch[f].muts \in Values /\ pageMuts \in Values
  BY DEF Basic, TypeOK, Tasks
<1>2. m \in Values
  BY <1>1, ThenType
<1>3. PICK t : t = FinishedTask(m)
  OBVIOUS
<1>4. /\ t \in Tasks /\ t.pc \in {"idle", "emit"} /\ t.muts = m
      /\ t.pc = "emit" <=> m # NothingSet
  BY <1>2, <1>3, FinishedType
<1>5. /\ fetch' = [fetch EXCEPT ![f] = t]
      /\ loop' = Nobody /\ pageMuts' = NothingSet
      /\ UNCHANGED <<store, writes, view, disturbed>>
      /\ lossy' = \/ lossy
                  \/ unsent # NothingSet
                  \/ m # NothingSet /\ \E g \in Fetches : Emitting(g)
  BY <1>3 DEF Finish, FinishedTask
<1>6. fetch'[f] = t /\ \A g \in Fetches \ {f} : fetch'[g] = fetch[g]
  BY <1>1, <1>5
<1>7. Ahead'
  BY <1>5, FetchesAssumption DEF Ahead
<1>8. SUFFICES ASSUME ~disturbed, ~lossy'
               PROVE  OneEmitter' /\ ((\E g \in Fetches : Overtaken(g)') \/ AllKnown')
  BY <1>5, <1>7 DEF EventsInv
<1>9. ~lossy /\ (m # NothingSet => \A g \in Fetches : ~Emitting(g))
  BY <1>5, <1>8
<1>10. Ahead /\ OneEmitter /\ ((\E g \in Fetches : Overtaken(g)) \/ AllKnown)
  BY <1>8, <1>9 DEF EventsInv
<1>11. /\ ~Emitting(f) /\ (Emitting(f)' <=> m # NothingSet)
       /\ \A g \in Fetches \ {f} : Emitting(g)' <=> Emitting(g)
  BY <1>4, <1>6 DEF Basic, LoopState, Emitting
<1>12. OneEmitter'
  BY <1>9, <1>10, <1>11 DEF OneEmitter
<1>13. ASSUME NEW g \in Fetches, Overtaken(g) PROVE Overtaken(g)'
  BY <1>5, <1>6, <1>13, FetchesAssumption DEF Overtaken
<1>14. CASE \E g \in Fetches : Overtaken(g)
  BY <1>12, <1>13, <1>14
<1>15. CASE ~(\E g \in Fetches : Overtaken(g))
  <2>1. ASSUME NEW i \in Indexes, NEW x, x # NoMac, Known(i, x) PROVE Known(i, x)'
    <3>1. OnPage(i, x)
      BY <2>1 DEF Known
    <3>2. /\ m[i] \in {NoMac, x}
          /\ \A g \in Fetches \ {f} : ~Emitting(g) => fetch[g].muts[i] \in {NoMac, x}
          /\ m[i] = NoMac /\ (\A g \in Fetches \ {f} : ~Emitting(g) => fetch[g].muts[i] = NoMac)
               => ToldBy(i, x)
      BY <1>10, <1>15, <2>1, <3>1, PageTells
    <3>3. NothingSet[i] = NoMac
      BY DEF NothingSet
    <3>4. \A g \in Fetches : ~Emitting(g)' => fetch'[g].muts[i] \in {NoMac, x}
      BY <1>4, <1>6, <1>11, <3>2, <3>3
    <3>5. ASSUME \A g \in Fetches : ~Emitting(g)' => fetch'[g].muts[i] = NoMac
          PROVE  ToldBy(i, x)'
      <4>1. \A g \in Fetches \ {f} : ~Emitting(g) => fetch[g].muts[i] = NoMac
        BY <1>6, <1>11, <3>5
      <4>2. CASE m = NothingSet
        <5>1. ToldBy(i, x)
          BY <3>2, <3>3, <4>1, <4>2
        <5>2. \A g \in Fetches : Emitting(g)' <=> Emitting(g)
          BY <1>11, <4>2
        <5>3. \A g \in Fetches : Emitting(g) => fetch'[g].muts[i] = fetch[g].muts[i]
          BY <1>6, <1>11
        <5> QED
          BY <1>5, <5>1, <5>2, <5>3 DEF ToldBy
      <4>3. CASE m # NothingSet
        <5>1. \A g \in Fetches : ~Emitting(g) /\ (Emitting(g)' <=> g = f)
          BY <1>9, <1>11, <4>3
        <5>2. m[i] = NoMac => view[i] = x
          <6>1. SUFFICES ASSUME m[i] = NoMac PROVE view[i] = x
            OBVIOUS
          <6>2. ToldBy(i, x)
            BY <3>2, <4>1, <6>1
          <6> QED
            BY <5>1, <6>2 DEF ToldBy
        <5> QED
          BY <1>4, <1>5, <1>6, <3>2, <5>1, <5>2 DEF ToldBy
      <4> QED
        BY <4>2, <4>3
    <3>6. CarriedBy(i, x)'
      BY <3>4, <3>5 DEF CarriedBy
    <3>7. OnPage(i, x)'
      BY <1>5, <3>3, <3>6 DEF OnPage
    <3> QED
      BY <1>5, <3>7 DEF Known
  <2>2. AllKnown'
    BY <1>5, <1>10, <1>15, <2>1, LiveNotNone DEF AllKnown
  <2> QED
    BY <1>12, <2>2
<1> QED
  BY <1>14, <1>15

\* A fetch that gives a page up hands over what it has of the pages before.
LEMMA EventsGiveUp ==
  ASSUME Basic, Basic', EventsInv, NEW f \in Fetches, loop = f, writes = {},
         Finish(f, fetch[f].muts, pageMuts)
  PROVE  EventsInv'
<1>1. fetch[f].muts \in Values /\ pageMuts \in Values
  BY DEF Basic, TypeOK, Tasks
<1>2. CASE pageMuts = NothingSet
  <2>1. PICK m : m = Then(fetch[f].muts, pageMuts)
    OBVIOUS
  <2>2. m = fetch[f].muts
    BY <1>1, <1>2, <2>1 DEF Then, NothingSet, Values
  <2>3. Finish(f, m, pageMuts)
    BY <2>2
  <2> QED
    BY <2>1, <2>3, EventsFinish
<1>3. CASE pageMuts # NothingSet
  <2>1. lossy' /\ loop' = Nobody
    BY <1>3 DEF Finish
  <2>2. Ahead'
    BY <2>1, FetchesAssumption DEF Ahead
  <2> QED
    BY <2>1, <2>2 DEF EventsInv
<1> QED
  BY <1>2, <1>3

\* After a write the events of the item count: they and what was known before
\* of the indexes it does not touch are what is known of its version.
LEMMA WroteKnown ==
  ASSUME Basic, CursorMoves, ResultInv, AllKnown, NEW f \in Fetches, loop = f, NEW w, Wrote(f, w),
         NEW i \in LiveIndexes(store'.version), NEW x, x = LiveAt[store'.version][i]
  PROVE  /\ result.muts[i] \in {NoMac, x}
         /\ result.muts[i] = NoMac => OnPage(i, x)
<1>1. i \in Indexes /\ x # NoMac
  BY LiveNotNone
<1>2. Cursor' = result.state /\ store'.version = result.state.version
  BY WroteMoves
<1>3. w \in writes
  BY DEF Wrote
<1>4. Cursor.version = store.version
  BY CursorType DEF Basic
<1>5. VersionPending <=> w.kind = "version"
  BY WroteVersion
<1>6. CASE w.kind = "version"
  <2>1. fetch[f].state.version = store.version
    BY <1>3, <1>4, <1>5, <1>6 DEF CursorMoves
  <2>2. \/ result.muts[i] = x
        \/ result.muts[i] = NoMac /\ x = LiveAt[store.version][i]
    BY <1>1, <1>2, <1>3, <2>1 DEF ResultInv
  <2>3. ASSUME result.muts[i] = NoMac, x = LiveAt[store.version][i] PROVE OnPage(i, x)
    <3>1. i \in LiveIndexes(store.version)
      BY <1>1, <2>3 DEF LiveIndexes
    <3>2. Known(i, x)
      BY <2>3, <3>1 DEF AllKnown
    <3> QED
      BY <1>5, <1>6, <3>2 DEF Known
  <2> QED
    BY <1>1, <2>2, <2>3
<1>7. CASE w.kind # "version"
  <2>1. result.state = Cursor /\ result.state.version = store.version
    BY <1>3, <1>4, <1>5, <1>7 DEF CursorMoves
  <2>2. Known(i, x)
    BY <1>2, <2>1 DEF AllKnown
  <2> QED
    BY <1>3, <1>5, <1>7, <2>2 DEF Known
<1> QED
  BY <1>6, <1>7

\* A write is made: from the cursor on, the events of the item count.
LEMMA EventsWrote ==
  ASSUME Basic, Basic', UndisturbedInv, ResultInv, EventsInv,
         NEW f \in Fetches, loop = f, NEW w, Wrote(f, w)
  PROVE  EventsInv'
<1>1. UNCHANGED <<loop, view, disturbed, lossy>> /\ w \in writes
  BY DEF Wrote
<1>2. SUFFICES ASSUME ~disturbed
               PROVE  /\ Ahead'
                      /\ ~lossy => OneEmitter' /\ ((\E g \in Fetches : Overtaken(g)') \/ AllKnown')
  BY <1>1 DEF EventsInv
<1>3. CursorMoves /\ Ahead
  BY <1>2 DEF UndisturbedInv, EventsInv
<1>4. /\ store.version <= store'.version
      /\ w.kind = "version" => store.version < store'.version
  BY <1>3, WroteMoves
<1>5. /\ store.version \in Nat /\ store'.version \in Nat
      /\ \A g \in Fetches : fetch[g].state.version \in Nat
  <2>1. TypeOK /\ TypeOK'
    BY DEF Basic
  <2>2. store'.version \in Nat
    BY <2>1, LenPatches DEF TypeOK, Stores, Versions
  <2> QED
    BY <2>1, <2>2, VersionsNat
<1>6. /\ \A g \in Fetches \ {f} : fetch'[g] = fetch[g]
      /\ \A g \in Fetches : fetch'[g].muts = fetch[g].muts /\ fetch'[g].pc = fetch[g].pc
  BY WroteTask
<1>7. ~VersionPending' /\ (VersionPending <=> w.kind = "version")
  BY WroteVersion
<1>8. w.kind # "version" => store'.version = store.version
  BY WroteCursor
<1>9. ASSUME NEW g \in Fetches \ {f} PROVE fetch'[g].state.version < store'.version
  <2>1. CASE w.kind = "version"
    <3>1. fetch[g].state.version <= store.version
      BY <1>3 DEF CursorMoves
    <3> QED
      BY <1>4, <1>5, <1>6, <2>1, <3>1
  <2>2. CASE w.kind # "version"
    <3>1. fetch[g].state.version < store.version
      BY <1>1, <1>3, <1>7, <2>2 DEF Ahead
    <3> QED
      BY <1>6, <1>8, <2>2, <3>1
  <2> QED
    BY <2>1, <2>2
<1>10. Ahead'
  BY <1>1, <1>9 DEF Ahead
<1>11. ASSUME ~lossy PROVE OneEmitter' /\ ((\E g \in Fetches : Overtaken(g)') \/ AllKnown')
  <2>1. OneEmitter /\ ((\E g \in Fetches : Overtaken(g)) \/ AllKnown)
    BY <1>2, <1>11 DEF EventsInv
  <2>2. OneEmitter'
    BY <1>6, <2>1 DEF OneEmitter, Emitting
  <2>3. CASE \E g \in Fetches : Overtaken(g)
    <3>1. PICK g \in Fetches : Overtaken(g)
      BY <2>3
    <3>2. g # f /\ fetch'[g] = fetch[g]
      BY <1>6, <3>1 DEF Overtaken
    <3>3. Overtaken(g)'
      BY <1>1, <1>9, <3>1, <3>2 DEF Overtaken
    <3> QED
      BY <2>2, <3>3
  <2>4. CASE AllKnown
    <3>1. ASSUME NEW i \in LiveIndexes(store'.version), NEW x, x = LiveAt[store'.version][i]
          PROVE  Known(i, x)'
      <4>1. /\ result.muts[i] \in {NoMac, x}
            /\ result.muts[i] = NoMac => OnPage(i, x)
        BY <1>3, <2>4, <3>1, WroteKnown
      <4>2. i \in Indexes /\ x # NoMac
        BY <3>1, LiveNotNone
      <4>3. ToldBy(i, x) => ToldBy(i, x)'
        BY <1>1, <1>6 DEF ToldBy, Emitting
      <4>4. CarriedBy(i, x) => CarriedBy(i, x)'
        BY <1>6, <4>3 DEF CarriedBy, Emitting
      <4>5. CASE writes' = {}
        <5>1. pageMuts' = Then(pageMuts, result.muts)
          BY <4>5 DEF Wrote
        <5>2. pageMuts \in Values /\ result.muts \in Values
          BY DEF Basic, TypeOK, Results
        <5>3. /\ result.muts[i] = NoMac => pageMuts'[i] = pageMuts[i]
              /\ result.muts[i] # NoMac => pageMuts'[i] = result.muts[i]
          BY <4>2, <5>1, <5>2, ThenType
        <5>4. OnPage(i, x)'
          BY <4>1, <4>2, <4>4, <5>3 DEF OnPage
        <5> QED
          BY <4>5, <5>4 DEF Known
      <4>6. CASE writes' # {}
        <5>1. pageMuts' = pageMuts /\ result' = result
          BY <4>6 DEF Wrote
        <5>2. OnPage(i, x) => OnPage(i, x)'
          BY <4>4, <5>1 DEF OnPage
        <5> QED
          BY <1>7, <4>1, <4>6, <5>1, <5>2 DEF Known
      <4> QED
        BY <4>5, <4>6
    <3>2. AllKnown'
      BY <3>1 DEF AllKnown
    <3> QED
      BY <2>2, <3>2
  <2> QED
    BY <2>1, <2>3, <2>4
<1> QED
  BY <1>10, <1>11

-----------------------------------------------------------------------------
(* The events of the item being persisted.                                 *)

\* Nothing is pending.
LEMMA ResultNone ==
  ASSUME writes' = {}
  PROVE  ResultInv'
BY DEF ResultInv

\* The item stays.
LEMMA ResultKept ==
  ASSUME ResultInv, UNCHANGED <<writes, result, loop>>,
         writes # {} => fetch'[loop].state = fetch[loop].state
  PROVE  ResultInv'
BY DEF ResultInv

\* Outside apply_patch_list nothing is pending.
LEMMA ResultIdle ==
  ASSUME Basic, loop = Nobody
  PROVE  writes = {}
BY FetchesAssumption DEF Basic, LoopState

\* A write is made.
LEMMA ResultWrote ==
  ASSUME Basic, ResultInv, NEW f \in Fetches, loop = f, NEW w, Wrote(f, w)
  PROVE  ResultInv'
<1>1. CASE writes' = {}
  BY <1>1, ResultNone
<1>2. CASE writes' # {}
  <2>1. fetch' = fetch /\ result' = result /\ loop' = loop /\ writes # {}
    BY <1>2 DEF Wrote
  <2> QED
    BY <2>1 DEF ResultInv
<1> QED
  BY <1>1, <1>2

\* An item is decoded.
LEMMA ResultDecoded ==
  ASSUME Basic, NEW f \in Fetches, loop = f,
         NEW v \in Versions, NEW events, NEW deltas, NEW t, Decoded(f, v, events, deltas, t),
         \A i \in Indexes : LiveAt[v][i] # NoMac =>
            \/ events[i] = LiveAt[v][i]
            \/ events[i] = NoMac /\ LiveAt[v][i] = LiveAt[fetch[f].state.version][i]
  PROVE  ResultInv'
<1>1. PICK c : c = ServerCursor(v)
  OBVIOUS
<1>2. c.version = v
  BY <1>1, ServerCursorType
<1>3. /\ result' = [state |-> c, muts |-> events] /\ loop' = f
      /\ fetch' = [fetch EXCEPT ![f] = t] /\ t.state = fetch[f].state
  BY <1>1 DEF Decoded
<1>4. result'.state.version = v /\ result'.muts = events
  BY <1>2, <1>3
<1>5. fetch'[f].state = fetch[f].state
  BY <1>3 DEF Basic, TypeOK
<1> QED
  BY <1>3, <1>4, <1>5 DEF ResultInv

-----------------------------------------------------------------------------
(* Every action keeps the whole invariant.                                 *)

\* The server or the phone moves, no task does.
LEMMA InvQuiet ==
  ASSUME IInv, sver' \in Versions, keys' \subseteq Keys,
         UNCHANGED <<store, fetch, loop, result, pageMuts, writes, view, disturbed, lossy, faults>>
  PROVE  IInv'
<1>1. Basic /\ UndisturbedInv /\ ResultInv /\ EventsInv
  BY DEF IInv, Basic
<1>2. Basic'
  BY <1>1, BasicQuiet
<1>3. UndisturbedInv'
  BY <1>1, UndisturbedQuiet
<1>4. ResultInv'
  BY <1>1, ResultKept
<1>5. EventsInv'
  BY <1>1, EventsQuiet
<1> QED
  BY <1>2, <1>3, <1>4, <1>5 DEF IInv, Basic

\* ServerPatch keeps the invariant.
LEMMA InvServerPatch ==
  ASSUME IInv, ServerPatch
  PROVE  IInv'
<1>1. sver \in Versions /\ keys \subseteq Keys
  BY DEF IInv, Basic, TypeOK
<1>2. sver' \in Versions /\ keys' \subseteq Keys
  BY <1>1, LenPatches DEF ServerPatch, Versions
<1>3. UNCHANGED <<store, fetch, loop, result, pageMuts, writes, view, disturbed, lossy, faults>>
  BY DEF ServerPatch, applyVars, history
<1> QED
  BY <1>2, <1>3, InvQuiet

\* StoreAppStateKeys keeps the invariant.
LEMMA InvStoreAppStateKeys ==
  ASSUME IInv, StoreAppStateKeys
  PROVE  IInv'
<1>1. sver \in Versions /\ keys \subseteq Keys
  BY DEF IInv, Basic, TypeOK
<1>2. sver' \in Versions /\ keys' \subseteq Keys
  BY <1>1 DEF StoreAppStateKeys
<1>3. UNCHANGED <<store, fetch, loop, result, pageMuts, writes, view, disturbed, lossy, faults>>
  BY DEF StoreAppStateKeys, applyVars, history
<1> QED
  BY <1>2, <1>3, InvQuiet

\* Restart keeps the invariant.
LEMMA InvRestart ==
  ASSUME IInv, Restart
  PROVE  IInv'
<1>1. Basic /\ UndisturbedInv /\ ResultInv /\ EventsInv
  BY DEF IInv, Basic
<1>2. Basic'
  BY <1>1, BasicRestart
<1>3. UndisturbedInv'
  BY <1>1, UndisturbedRestart
<1>4. ResultInv'
  BY ResultNone DEF Restart
<1>5. EventsInv'
  BY <1>1, <1>2, EventsRestart
<1> QED
  BY <1>2, <1>3, <1>4, <1>5 DEF IInv, Basic

\* Fetch keeps the invariant.
LEMMA InvFetch ==
  ASSUME IInv, NEW f \in Fetches, Fetch(f)
  PROVE  IInv'
<1>1. Basic /\ UndisturbedInv /\ ResultInv /\ EventsInv
  BY DEF IInv, Basic
<1>2. Basic'
  BY <1>1, BasicFetch
<1>3. PICK t : t = [Idle EXCEPT !.pc = "wait", !.state = Cursor, !.want = store.version = 0]
  OBVIOUS
<1>4. t \in Tasks /\ t.state = Cursor
  BY <1>1, <1>3, FetchTask DEF Basic
<1>5. /\ fetch' = [fetch EXCEPT ![f] = t] /\ loop = Nobody
      /\ UNCHANGED <<store, loop, result, writes, disturbed>>
  BY <1>3 DEF Fetch, applyVars, history
<1>6. UndisturbedInv'
  BY <1>1, <1>4, <1>5, UndisturbedTask
<1>7. ResultInv'
  BY <1>1, <1>5, ResultIdle, ResultNone
<1>8. EventsInv'
  BY <1>1, <1>2, EventsFetch
<1> QED
  BY <1>2, <1>6, <1>7, <1>8 DEF IInv, Basic

\* Answer keeps the invariant.
LEMMA InvAnswer ==
  ASSUME IInv, NEW f \in Fetches, Answer(f)
  PROVE  IInv'
<1>1. Basic /\ UndisturbedInv /\ ResultInv /\ EventsInv
  BY DEF IInv, Basic
<1>2. Basic'
  BY <1>1, BasicAnswer
<1>3. fetch \in [Fetches -> Tasks] /\ fetch[f] \in Tasks /\ fetch' \in [Fetches -> Tasks]
  BY <1>1, <1>2 DEF Basic, TypeOK
<1>4. PICK p : fetch' = [fetch EXCEPT ![f].pc = "page", ![f].page = p]
  BY DEF Answer
<1>5. PICK t : t = [fetch[f] EXCEPT !.pc = "page", !.page = p]
  OBVIOUS
<1>6. fetch' = [fetch EXCEPT ![f] = t] /\ t \in Tasks
  <2>1. fetch' = [fetch EXCEPT ![f] = t]
    BY <1>3, <1>4, <1>5 DEF Tasks
  <2> QED
    BY <1>3, <2>1
<1>7. t.state = fetch[f].state
  BY <1>3, <1>5 DEF Tasks
<1>8. loop = Nobody /\ UNCHANGED <<store, loop, result, writes, disturbed>>
  BY DEF Answer, applyVars, history
<1>9. UndisturbedInv'
  BY <1>1, <1>6, <1>7, <1>8, UndisturbedTask
<1>10. ResultInv'
  BY <1>1, <1>8, ResultIdle, ResultNone
<1>11. EventsInv'
  BY <1>1, <1>2, EventsAnswer
<1> QED
  BY <1>2, <1>9, <1>10, <1>11 DEF IInv, Basic

\* Emit keeps the invariant.
LEMMA InvEmit ==
  ASSUME IInv, NEW f \in Fetches, Emit(f)
  PROVE  IInv'
<1>1. Basic /\ UndisturbedInv /\ ResultInv /\ EventsInv
  BY DEF IInv, Basic
<1>2. Basic'
  BY <1>1, BasicEmit
<1>3. PICK i \in Indexes : fetch' = [fetch EXCEPT ![f] = EmittedTask(fetch[f], i)]
  BY <1>1, EmitStep DEF Basic
<1>4. PICK s : s = fetch[f]
  OBVIOUS
<1>5. PICK t : t = EmittedTask(s, i)
  OBVIOUS
<1>6. s \in Tasks /\ s.pc = "emit"
  BY <1>1, <1>4 DEF Basic, TypeOK, Emit, Emitting
<1>7. t \in Tasks /\ t.state \in {NeverSynced, s.state}
  BY <1>5, <1>6, EmittedType
<1>8. /\ fetch' = [fetch EXCEPT ![f] = t] /\ loop = Nobody
      /\ UNCHANGED <<store, loop, result, writes, disturbed>>
  BY <1>3, <1>4, <1>5 DEF Emit, applyVars, history
<1>9. UndisturbedInv'
  BY <1>1, <1>4, <1>7, <1>8, UndisturbedTask
<1>10. ResultInv'
  BY <1>1, <1>8, ResultIdle, ResultNone
<1>11. EventsInv'
  BY <1>1, <1>2, EventsEmit
<1> QED
  BY <1>2, <1>9, <1>10, <1>11 DEF IInv, Basic

\* ApplyPatchList keeps the invariant.
LEMMA InvApplyPatchList ==
  ASSUME IInv, NEW f \in Fetches, ApplyPatchList(f)
  PROVE  IInv'
<1>1. Basic /\ UndisturbedInv /\ ResultInv /\ EventsInv
  BY DEF IInv, Basic
<1>2. Basic'
  BY <1>1, BasicApply
<1>3. UndisturbedInv'
  BY <1>1, UndisturbedApply
<1>4. ResultInv'
  <2>1. loop = Nobody /\ writes' = writes
    BY DEF ApplyPatchList
  <2> QED
    BY <1>1, <2>1, ResultIdle, ResultNone
<1>5. EventsInv'
  BY <1>1, <1>2, EventsApply
<1> QED
  BY <1>2, <1>3, <1>4, <1>5 DEF IInv, Basic

\* A task that fails, in the page or on the way to it.
LEMMA InvRaise ==
  ASSUME IInv, NEW f \in Fetches, loop \in {f, Nobody}, writes = {},
         fetch[f].pc \in {"wait", "page"}, Raise(f), disturbed' = disturbed,
         faults' \in 0 .. MaxFaults
  PROVE  IInv'
<1>1. Basic /\ UndisturbedInv /\ ResultInv /\ EventsInv
  BY DEF IInv, Basic
<1>2. Basic'
  BY <1>1, BasicRaise
<1>3. UndisturbedInv'
  BY <1>1, UndisturbedRaise
<1>4. ResultInv'
  BY ResultNone DEF Raise
<1>5. EventsInv'
  BY <1>1, <1>2, EventsRaise
<1> QED
  BY <1>2, <1>3, <1>4, <1>5 DEF IInv, Basic

\* A page given up for want of a key.
LEMMA InvGiveUp ==
  ASSUME IInv, NEW f \in Fetches, loop = f, writes = {}, Finish(f, fetch[f].muts, pageMuts)
  PROVE  IInv'
<1>1. Basic /\ UndisturbedInv /\ ResultInv /\ EventsInv
  BY DEF IInv, Basic
<1>2. fetch[f].muts \in Values
  BY <1>1 DEF Basic, TypeOK, Tasks
<1>3. Basic'
  BY <1>1, <1>2, BasicFinish
<1>4. UndisturbedInv'
  BY <1>1, <1>2, UndisturbedFinish
<1>5. ResultInv'
  BY ResultNone DEF Finish
<1>6. EventsInv'
  BY <1>1, <1>3, EventsGiveUp
<1> QED
  BY <1>3, <1>4, <1>5, <1>6 DEF IInv, Basic

\* An item decoded, whatever its kind.
LEMMA InvDecoded ==
  ASSUME IInv, NEW f \in Fetches, loop = f, writes = {},
         NEW v \in Versions, NEW events \in Values, NEW deltas, RowsOfItem(deltas, v), NEW t,
         Decoded(f, v, events, deltas, t), fetch[f].state.version < v,
         \A i \in Indexes :
            Settles({PutVersion(ServerCursor(v))} \cup deltas, i, LiveAt[v][i],
                    LiveAt[fetch[f].state.version][i]),
         \A i \in Indexes : LiveAt[v][i] # NoMac =>
            \/ events[i] = LiveAt[v][i]
            \/ events[i] = NoMac /\ LiveAt[v][i] = LiveAt[fetch[f].state.version][i]
  PROVE  IInv'
<1>1. Basic /\ UndisturbedInv /\ ResultInv /\ EventsInv
  BY DEF IInv, Basic
<1>2. Basic'
  BY <1>1, BasicDecoded
<1>3. UndisturbedInv'
  BY <1>1, UndisturbedDecoded
<1>4. ResultInv'
  BY <1>1, ResultDecoded
<1>5. EventsInv'
  BY <1>1, <1>2, EventsDecoded
<1> QED
  BY <1>2, <1>3, <1>4, <1>5 DEF IInv, Basic

\* DecodeSnapshot keeps the invariant.
LEMMA InvDecodeSnapshot ==
  ASSUME IInv, NEW f \in Fetches, DecodeSnapshot(f)
  PROVE  IInv'
<1>1. Basic
  BY DEF IInv, Basic
<1>2. PICK v : v = fetch[f].page.snapshot
  OBVIOUS
<1>3. loop = f /\ writes = {} /\ v \in 1 .. Len(Patches) /\ fetch[f].state.version = 0
  BY <1>1, <1>2, DecodeSnapshotCases
<1>4. v \in Versions /\ 0 < v
  BY <1>3, LenPatches DEF Versions
<1>5. ASSUME NEW t, Decoded(f, v, LiveAt[v], SnapshotRows(v), t) PROVE IInv'
  <2>1. LiveAt[v] \in Values /\ RowsOfItem(SnapshotRows(v), v)
    BY <1>4, LiveAtValues, SnapshotDeltas
  <2>2. \A i \in Indexes : LiveAt[0][i] = NoMac
    BY LiveAtZero DEF NothingSet
  <2>3. \A i \in Indexes :
          Settles({PutVersion(ServerCursor(v))} \cup SnapshotRows(v), i, LiveAt[v][i],
                  LiveAt[fetch[f].state.version][i])
    BY <1>3, <1>4, <2>2, ServerCursorType, SnapshotSettles
  <2> QED
    BY <1>3, <1>4, <1>5, <2>1, <2>3, InvDecoded
<1>6. ASSUME Raise(f), UNCHANGED <<disturbed, faults>> PROVE IInv'
  <2>1. faults' \in 0 .. MaxFaults /\ fetch[f].pc = "page"
    BY <1>1, <1>3, <1>6 DEF Basic, TypeOK, LoopState
  <2> QED
    BY <1>3, <1>6, <2>1, InvRaise
<1> QED
  BY <1>1, <1>2, <1>3, <1>5, <1>6, DecodeSnapshotCases, InvGiveUp

\* DecodePatch keeps the invariant.
LEMMA InvDecodePatch ==
  ASSUME IInv, NEW f \in Fetches, DecodePatch(f)
  PROVE  IInv'
<1>1. Basic
  BY DEF IInv, Basic
<1>2. PICK v : v = fetch[f].page.next
  OBVIOUS
<1>3. /\ loop = f /\ writes = {} /\ v \in 1 .. Len(Patches)
      /\ v = fetch[f].state.version + 1
  BY <1>1, <1>2, DecodePatchCases
<1>4. v \in Versions /\ fetch[f].state.version < v /\ fetch[f].state.version = v - 1
  <2>1. fetch[f].state.version \in Nat
    BY <1>1, VersionsNat DEF Basic
  <2> QED
    BY <1>3, <2>1, LenPatches DEF Versions
<1>5. ASSUME NEW t, Decoded(f, v, EventsOf(v), ComputeMacDeltas(v), t) PROVE IInv'
  <2>1. EventsOf(v) \in Values /\ RowsOfItem(ComputeMacDeltas(v), v)
    BY <1>3, EventsType, PatchDeltas
  <2>2. \A i \in Indexes :
          Settles({PutVersion(ServerCursor(v))} \cup ComputeMacDeltas(v), i, LiveAt[v][i],
                  LiveAt[fetch[f].state.version][i])
    BY <1>3, <1>4, ServerCursorType, PatchSettles
  <2>3. \A i \in Indexes : LiveAt[v][i] # NoMac =>
            \/ EventsOf(v)[i] = LiveAt[v][i]
            \/ EventsOf(v)[i] = NoMac /\ LiveAt[v][i] = LiveAt[fetch[f].state.version][i]
    BY <1>3, <1>4, EventsTell
  <2>4. PICK events, deltas : events = EventsOf(v) /\ deltas = ComputeMacDeltas(v)
    OBVIOUS
  <2>5. Decoded(f, v, events, deltas, t) /\ fetch[f].state.version < v /\ v \in Versions
    BY <1>4, <1>5, <2>4
  <2>6. /\ events \in Values /\ RowsOfItem(deltas, v)
        /\ \A i \in Indexes :
             Settles({PutVersion(ServerCursor(v))} \cup deltas, i, LiveAt[v][i],
                     LiveAt[fetch[f].state.version][i])
        /\ \A i \in Indexes : LiveAt[v][i] # NoMac =>
             \/ events[i] = LiveAt[v][i]
             \/ events[i] = NoMac /\ LiveAt[v][i] = LiveAt[fetch[f].state.version][i]
    BY <2>1, <2>2, <2>3, <2>4
  <2>7. loop = f /\ writes = {}
    BY <1>3
  <2> QED
    BY ONLY IInv, f \in Fetches, <2>5, <2>6, <2>7, InvDecoded
<1>6. ASSUME Raise(f), UNCHANGED <<disturbed, faults>> PROVE IInv'
  <2>1. faults' \in 0 .. MaxFaults /\ fetch[f].pc = "page"
    BY <1>1, <1>3, <1>6 DEF Basic, TypeOK, LoopState
  <2> QED
    BY <1>3, <1>6, <2>1, InvRaise
<1> QED
  BY <1>1, <1>2, <1>3, <1>5, <1>6, DecodePatchCases, InvGiveUp

\* Persist keeps the invariant.
LEMMA InvPersist ==
  ASSUME IInv, NEW f \in Fetches, Persist(f)
  PROVE  IInv'
<1>1. Basic /\ UndisturbedInv /\ ResultInv /\ EventsInv
  BY DEF IInv, Basic
<1>2. PICK w : Wrote(f, w)
  BY PersistStep
<1>3. loop = f
  BY DEF Persist
<1>4. Basic'
  BY <1>1, <1>2, <1>3, BasicWrote
<1>5. UndisturbedInv'
  BY <1>1, <1>2, <1>3, UndisturbedWrote
<1>6. ResultInv'
  BY <1>1, <1>2, <1>3, ResultWrote
<1>7. EventsInv'
  BY <1>1, <1>2, <1>3, <1>4, EventsWrote
<1> QED
  BY <1>4, <1>5, <1>6, <1>7 DEF IInv, Basic

\* PageDone keeps the invariant.
LEMMA InvPageDone ==
  ASSUME IInv, NEW f \in Fetches, PageDone(f)
  PROVE  IInv'
<1>1. Basic /\ UndisturbedInv /\ ResultInv /\ EventsInv
  BY DEF IInv, Basic
<1>2. loop = f /\ writes = {}
  BY PageDoneCases
<1>3. CASE PageMore(f)
  <2>1. Basic'
    BY <1>1, <1>2, <1>3, BasicPageMore
  <2>2. UndisturbedInv'
    BY <1>1, <1>2, <1>3, UndisturbedPageMore
  <2>3. ResultInv'
    BY <1>2, <1>3, ResultNone DEF PageMore
  <2>4. EventsInv'
    BY <1>1, <1>2, <1>3, <2>1, EventsPageMore
  <2> QED
    BY <2>1, <2>2, <2>3, <2>4 DEF IInv, Basic
<1>4. CASE Finish(f, Then(fetch[f].muts, pageMuts), NothingSet)
  <2>1. PICK m : m = Then(fetch[f].muts, pageMuts)
    OBVIOUS
  <2>2. m \in Values
    BY <1>1, <2>1, ThenType DEF Basic, TypeOK, Tasks
  <2>3. Finish(f, m, NothingSet)
    BY <1>4, <2>1
  <2>4. Basic'
    BY <1>1, <1>2, <2>2, <2>3, BasicFinish
  <2>5. UndisturbedInv'
    BY <1>1, <1>2, <2>2, <2>3, UndisturbedFinish
  <2>6. ResultInv'
    BY <1>2, <2>3, ResultNone DEF Finish
  <2>7. EventsInv'
    BY <1>1, <1>2, <2>1, <2>3, <2>4, EventsFinish
  <2> QED
    BY <2>4, <2>5, <2>6, <2>7 DEF IInv, Basic
<1> QED
  BY <1>3, <1>4, PageDoneCases

\* RequestFails keeps the invariant.
LEMMA InvRequestFails ==
  ASSUME IInv, NEW f \in Fetches, RequestFails(f)
  PROVE  IInv'
<1>1. Basic
  BY DEF IInv, Basic
<1>2. /\ loop = Nobody /\ fetch[f].pc \in {"wait", "page"} /\ Raise(f)
      /\ faults > 0 /\ faults' = faults - 1 /\ disturbed' = disturbed
  BY DEF RequestFails
<1>3. writes = {}
  BY <1>1, <1>2, ResultIdle
<1>4. faults' \in 0 .. MaxFaults
  BY <1>1, <1>2, BoundsAssumption DEF Basic, TypeOK
<1> QED
  BY <1>2, <1>3, <1>4, InvRaise

\* BadItem keeps the invariant.
LEMMA InvBadItem ==
  ASSUME IInv, NEW f \in Fetches, BadItem(f)
  PROVE  IInv'
<1>1. Basic
  BY DEF IInv, Basic
<1>2. /\ loop = f /\ writes = {} /\ Raise(f)
      /\ faults > 0 /\ faults' = faults - 1 /\ disturbed' = disturbed
  BY DEF BadItem
<1>3. fetch[f].pc = "page"
  BY <1>1, <1>2 DEF Basic, LoopState
<1>4. faults' \in 0 .. MaxFaults
  BY <1>1, <1>2, BoundsAssumption DEF Basic, TypeOK
<1> QED
  BY <1>2, <1>3, <1>4, InvRaise

\* The invariant holds initially.
LEMMA InvInit ==
  ASSUME Init
  PROVE  IInv
<1>1. Basic
  BY BasicInit
<1>2. /\ store.version = 0 /\ store.rows = {} /\ loop = Nobody /\ writes = {}
      /\ fetch = [f \in Fetches |-> Idle]
  BY DEF Init
<1>3. \A f \in Fetches : fetch[f].state.version = 0 /\ fetch[f].pc = "idle"
  BY <1>2, IdleType, NeverSyncedGenuine
<1>4. \A i \in Indexes : LiveAt[0][i] = NoMac
  BY LiveAtZero DEF NothingSet
<1>5. UndisturbedInv
  <2>1. \A i \in Indexes : GetMutationMac(i) = NoMac
    BY <1>2 DEF GetMutationMac
  <2>2. RowsFollow
    BY <1>2, <1>4, <2>1 DEF RowsFollow, Level
  <2>3. CursorMoves
    BY <1>2, <1>3, FetchesAssumption DEF CursorMoves
  <2> QED
    BY <2>2, <2>3 DEF UndisturbedInv
<1>6. ResultInv
  BY <1>2 DEF ResultInv
<1>7. EventsInv
  <2>1. Ahead
    BY <1>2, FetchesAssumption DEF Ahead
  <2>2. OneEmitter
    BY <1>3 DEF OneEmitter, Emitting
  <2>3. AllKnown
    BY <1>2, <1>4 DEF AllKnown, LiveIndexes
  <2> QED
    BY <2>1, <2>2, <2>3 DEF EventsInv
<1> QED
  BY <1>1, <1>5, <1>6, <1>7 DEF IInv, Basic

\* Every step keeps the invariant.
LEMMA InvNext ==
  ASSUME IInv, [Next]_vars
  PROVE  IInv'
<1>1. CASE ServerPatch
  BY <1>1, InvServerPatch
<1>2. CASE StoreAppStateKeys
  BY <1>2, InvStoreAppStateKeys
<1>3. CASE Restart
  BY <1>3, InvRestart
<1>4. ASSUME NEW f \in Fetches, Step(f) PROVE IInv'
  BY <1>4, InvFetch, InvAnswer, InvApplyPatchList, InvDecodeSnapshot, InvDecodePatch,
     InvPersist, InvPageDone, InvEmit DEF Step
<1>5. ASSUME NEW f \in Fetches, RequestFails(f) PROVE IInv'
  BY <1>5, InvRequestFails
<1>6. ASSUME NEW f \in Fetches, BadItem(f) PROVE IInv'
  BY <1>6, InvBadItem
<1>7. CASE UNCHANGED vars
  <2>1. sver' \in Versions /\ keys' \subseteq Keys
    BY <1>7 DEF vars, IInv, Basic, TypeOK
  <2>2. UNCHANGED <<store, fetch, loop, result, pageMuts, writes, view, disturbed, lossy, faults>>
    BY <1>7 DEF vars
  <2> QED
    BY <2>1, <2>2, InvQuiet
<1> QED
  BY <1>1, <1>2, <1>3, <1>4, <1>5, <1>6, <1>7 DEF Next

\* The inductive invariant holds in every reachable state: for every history of
\* patches, page size, number of overlapping fetch tasks and number of failures,
\* the cursors, rows and events of appstate/fetch.py are related as IInv says.
THEOREM AppStateInvariance == Spec => []IInv
<1>1. Init => IInv
  BY InvInit
<1>2. IInv /\ [Next]_vars => IInv'
  BY InvNext
<1> QED
  BY <1>1, <1>2, PTL DEF Spec

-----------------------------------------------------------------------------
(* What the invariant says.                                                *)

\* Every variable keeps its type; in particular no cursor that _persist writes or
\* a fetch carries counts a value MAC other than zero times or once.
THEOREM AppStateTypeCorrect == Spec => []TypeOK
<1>1. IInv => TypeOK
  BY DEF IInv, Basic
<1> QED
  BY <1>1, AppStateInvariance, PTL

\* The stored LT-hash is always the server's at the stored version: whichever
\* tasks overlap and wherever a crash falls, _persist writes only cursors that
\* passed _verify_snapshot_mac.
THEOREM StoredHashIsServers == Spec => []HashMatchesVersion
<1>1. ASSUME IInv PROVE HashMatchesVersion
  <2>1. /\ Genuine(Cursor)
        /\ Cursor.version = store.version /\ Cursor.hash = store.hash
    BY <1>1, CursorType DEF IInv, Basic, CursorsGenuine
  <2> QED
    BY <2>1 DEF Genuine, VerifySnapshotMac, HashMatchesVersion
<1> QED
  BY <1>1, AppStateInvariance, PTL

\* Outside a persist the MAC table answers for the stored version, while no page
\* was applied over a moved cursor and no crash tore a persist: the deltas of
\* _compute_mac_deltas, written in the order of _persist, bring every index from
\* one version to the next.
THEOREM MacsFollowCursor == Spec => []MacsMatchCursor
<1>1. IInv => MacsMatchCursor
  BY DEF IInv, Basic, UndisturbedInv, RowsFollow, Level, MacsMatchCursor
<1> QED
  BY <1>1, AppStateInvariance, PTL

\* A snapshot is applied to the cursor of a collection never synced.
LEMMA SnapshotVerifies ==
  ASSUME IInv, NEW f \in Fetches, loop = f, fetch[f].page.snapshot > 0
  PROVE  VerifySnapshotMac(SnapshotState(f))
<1>1. PICK v : v = fetch[f].page.snapshot
  OBVIOUS
<1>2. PICK s : s = fetch[f].state
  OBVIOUS
<1>3. fetch[f].pc = "page" /\ s.version = 0
  BY <1>2 DEF IInv, Basic, LoopState, PagesFollow
<1>4. v \in Versions
  BY <1>1 DEF IInv, Basic, TypeOK, Tasks, PageLists
<1>5. s.hash = EmptyHash
  BY <1>2, <1>3, ServerHashZero DEF IInv, Basic, CursorsGenuine, Genuine, VerifySnapshotMac
<1>6. SnapshotState(f) = [version |-> v, hash |-> ServerHash[v]]
  BY <1>1, <1>2, <1>4, <1>5, SnapshotSum DEF SnapshotState
<1> QED
  BY <1>6 DEF VerifySnapshotMac

\* A patch is applied to rows that are level with the version before it.
LEMMA PatchVerifies ==
  ASSUME IInv, ~disturbed, NEW f \in Fetches, loop = f, writes = {},
         fetch[f].page.snapshot = 0, PatchesLeft(f)
  PROVE  VerifySnapshotMac(PatchState(f))
<1>1. PICK v : v = fetch[f].page.next
  OBVIOUS
<1>2. PICK s : s = fetch[f].state
  OBVIOUS
<1>3. fetch[f].pc = "page" /\ v = s.version + 1
  BY <1>1, <1>2 DEF IInv, Basic, LoopState, PagesFollow
<1>4. v \in 1 .. Len(Patches) /\ s.version = v - 1 /\ s.version \in Nat
  <2>1. fetch[f].page.upto \in Versions /\ s.version \in Versions
    BY <1>2 DEF IInv, Basic, TypeOK, Tasks, PageLists, HashStates
  <2> QED
    BY <1>1, <1>3, <2>1, LenPatches DEF PatchesLeft, Versions
<1>5. s = Cursor /\ Level /\ Cursor.version = store.version
  BY <1>2, CursorType DEF IInv, Basic, UndisturbedInv, CursorMoves, RowsFollow
<1>6. RowsAt(v - 1)
  BY <1>4, <1>5 DEF Level, RowsAt
<1>7. s.hash = ServerHash[v - 1]
  BY <1>2, <1>4 DEF IInv, Basic, CursorsGenuine, Genuine, VerifySnapshotMac
<1>8. PatchState(f) = [version |-> v, hash |-> ServerHash[v]]
  BY <1>1, <1>2, <1>4, <1>6, <1>7, PatchSum DEF PatchState
<1> QED
  BY <1>8 DEF VerifySnapshotMac

\* Applied to an undisturbed store, what the server sends never fails its snapshot
\* MAC: decode_snapshot and decode_patch compute the server's hash.
THEOREM GenuinePagesVerify == Spec => []ServerPagesVerify
<1>1. ASSUME NEW key, NEW state, NEW records, VerifySnapshotMac(state)
      PROVE  Outcome(key, state, records) # "MacMismatch"
  BY <1>1 DEF Outcome
<1>2. ASSUME IInv PROVE ServerPagesVerify
  <2>1. SUFFICES ASSUME NEW f \in Fetches, ~disturbed, loop = f, writes = {}
                 PROVE  /\ fetch[f].page.snapshot > 0 => SnapshotOutcome(f) # "MacMismatch"
                        /\ fetch[f].page.snapshot = 0 /\ PatchesLeft(f) =>
                             PatchOutcome(f) # "MacMismatch"
    BY DEF ServerPagesVerify
  <2>2. ASSUME fetch[f].page.snapshot > 0 PROVE SnapshotOutcome(f) # "MacMismatch"
    BY <1>1, <1>2, <2>1, <2>2, SnapshotVerifies DEF SnapshotOutcome
  <2>3. ASSUME fetch[f].page.snapshot = 0, PatchesLeft(f)
        PROVE  PatchOutcome(f) # "MacMismatch"
    BY <1>1, <1>2, <2>1, <2>3, PatchVerifies DEF PatchOutcome
  <2> QED
    BY <2>2, <2>3
<1> QED
  BY <1>2, AppStateInvariance, PTL

\* Between fetches the application knows the value of every index at the stored
\* version, unless the store was disturbed or persisted mutations were counted
\* as lost: AppStateSyncer.fetch hands over what it persisted.
THEOREM EventsFollowCursor == Spec => []EventsMatchCursor
<1>1. ASSUME IInv PROVE EventsMatchCursor
  <2>1. SUFFICES ASSUME ~disturbed, ~lossy, \A f \in Fetches : fetch[f].pc = "idle",
                        NEW i \in LiveIndexes(store.version)
                 PROVE  view[i] = LiveAt[store.version][i]
    BY DEF EventsMatchCursor
  <2>2. loop = Nobody /\ writes = {} /\ pageMuts = NothingSet
    BY <1>1, <2>1, FetchesAssumption DEF IInv, Basic, TypeOK, LoopState
  <2>3. \A f \in Fetches : fetch[f].muts = NothingSet /\ ~Emitting(f) /\ ~Overtaken(f)
    BY <1>1, <2>1 DEF IInv, Basic, LoopState, Emitting, Overtaken
  <2>4. PICK x : x = LiveAt[store.version][i]
    OBVIOUS
  <2>5. i \in Indexes /\ NothingSet[i] = NoMac
    BY LiveNotNone DEF NothingSet
  <2>6. OnPage(i, x)
    BY <1>1, <2>1, <2>2, <2>3, <2>4 DEF IInv, Basic, EventsInv, AllKnown, Known
  <2>7. ToldBy(i, x)
    BY <2>2, <2>3, <2>5, <2>6 DEF OnPage, CarriedBy
  <2> QED
    BY <2>3, <2>4, <2>7 DEF ToldBy
<1> QED
  BY <1>1, AppStateInvariance, PTL

==============================================================================
