-------------------------- MODULE PrekeyPool_proofs --------------------------
(***************************************************************************)
(* Proofs about PrekeyPool, for every number of connections and every      *)
(* batch size: the type invariant, PublishedKeysUsable and SingleUse.      *)
(***************************************************************************)
EXTENDS PrekeyPool, TLAPS, WellFoundedInduction, FiniteSetTheorems

-----------------------------------------------------------------------------
(* An OPK id below the id space survives the three-byte encoding.          *)
LEMMA Id3Exact == \A i \in Id : Id3(i) = i
  BY PoolAssumption, SMT DEF Id3, Id

(* A nonempty set of naturals has a least element.                         *)
LEMMA LeastNatural ==
  ASSUME NEW T \in SUBSET Nat, T # {}
  PROVE  \E x \in T : \A y \in T : x <= y
<1>1. PICK x \in T : \A y \in T : ~ (<<y, x>> \in OpToRel(<, Nat))
  BY NatLessThanWellFounded, WFMin
<1>2. \A y \in T : y \in Nat /\ x \in Nat /\ ~(y < x)
  BY <1>1 DEF OpToRel
<1> QED
  BY <1>2

(* max_id really is an upper bound of the rows, so base + 1 is free.       *)
LEMMA MaxRowBound ==
  ASSUME NEW S \in SUBSET Id
  PROVE  /\ MaxRow(S) \in Nat
         /\ \A n \in S : n <= MaxRow(S)
<1>1. CASE S = {}
  BY <1>1 DEF MaxRow
<1>2. CASE S # {}
  <2> DEFINE Upper == {b \in Nat : \A n \in S : n <= b}
  <2>1. MaxId \in Upper
    BY PoolAssumption DEF Id
  <2>2. PICK m \in Upper : \A b \in Upper : m <= b
    BY <2>1, LeastNatural
  <2>3. m \in S
    <3> SUFFICES ASSUME m \notin S PROVE FALSE
      OBVIOUS
    <3>1. \A n \in S : n \in Nat /\ n <= m /\ n # m /\ n >= 1
      BY PoolAssumption DEF Id
    <3>2. m - 1 \in Nat /\ \A n \in S : n <= m - 1
      BY <1>2, <3>1
    <3> QED
      BY <2>2, <3>2
  <2>4. \E x \in S : \A n \in S : n <= x
    BY <2>2, <2>3
  <2>5. MaxRow(S) \in S /\ \A n \in S : n <= MaxRow(S)
    BY <1>2, <2>4 DEF MaxRow
  <2>6. \A x \in Id : x \in Nat
    BY PoolAssumption DEF Id
  <2> QED
    BY <2>5, <2>6
<1> QED
  BY <1>1, <1>2

-----------------------------------------------------------------------------
(***************************************************************************)
(* The inductive invariant.  PublishedKeysUsable is not inductive by       *)
(* itself: consuming the row of one bundle must not hit another published  *)
(* copy, and a new batch must not revive a key that was used before.       *)
(***************************************************************************)
Published == (UNION {u.opks : u \in inflight}) \cup server \cup handed

\* Keys are made by a counter: nothing refers to a key pair not yet generated.
Fresh ==
    /\ \A i \in Id : store[i] <= gen
    /\ \A o \in Published : o.key <= gen
    /\ \A k \in Key : k > gen => used[k] = 0

\* A published OPK is in one place: one upload, or the server, or one bundle.
OnePlace ==
    /\ server \cap handed = {}
    /\ \A u \in inflight : u.opks \cap (server \cup handed) = {}
    /\ \A u, v \in inflight : u = v \/ u.opks \cap v.opks = {}

\* What a row holds has opened no session, and no pair sits in two rows.
RowsUnused ==
    /\ \A i \in Id : store[i] # NoKey => used[store[i]] = 0
    /\ \A i, j \in Id : store[i] # NoKey /\ store[i] = store[j] => i = j

IInv == TypeOK /\ PublishedKeysUsable /\ SingleUse /\ Fresh /\ OnePlace /\ RowsUnused

(* The count the server reports is a number.                               *)
LEMMA OpkFinite ==
  ASSUME NEW S \in SUBSET Opk
  PROVE  Cardinality(S) \in Nat
<1> DEFINE f == [p \in Id \X Key |-> [id |-> p[1], key |-> p[2]]]
<1>1. IsFiniteSet(Id \X Key)
  <2>1. IsFiniteSet(1 .. MaxId) /\ IsFiniteSet(1 .. MaxGen)
    BY FS_Interval, PoolAssumption
  <2> QED
    BY <2>1, FS_Product DEF Id, Key
<1>2. f \in Surjection(Id \X Key, Opk)
  <2>1. f \in [Id \X Key -> Opk]
    BY DEF Opk
  <2>2. ASSUME NEW o \in Opk
        PROVE  \E p \in Id \X Key : f[p] = o
    <3>1. <<o.id, o.key>> \in Id \X Key /\ o = [id |-> o.id, key |-> o.key]
      BY DEF Opk
    <3> QED
      BY <3>1
  <2> QED
    BY <2>1, <2>2 DEF Surjection, Range
<1>3. IsFiniteSet(Opk)
  BY <1>1, <1>2, FS_Surjection
<1> QED
  BY <1>3, FS_Subset, FS_CardinalityType

-----------------------------------------------------------------------------
(* Every behaviour starts in the inductive invariant.                      *)
LEMMA InitIInv == Init => IInv
<1> SUFFICES ASSUME Init PROVE IInv
  OBVIOUS
<1>1. Published = {} /\ Live = {}
  BY DEF Init, Published, Live
<1>2. TypeOK
  BY PoolAssumption DEF Init, TypeOK, States, NoKey, NoReply
<1>3. PublishedKeysUsable /\ SingleUse
  BY <1>1 DEF Init, PublishedKeysUsable, SingleUse, Key
<1>4. Fresh /\ OnePlace /\ RowsUnused
  BY <1>1, PoolAssumption DEF Init, Fresh, OnePlace, RowsUnused, NoKey, Id, Key
<1> QED
  BY <1>2, <1>3, <1>4 DEF IInv

\* What the parts of IInv other than TypeOK speak about.
core == <<store, gen, inflight, server, handed, used>>

(* A step that leaves the keys alone keeps the invariant.                  *)
LEMMA CoreUnchanged ==
  ASSUME IInv, TypeOK', UNCHANGED core
  PROVE  IInv'
BY DEF IInv, core, PublishedKeysUsable, Live, SingleUse, Fresh, Published,
       OnePlace, RowsUnused, Id3, Id, Key

(* The rows of a new batch: past every old row, with keys past gen.        *)
LEMMA SavedRows ==
  ASSUME IInv, NEW k \in Nat, max_id + k <= MaxId, gen + k <= MaxGen
  PROVE  /\ Saved(max_id, k) \in [Id -> Key \cup {NoKey}]
         /\ \A i \in Id : store[i] # NoKey => Saved(max_id, k)[i] = store[i]
         /\ \A i \in Id : Saved(max_id, k)[i] # store[i] =>
              /\ store[i] = NoKey
              /\ i \in max_id + 1 .. max_id + k
              /\ Saved(max_id, k)[i] = gen + (i - max_id)
              /\ Saved(max_id, k)[i] \in gen + 1 .. gen + k
         /\ \A o \in Batch(max_id, k) :
              /\ o \in Opk
              /\ Saved(max_id, k)[o.id] = o.key
              /\ o.key > gen
<1>1. Rows \in SUBSET Id
  BY DEF Rows
<1>2. max_id \in Nat /\ \A i \in Id : store[i] # NoKey => i <= max_id
  BY <1>1, MaxRowBound DEF max_id, Rows
<1>3. gen \in 0 .. MaxGen /\ store \in [Id -> Key \cup {NoKey}]
  BY DEF IInv, TypeOK
<1>4. \A i \in Id : Saved(max_id, k)[i] =
        IF i \in max_id + 1 .. max_id + k THEN gen + (i - max_id) ELSE store[i]
  BY DEF Saved
<1>5. ASSUME NEW i \in max_id + 1 .. max_id + k
      PROVE  /\ i \in Id
             /\ gen + (i - max_id) \in Key
             /\ gen + (i - max_id) \in gen + 1 .. gen + k
             /\ (i \in Id => ~(i <= max_id))
  BY <1>2, <1>3, PoolAssumption DEF Id, Key
<1>6. Saved(max_id, k) \in [Id -> Key \cup {NoKey}]
  BY <1>3, <1>5 DEF Saved
<1>7. \A o \in Batch(max_id, k) : o.id \in max_id + 1 .. max_id + k
                               /\ o.key = gen + (o.id - max_id)
                               /\ o = [id |-> o.id, key |-> o.key]
  BY <1>2, <1>3 DEF Batch
<1>8. ASSUME NEW o \in Batch(max_id, k)
      PROVE  o \in Opk /\ Saved(max_id, k)[o.id] = o.key /\ o.key > gen
  <2>1. o.id \in Id /\ o.key \in Key /\ o.key > gen
    BY <1>3, <1>5, <1>7
  <2> QED
    BY <1>4, <1>7, <2>1 DEF Opk
<1> QED
  BY <1>2, <1>4, <1>5, <1>6, <1>8

-----------------------------------------------------------------------------
(* The rest of IInv after a batch of k keys is saved, published or not.    *)
LEMMA SavedKeeps ==
  ASSUME IInv, NEW k \in Nat, max_id + k <= MaxId, gen + k <= MaxGen,
         store' = Saved(max_id, k), gen' = gen + k, used' = used
  PROVE  /\ \A o \in Live : store'[Id3(o.id)] = o.key
         /\ \A i \in Id : store'[i] <= gen'
         /\ \A x \in Key : x > gen' => used'[x] = 0
         /\ \A x \in Key : x > gen => used'[x] = 0
         /\ RowsUnused'
<1>1. /\ gen \in 0 .. MaxGen /\ store \in [Id -> Key \cup {NoKey}]
      /\ used \in [Key -> Nat]
  BY DEF IInv, TypeOK
<1>2. \A o \in Live : o \in Opk /\ o.id \in Id /\ o.key \in Key
  BY DEF IInv, TypeOK, Live, Uploads, Opk
<1>3. \A o \in Live : store'[Id3(o.id)] = o.key
  <2> SUFFICES ASSUME NEW o \in Live PROVE store'[Id3(o.id)] = o.key
    OBVIOUS
  <2>1. Id3(o.id) = o.id /\ store[o.id] = o.key
    BY <1>2, Id3Exact DEF IInv, PublishedKeysUsable
  <2>2. o.key # NoKey
    BY <1>2 DEF Key, NoKey
  <2> QED
    BY <1>2, <2>1, <2>2, SavedRows
<1>4. \A i \in Id : store'[i] = store[i] \/ store'[i] \in gen + 1 .. gen + k
  BY SavedRows
<1>5. \A i \in Id : store[i] \in Int /\ store[i] <= gen
  BY <1>1, PoolAssumption DEF IInv, Fresh, Key, NoKey
<1>6. \A i \in Id : store'[i] <= gen'
  BY <1>1, <1>4, <1>5
<1>7. \A x \in Key : x > gen => used'[x] = 0
  BY DEF IInv, Fresh
<1>8. \A x \in Key : x > gen' => used'[x] = 0
  BY <1>1, <1>7 DEF Key
<1>9. ASSUME NEW i \in Id, store'[i] # NoKey
      PROVE  used'[store'[i]] = 0
  <2>1. CASE store'[i] = store[i]
    BY <1>9, <2>1 DEF IInv, RowsUnused
  <2>2. CASE store'[i] # store[i]
    <3>1. store'[i] \in gen + 1 .. gen + k /\ store'[i] \in Key \cup {NoKey}
      BY <2>2, SavedRows
    <3> QED
      BY <1>1, <1>7, <1>9, <3>1
  <2> QED
    BY <2>1, <2>2
<1>10. ASSUME NEW i \in Id, NEW j \in Id, store'[i] # NoKey, store'[i] = store'[j]
       PROVE  i = j
  <2>1. CASE store'[i] = store[i] /\ store'[j] = store[j]
    BY <1>10, <2>1 DEF IInv, RowsUnused
  <2>2. CASE store'[i] # store[i] /\ store'[j] # store[j]
    <3>1. /\ store'[i] = gen + (i - max_id) /\ store'[j] = gen + (j - max_id)
          /\ max_id \in Int
      <4>1. Rows \in SUBSET Id
        BY DEF Rows
      <4> QED
        BY <2>2, <4>1, SavedRows, MaxRowBound DEF max_id
    <3>2. i \in Int /\ j \in Int /\ gen \in Int
      BY <1>1, PoolAssumption DEF Id
    <3>3. gen + (i - max_id) = gen + (j - max_id)
      BY <1>10, <3>1
    <3> QED
      BY <3>1, <3>2, <3>3
  <2>3. \A x \in Id : store'[x] # store[x] => store'[x] > gen
    BY <1>1, SavedRows, PoolAssumption
  <2>4. \A x \in Id : store'[x] = store[x] => ~(store'[x] > gen)
    BY <1>1, <1>5, PoolAssumption
  <2> QED
    BY <1>10, <2>1, <2>2, <2>3, <2>4
<1> QED
  BY <1>3, <1>6, <1>7, <1>8, <1>9, <1>10 DEF RowsUnused

(* upload() keeps the invariant, whether or not the stanza goes out.       *)
LEMMA UploadStep ==
  ASSUME IInv, NEW c \in Conns, NEW sent \in BOOLEAN, Upload(c, sent)
  PROVE  IInv'
<1> DEFINE B == Batch(max_id, Count)
<1>1. /\ max_id + Count <= MaxId /\ gen + Count <= MaxGen /\ Count \in Nat
      /\ store' = Saved(max_id, Count) /\ gen' = gen + Count
      /\ used' = used /\ server' = server /\ handed' = handed
  BY PoolAssumption DEF Upload
<1>2. \/ inflight' = inflight \cup {[for |-> {c}, opks |-> B]}
      \/ inflight' = inflight
  BY DEF Upload
<1>3. gen \in 0 .. MaxGen /\ \A o \in Published : o.key <= gen /\ o.key \in Key
  BY DEF IInv, Fresh, TypeOK, Published, Uploads, Opk
<1>4. \A o \in B : o \in Opk /\ store'[o.id] = o.key /\ o.key > gen
  BY <1>1, SavedRows
<1>5. B \cap Published = {}
  BY <1>3, <1>4 DEF Opk, Key
<1>6. TypeOK'
  <2>1. store' \in [Id -> Key \cup {NoKey}]
    BY <1>1, SavedRows
  <2>2. gen' \in 0 .. MaxGen
    BY <1>1, <1>3, PoolAssumption
  <2>3. pc' \in [Conns -> States] /\ reply' \in [Conns -> Int]
    BY DEF Upload, IInv, TypeOK, States, NoReply
  <2>4. inflight' \subseteq Uploads
    BY <1>2, <1>4 DEF IInv, TypeOK, Uploads
  <2> QED
    BY <1>1, <2>1, <2>2, <2>3, <2>4 DEF IInv, TypeOK
<1>7. PublishedKeysUsable'
  <2>1. \A o \in Live' : o \in Live \/ o \in B
    BY <1>1, <1>2 DEF Live
  <2>2. \A o \in B : store'[Id3(o.id)] = o.key
    BY <1>4, Id3Exact DEF Opk
  <2>3. \A o \in Live : store'[Id3(o.id)] = o.key
    BY <1>1, SavedKeeps
  <2> QED
    BY <2>1, <2>2, <2>3 DEF PublishedKeysUsable, Id3
<1>8. SingleUse'
  BY <1>1 DEF IInv, SingleUse, Key
<1>9. Fresh'
  <2>1. \A o \in Published' : o \in Published \/ o \in B
    BY <1>1, <1>2 DEF Published
  <2>2. \A o \in B : o.key <= gen'
    <3>1. \A o \in B : o.id \in Id /\ store'[o.id] = o.key
      BY <1>4 DEF Opk
    <3> QED
      BY <1>1, <3>1, SavedKeeps
  <2>3. \A o \in Published : o.key <= gen'
    BY <1>1, <1>3 DEF Key
  <2>4. /\ \A i \in Id : store'[i] <= gen'
        /\ \A x \in Key : x > gen' => used'[x] = 0
    BY <1>1, SavedKeeps
  <2> QED
    BY <2>1, <2>2, <2>3, <2>4 DEF Fresh, Id, Key
<1>10. OnePlace'
  <2>1. B \cap (server \cup handed) = {} /\ \A u \in inflight : B \cap u.opks = {}
    BY <1>5 DEF Published
  <2>2. OnePlace
    BY DEF IInv
  <2>3. \A u \in inflight' : u \in inflight \/ (u = [for |-> {c}, opks |-> B] /\ u.opks = B)
    BY <1>2
  <2> HIDE DEF B
  <2>4. \A u, v \in inflight' : u = v \/ u.opks \cap v.opks = {}
    BY <2>1, <2>2, <2>3 DEF OnePlace
  <2>5. \A u \in inflight' : u.opks \cap (server \cup handed) = {}
    BY <2>1, <2>2, <2>3 DEF OnePlace
  <2> QED
    BY <1>1, <2>2, <2>4, <2>5 DEF OnePlace
<1>11. RowsUnused'
  BY <1>1, SavedKeeps
<1> QED
  BY <1>6, <1>7, <1>8, <1>9, <1>10, <1>11 DEF IInv

(* A restart forgets who waits for an upload, not what the upload holds.   *)
LEMMA RestartKeeps ==
  ASSUME IInv, Restart, UNCHANGED <<server, handed, used>>
  PROVE  /\ Published' = Published /\ Live' = Live /\ OnePlace'
         /\ inflight' \subseteq Uploads
         /\ pc' \in [Conns -> States] /\ reply' \in [Conns -> Int]
<1>1. \A u \in inflight : u \in Uploads
  BY DEF IInv, TypeOK
<1>2. \A u \in inflight : /\ [u EXCEPT !.for = {}] \in inflight'
                         /\ [u EXCEPT !.for = {}] \in Uploads
                         /\ [u EXCEPT !.for = {}].opks = u.opks
  BY <1>1 DEF Restart, Uploads
<1>3. \A v \in inflight' : \E u \in inflight : v = [u EXCEPT !.for = {}]
  BY DEF Restart
<1>4. \A v \in inflight' : \E u \in inflight : v = [u EXCEPT !.for = {}] /\ v.opks = u.opks
  BY <1>2, <1>3
<1>5. \A o : (\E u \in inflight : o \in u.opks) <=> (\E v \in inflight' : o \in v.opks)
  BY <1>2, <1>4
<1>6. UNION {v.opks : v \in inflight'} = UNION {u.opks : u \in inflight}
  BY <1>5
<1>7. Published' = Published /\ Live' = Live
  BY <1>6 DEF Published, Live
<1>8. OnePlace'
  <2>1. \A v \in inflight' : v.opks \cap (server' \cup handed') = {}
    BY <1>4 DEF IInv, OnePlace
  <2>2. ASSUME NEW v \in inflight', NEW w \in inflight'
        PROVE  v = w \/ v.opks \cap w.opks = {}
    <3>1. PICK a \in inflight : v = [a EXCEPT !.for = {}] /\ v.opks = a.opks
      BY <1>4
    <3>2. PICK b \in inflight : w = [b EXCEPT !.for = {}] /\ w.opks = b.opks
      BY <1>4
    <3> QED
      BY <3>1, <3>2 DEF IInv, OnePlace
  <2> QED
    BY <2>1, <2>2 DEF IInv, OnePlace
<1> QED
  BY <1>2, <1>3, <1>7, <1>8 DEF Restart, States, NoReply

(* A crash in the middle of a batch leaves rows nobody refers to.          *)
LEMMA CrashInUploadStep ==
  ASSUME IInv, NEW c \in Conns, NEW k \in 1 .. Count, CrashInUpload(c, k)
  PROVE  IInv'
<1>1. /\ max_id + k <= MaxId /\ gen + k <= MaxGen /\ k \in Nat
      /\ store' = Saved(max_id, k) /\ gen' = gen + k
      /\ used' = used /\ server' = server /\ handed' = handed
  BY PoolAssumption DEF CrashInUpload
<1>2. Restart
  BY DEF CrashInUpload
<1>3. TypeOK
  BY DEF IInv
<1>5. /\ Published' = Published /\ Live' = Live /\ OnePlace'
      /\ inflight' \subseteq Uploads
      /\ pc' \in [Conns -> States] /\ reply' \in [Conns -> Int]
  BY <1>1, <1>2, RestartKeeps
<1>6. TypeOK'
  <2>1. store' \in [Id -> Key \cup {NoKey}]
    BY <1>1, SavedRows
  <2>2. gen' \in 0 .. MaxGen
    BY <1>1, <1>3, PoolAssumption DEF TypeOK
  <2> QED
    BY <1>1, <1>3, <1>5, <2>1, <2>2 DEF TypeOK
<1>7. PublishedKeysUsable'
  BY <1>1, <1>5, SavedKeeps DEF PublishedKeysUsable, Id3
<1>8. SingleUse'
  BY <1>1 DEF IInv, SingleUse, Key
<1>9. Fresh'
  <2>1. gen \in Int /\ \A o \in Published : o.key \in Int /\ o.key <= gen
    BY <1>3, PoolAssumption DEF IInv, Fresh, TypeOK, Published, Uploads, Opk, Key
  <2>2. \A o \in Published' : o.key <= gen'
    BY <1>1, <1>5, <2>1
  <2>3. /\ \A i \in Id : store'[i] <= gen'
        /\ \A x \in Key : x > gen' => used'[x] = 0
    BY <1>1, SavedKeeps
  <2> QED
    BY <2>2, <2>3 DEF Fresh, Id, Key
<1>11. RowsUnused'
  BY <1>1, SavedKeeps
<1> QED
  BY <1>6, <1>7, <1>8, <1>9, <1>5, <1>11 DEF IInv

(* Completing X3DH deletes the one row that the bundle was made from.      *)
LEMMA ReceivePkmsgStep ==
  ASSUME IInv, NEW o \in handed, ReceivePkmsg(o)
  PROVE  IInv'
<1>1. TypeOK
  BY DEF IInv
<1>2. o \in Opk /\ o.id \in Id /\ o.key \in Key /\ Id3(o.id) = o.id
  BY <1>1, Id3Exact DEF TypeOK, Opk
<1>3. /\ store[o.id] = o.key /\ o.key # NoKey
      /\ store' = [store EXCEPT ![o.id] = NoKey]
      /\ used' = [used EXCEPT ![o.key] = @ + 1]
      /\ UNCHANGED <<gen, pc, reply, inflight, server, handed>>
  BY <1>2 DEF ReceivePkmsg, Consume, Rows
<1>4. used[o.key] = 0 /\ used'[o.key] = 1
  BY <1>1, <1>2, <1>3 DEF IInv, RowsUnused, TypeOK
<1>5. TypeOK'
  BY <1>1, <1>2, <1>3 DEF TypeOK
<1>6. PublishedKeysUsable'
  <2> SUFFICES ASSUME NEW p \in Live' PROVE store'[Id3(p.id)] = p.key
    BY DEF PublishedKeysUsable, Id3
  <2>1. p \in Live /\ p \in Opk /\ p # o
    <3>1. o \notin Live'
      BY <1>3, <1>4 DEF IInv, OnePlace, Live
    <3>2. used[p.key] = 0 \/ used[p.key] = used'[p.key] \/ p.key = o.key
      BY <1>1, <1>2, <1>3 DEF TypeOK
    <3>3. p \in Live
      BY <1>1, <1>2, <1>3, <1>4, <3>2 DEF Live, TypeOK, Opk
    <3>4. p \in Opk
      BY <1>1, <3>3 DEF Live, TypeOK, Uploads
    <3> QED
      BY <3>1, <3>3, <3>4
  <2>2. Id3(p.id) = p.id /\ p.id \in Id /\ p.key \in Key /\ store[p.id] = p.key
    BY <2>1, Id3Exact DEF IInv, PublishedKeysUsable, Opk
  <2>3. p.id # o.id
    <3>1. p = [id |-> p.id, key |-> p.key] /\ o = [id |-> o.id, key |-> o.key]
      BY <1>2, <2>1 DEF Opk
    <3> QED
      BY <1>3, <2>1, <2>2, <3>1
  <2> QED
    BY <1>1, <1>3, <2>2, <2>3 DEF TypeOK
<1>7. SingleUse'
  BY <1>1, <1>2, <1>3, <1>4 DEF IInv, SingleUse, TypeOK, Key
<1>8. Fresh'
  <2>1. gen \in Int /\ o.key <= gen /\ o.key \in Int
    BY <1>1, <1>2, PoolAssumption DEF IInv, Fresh, Published, TypeOK, Key
  <2>2. \A i \in Id : store'[i] <= gen
    BY <1>1, <1>2, <1>3, PoolAssumption DEF IInv, Fresh, TypeOK, NoKey
  <2>3. \A k \in Key : k > gen => used'[k] = 0
    BY <1>1, <1>2, <1>3, <2>1 DEF IInv, Fresh, TypeOK, Key
  <2>4. Published' = Published /\ gen' = gen
    BY <1>3 DEF Published
  <2> QED
    BY <2>2, <2>3, <2>4 DEF IInv, Fresh, Id, Key
<1>9. OnePlace'
  BY <1>3 DEF IInv, OnePlace
<1>10. RowsUnused'
  <2>1. \A i \in Id : store'[i] # NoKey => i # o.id /\ store'[i] = store[i]
    BY <1>1, <1>2, <1>3 DEF TypeOK
  <2>2. \A i \in Id : store'[i] # NoKey => store[i] # o.key
    BY <1>2, <1>3, <2>1 DEF IInv, RowsUnused
  <2>3. \A i \in Id : store'[i] # NoKey => used'[store'[i]] = 0
    BY <1>1, <1>2, <1>3, <2>1, <2>2 DEF IInv, RowsUnused, TypeOK
  <2> QED
    BY <2>1, <2>3 DEF IInv, RowsUnused, Id
<1> QED
  BY <1>5, <1>6, <1>7, <1>8, <1>9, <1>10 DEF IInv

(* The steps of the server and of the wire.                                *)
LEMMA ServerSteps ==
  ASSUME IInv,
         \/ \E u \in inflight : ServerAccept(u) \/ ServerReject(u) \/ LoseUpload(u)
         \/ \E o \in server : HandOut(o)
  PROVE  IInv'
<1>1. TypeOK
  BY DEF IInv
<1>2. ASSUME NEW u \in inflight, ServerAccept(u)
      PROVE  IInv'
  <2>1. /\ inflight' = inflight \ {u} /\ server' \subseteq server \cup u.opks
        /\ UNCHANGED <<store, gen, pc, handed, used>>
    BY <1>2 DEF ServerAccept
  <2>2. u \in Uploads /\ u.opks \subseteq Opk
    BY <1>1 DEF TypeOK, Uploads
  <2>3. reply' \in [Conns -> Int]
    BY <1>1, <1>2 DEF ServerAccept, Answer, TypeOK
  <2>4. TypeOK'
    BY <1>1, <2>1, <2>2, <2>3 DEF TypeOK
  <2>5. Live' \subseteq Live /\ Published' \subseteq Published
    BY <2>1 DEF Live, Published
  <2>6. OnePlace'
    <3>1. u.opks \cap handed = {} /\ \A v \in inflight' : u.opks \cap v.opks = {}
      BY <2>1 DEF IInv, OnePlace
    <3> QED
      BY <2>1, <3>1 DEF IInv, OnePlace
  <2> QED
    BY <2>1, <2>4, <2>5, <2>6
    DEF IInv, PublishedKeysUsable, SingleUse, Fresh, RowsUnused, Id3, Id, Key
<1>3. ASSUME NEW u \in inflight, ServerReject(u) \/ LoseUpload(u)
      PROVE  IInv'
  <2>1. /\ inflight' = inflight \ {u}
        /\ UNCHANGED <<store, gen, pc, server, handed, used>>
    BY <1>3 DEF ServerReject, LoseUpload
  <2>2. reply' \in [Conns -> Int]
    BY <1>1, <1>3 DEF ServerReject, LoseUpload, Answer, TypeOK
  <2>3. TypeOK'
    BY <1>1, <2>1, <2>2 DEF TypeOK
  <2>4. Live' \subseteq Live /\ Published' \subseteq Published
    BY <2>1 DEF Live, Published
  <2>5. OnePlace'
    BY <2>1 DEF IInv, OnePlace
  <2> QED
    BY <2>1, <2>3, <2>4, <2>5
    DEF IInv, PublishedKeysUsable, SingleUse, Fresh, RowsUnused, Id3, Id, Key
<1>4. ASSUME NEW o \in server, HandOut(o)
      PROVE  IInv'
  <2>1. /\ server' = server \ {o} /\ handed' = handed \cup {o}
        /\ UNCHANGED <<store, gen, pc, reply, inflight, used>>
    BY <1>4 DEF HandOut
  <2>2. TypeOK'
    BY <1>1, <2>1 DEF TypeOK
  <2>3. Live' \subseteq Live /\ Published' \subseteq Published
    BY <2>1 DEF Live, Published
  <2>4. OnePlace'
    BY <2>1 DEF IInv, OnePlace
  <2> QED
    BY <2>1, <2>2, <2>3, <2>4
    DEF IInv, PublishedKeysUsable, SingleUse, Fresh, RowsUnused, Id3, Id, Key
<1> QED
  BY <1>2, <1>3, <1>4

(* Every step keeps the inductive invariant.                               *)
LEMMA NextIInv == IInv /\ [Next]_vars => IInv'
<1> SUFFICES ASSUME IInv, [Next]_vars PROVE IInv'
  OBVIOUS
<1>1. TypeOK
  BY DEF IInv
<1>2. ASSUME NEW c \in Conns,
             \/ RefillIfLow(c) \/ ServerCount(c) \/ PoolHealthy(c)
             \/ UploadDone(c) \/ Timeout(c)
      PROVE  IInv'
  <2>1. UNCHANGED core
    BY <1>2 DEF RefillIfLow, ServerCount, PoolHealthy, UploadDone, Timeout, GiveUp, core
  <2>2. Cardinality(server) \in Int
    BY <1>1, OpkFinite DEF TypeOK
  <2>3. pc' \in [Conns -> States] /\ reply' \in [Conns -> Int]
    BY <1>1, <1>2, <2>2
    DEF RefillIfLow, ServerCount, PoolHealthy, UploadDone, Timeout, GiveUp, TypeOK,
        States, NoReply
  <2>4. TypeOK'
    BY <1>1, <2>1, <2>3 DEF TypeOK, core
  <2> QED
    BY <2>1, <2>4, CoreUnchanged
<1>3. CASE Crash
  <2>1. /\ Restart
        /\ UNCHANGED <<store, gen, server, handed, used>>
    BY <1>3 DEF Crash
  <2>2. /\ Published' = Published /\ Live' = Live /\ OnePlace'
        /\ inflight' \subseteq Uploads
        /\ pc' \in [Conns -> States] /\ reply' \in [Conns -> Int]
    BY <2>1, RestartKeeps
  <2>3. TypeOK'
    BY <1>1, <2>1, <2>2 DEF TypeOK
  <2> QED
    BY <2>1, <2>2, <2>3
    DEF IInv, PublishedKeysUsable, SingleUse, Fresh, RowsUnused, Id3, Id, Key
<1>4. CASE UNCHANGED vars
  <2>1. UNCHANGED core /\ TypeOK'
    BY <1>1, <1>4 DEF vars, core, TypeOK
  <2> QED
    BY <2>1, CoreUnchanged
<1> QED
  BY <1>2, <1>3, <1>4, UploadStep, CrashInUploadStep, ReceivePkmsgStep, ServerSteps
  DEF Next

(* The inductive invariant holds in every reachable state.                 *)
THEOREM PoolInvariant == Spec => []IInv
<1> QED
  BY InitIInv, NextIInv, PTL DEF Spec

(* Type correctness of the pool, for every constant.                       *)
THEOREM PoolTypeOK == Spec => []TypeOK
<1>1. IInv => TypeOK
  BY DEF IInv
<1> QED
  BY <1>1, PoolInvariant, PTL

(* The private half of every published, unused OPK is in its row: a peer   *)
(* that holds a bundle can open the session it was promised, whatever      *)
(* uploads overlap, fail, get lost or are cut short by a crash.            *)
THEOREM PoolPublishedKeysUsable == Spec => []PublishedKeysUsable
<1>1. IInv => PublishedKeysUsable
  BY DEF IInv
<1> QED
  BY <1>1, PoolInvariant, PTL

(* One OPK opens at most one session, although ids are reused.             *)
THEOREM PoolSingleUse == Spec => []SingleUse
<1>1. IInv => SingleUse
  BY DEF IInv
<1> QED
  BY <1>1, PoolInvariant, PTL
=============================================================================
