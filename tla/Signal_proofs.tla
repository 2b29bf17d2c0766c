------------------------------ MODULE Signal_proofs ------------------------------
(***************************************************************************)
(* Theorems about the ratchet of one session (DoubleRatchet) and about the *)
(* sessions two accounts make, replace, lose and reload (SignalSession).   *)
(* The lemmas on a ratchet state serve both.                               *)
(***************************************************************************)
EXTENDS DoubleRatchet, SignalSession, FiniteSetTheorems, SequenceTheorems, TLAPS

(***************************************************************************)
(* Types.                                                                  *)
(***************************************************************************)
X3dhSecrets == [init : Parties, base : Int, opk : Nat]
Secrets == {"sk"} \cup (SUBSET Nat) \cup X3dhSecrets
Chains == [root : Seq(Secrets), n : Int]
Entries == [dh : Nat, n : Nat, mk : Chains]
States == [dhs : Nat, dhr : Nat, rk : Seq(Secrets), cks : Chains, ckr : Chains,
           ns : Nat, nr : Nat, pn : Nat, mkskipped : Seq(Entries)]
Headers == [dh : Nat, pn : Nat, n : Nat]
Messages == [from : Parties, id : 1 .. MaxMsgs, header : Headers, mk : Chains]

Types ==
  /\ st \in [Parties -> States]
  /\ net \subseteq Messages /\ IsFiniteSet(net)
  /\ got \in [Parties -> [1 .. MaxMsgs -> Nat]]
  /\ spare \in Nat

(***************************************************************************)
(* One state by itself.  The sending chain is the one of the root key and  *)
(* counts with ns, the receiving chain is one DH output shorter and counts *)
(* with nr.  A key the receiving chain has left behind never comes again:  *)
(* a later chain has a longer root.                                        *)
(***************************************************************************)
Behind(s, k) ==
  \/ k.root = s.ckr.root /\ k.n < s.ckr.n
  \/ Len(k.root) < Len(s.ckr.root)

Sound(s) ==
  /\ s.cks # NoChain => s.cks.root = s.rk /\ s.cks.n = s.ns
  /\ s.ckr # NoChain => Len(s.ckr.root) + 1 = Len(s.rk) /\ s.ckr.n = s.nr
  /\ s.ckr = NoChain => s.mkskipped = <<>>
  /\ Len(s.rk) > 0
  /\ Len(s.mkskipped) <= MaxSkippedTotal
  /\ \A i \in 1 .. Len(s.mkskipped) :
       Behind(s, s.mkskipped[i].mk) /\ s.mkskipped[i].mk.n = s.mkskipped[i].n
  /\ \A i, j \in 1 .. Len(s.mkskipped) : s.mkskipped[i].mk = s.mkskipped[j].mk => i = j
  /\ \A i \in 1 .. Len(s.mkskipped) :
       \/ s.mkskipped[i].dh < s.dhr
       \/ s.mkskipped[i].dh = s.dhr /\ s.mkskipped[i].n < s.nr

Held(s, k) == \E i \in 1 .. Len(s.mkskipped) : s.mkskipped[i].mk = k

(***************************************************************************)
(* The messages of a sender.  A's root keys have even length and B's odd.  *)
(***************************************************************************)
Own(p, root) == \E k \in Nat : Len(root) = 2 * k + (IF p = "A" THEN 2 ELSE 1)

Sends(p) ==
  /\ Own(p, st[p].rk)
  /\ st[p].ns <= Cardinality(SentBy(p)) /\ st[p].pn <= Cardinality(SentBy(p))
  /\ \A m \in SentBy(p) :
       /\ m.id <= Cardinality(SentBy(p)) /\ m.header.n < m.id
       /\ m.mk.n = m.header.n
       /\ Own(p, m.mk.root) /\ Len(m.mk.root) <= Len(st[p].rk)
       /\ Len(m.mk.root) = Len(st[p].rk) =>
            st[p].cks # NoChain /\ m.mk.root = st[p].rk /\ m.mk.n < st[p].cks.n
  /\ \A x, y \in SentBy(p) : x.id = y.id => x = y

(***************************************************************************)
(* The messages a receiver has decrypted.                                  *)
(***************************************************************************)
Spent(p) == \A i \in 1 .. MaxMsgs : got[p][i] > 0 =>
  /\ got[p][i] = 1
  /\ \E m \in ToParty(p) : m.id = i /\ Behind(st[p], m.mk) /\ ~Held(st[p], m.mk)

Decrypted == {d \in Parties \X (1 .. MaxMsgs) : got[d[1]][d[2]] > 0}

(***************************************************************************)
(* The two parties together.  One of them, the one that turned its ratchet *)
(* last, has a root key one DH output longer; the other knows its key pair *)
(* only once it receives a message of the new chain.                       *)
(***************************************************************************)
Ahead(p) ==
  /\ st[p].rk = Append(st[Peer(p)].rk, Dh(st[p].dhs, st[Peer(p)].dhs))
  /\ st[p].dhr = st[Peer(p)].dhs
  /\ st[Peer(p)].dhr < st[p].dhs
  /\ st[p].ckr = NoChain => st[Peer(p)].cks = NoChain
  /\ st[p].ckr # NoChain => st[p].ckr.root = st[Peer(p)].rk

Lockstep ==
  /\ Ahead("A") \/ Ahead("B")
  /\ \A p \in Parties : st[p].dhs \in 1 .. spare - 1 /\ st[p].dhr < spare

Hears(s, peer, m) ==
  /\ m.header.dh > 0
  /\ \/ m.header.dh < s.dhr /\ s.ckr # NoChain /\ Len(m.mk.root) < Len(s.ckr.root)
     \/ m.header.dh = s.dhr /\ s.ckr # NoChain /\ m.mk.root = s.ckr.root
     \/ m.header.dh = peer.dhs /\ peer.dhs > s.dhr /\ m.mk.root = peer.rk

Heard(p) == \A m \in ToParty(p) : Hears(st[p], st[Peer(p)], m)

(***************************************************************************)
(* The bound on what a party encrypts bounds what its peer counts.         *)
(***************************************************************************)
Counted(p) ==
  /\ Cardinality(SentBy(p)) <= MaxMsgs
  /\ st[p].nr <= Cardinality(ToParty(p))

PairInv ==
  /\ Types
  /\ \A p \in Parties : Sound(st[p]) /\ Sends(p) /\ Spent(p) /\ Heard(p)
  /\ \A p \in Parties : Counted(p)
  /\ KeysUsedOnce
  /\ Lockstep
  /\ spare >= 3 /\ spare <= 3 + Cardinality(Decrypted)

-----------------------------------------------------------------------------
(***************************************************************************)
(* The operators of Ratchet.                                               *)
(***************************************************************************)
LEMMA NewestIs ==
  ASSUME NEW T, NEW q \in Seq(T), NEW limit \in Nat
  PROVE  /\ Newest(q, limit) \in Seq(T) /\ Len(Newest(q, limit)) <= limit
         /\ \E o \in Nat : /\ Len(Newest(q, limit)) + o = Len(q)
                           /\ \A i \in 1 .. Len(Newest(q, limit)) : Newest(q, limit)[i] = q[i + o]
<1>1. CASE Len(q) <= limit
  <2>1. Newest(q, limit) = q
    BY <1>1 DEF Newest
  <2>2. /\ Len(q) + 0 = Len(q)
        /\ \A i \in 1 .. Len(q) : q[i] = q[i + 0]
    OBVIOUS
  <2> QED
    BY <1>1, <2>1, <2>2
<1>2. CASE Len(q) > limit
  <2>1. PICK o : o = Len(q) - limit
    OBVIOUS
  <2>2. o \in Nat /\ o + limit = Len(q) /\ Len(q) \in Nat
    BY <1>2, <2>1
  <2>3. Newest(q, limit) = SubSeq(q, o + 1, Len(q))
    BY <1>2, <2>1 DEF Newest
  <2>4. PICK r : r = SubSeq(q, o + 1, Len(q))
    OBVIOUS
  <2>5. /\ r \in Seq(T) /\ Len(r) = limit
        /\ \A i \in 1 .. limit : r[i] = q[i + o]
    BY <2>2, <2>4
  <2>6. Len(r) + o = Len(q) /\ Len(r) <= limit
    BY <2>2, <2>5
  <2>7. \A i \in 1 .. Len(r) : r[i] = q[i + o]
    BY <2>5
  <2> QED
    BY ONLY <2>2, <2>3, <2>4, <2>5, <2>6, <2>7, Zenon
<1>3. Len(q) \in Nat
  OBVIOUS
<1> QED
  BY <1>1, <1>2, <1>3

LEMMA DropIs ==
  ASSUME NEW T, NEW q \in Seq(T), NEW i \in 1 .. Len(q)
  PROVE  /\ DropAt(q, i) \in Seq(T) /\ Len(DropAt(q, i)) = Len(q) - 1
         /\ \A j \in 1 .. Len(q) - 1 : DropAt(q, i)[j] = IF j < i THEN q[j] ELSE q[j + 1]
<1> DEFINE u == SubSeq(q, 1, i - 1)
           v == SubSeq(q, i + 1, Len(q))
<1>1. u \in Seq(T) /\ Len(u) = i - 1 /\ \A j \in 1 .. i - 1 : u[j] = q[j]
  OBVIOUS
<1>2. v \in Seq(T) /\ Len(v) = Len(q) - i /\ \A j \in 1 .. Len(q) - i : v[j] = q[i + j]
  OBVIOUS
<1>3. DropAt(q, i) = u \o v
  BY DEF DropAt
<1> HIDE DEF u, v
<1>4. u \o v \in Seq(T) /\ Len(u \o v) = Len(q) - 1
  BY <1>1, <1>2
<1>5. \A j \in 1 .. i - 1 : (u \o v)[j] = q[j]
  BY <1>1, <1>2
<1>6. ASSUME NEW j \in i .. Len(q) - 1 PROVE (u \o v)[j] = q[j + 1]
  <2>1. j - (i - 1) \in 1 .. Len(q) - i /\ j = Len(u) + (j - (i - 1))
    BY <1>1
  <2>2. (u \o v)[j] = v[j - (i - 1)]
    <3>1. PICK a, b, k : a = u /\ b = v /\ k = j - (i - 1)
      OBVIOUS
    <3>2. a \in Seq(T) /\ b \in Seq(T) /\ k \in 1 .. Len(b) /\ j = Len(a) + k
      BY <1>1, <1>2, <2>1, <3>1
    <3>3. (a \o b)[j] = b[k]
      BY ONLY <3>2
    <3> QED
      BY ONLY <3>1, <3>3, Zenon
  <2> QED
    BY <1>2, <2>1, <2>2
<1>7. PICK d : d = u \o v
  OBVIOUS
<1>8. Len(q) \in Nat
  OBVIOUS
<1>9. ASSUME NEW j \in 1 .. Len(q) - 1 PROVE d[j] = IF j < i THEN q[j] ELSE q[j + 1]
  <2>1. CASE j < i
    <3>1. j \in 1 .. i - 1
      BY <1>8, <2>1
    <3>2. d[j] = q[j]
      BY ONLY <1>5, <1>7, <3>1, Zenon
    <3> QED
      BY ONLY <2>1, <3>2, Zenon
  <2>2. CASE ~(j < i)
    <3>1. j \in i .. Len(q) - 1
      BY <1>8, <2>2
    <3> QED
      BY ONLY <1>6, <1>7, <2>2, <3>1, Zenon
  <2> QED
    BY ONLY <2>1, <2>2
<1> QED
  BY ONLY <1>3, <1>4, <1>7, <1>9, Zenon

(* The newest entries of two sequences, one after the other.               *)
EndOf(q, old, new) ==
  \E o \in Nat :
    /\ Len(q) + o = Len(old) + Len(new)
    /\ \A i \in 1 .. Len(q) :
         \/ i + o \in 1 .. Len(old) /\ q[i] = old[i + o]
         \/ (i + o) - Len(old) \in 1 .. Len(new) /\ q[i] = new[(i + o) - Len(old)]

LEMMA NewestOfTwo ==
  ASSUME NEW T, NEW old \in Seq(T), NEW new \in Seq(T), NEW limit \in Nat
  PROVE  /\ Newest(old \o new, limit) \in Seq(T) /\ Len(Newest(old \o new, limit)) <= limit
         /\ EndOf(Newest(old \o new, limit), old, new)
<1>1. PICK all, q : all = old \o new /\ q = Newest(old \o new, limit)
  OBVIOUS
<1>2. /\ all \in Seq(T) /\ Len(old) \in Nat /\ Len(new) \in Nat /\ Len(all) = Len(old) + Len(new)
      /\ \A i \in 1 .. Len(old) : all[i] = old[i]
      /\ \A i \in 1 .. Len(new) : all[Len(old) + i] = new[i]
  BY <1>1
<1>3. /\ q \in Seq(T) /\ Len(q) <= limit
      /\ \E o \in Nat : Len(q) + o = Len(all) /\ \A i \in 1 .. Len(q) : q[i] = all[i + o]
  <2>1. q = Newest(all, limit)
    BY ONLY <1>1, Zenon
  <2>2. /\ Newest(all, limit) \in Seq(T) /\ Len(Newest(all, limit)) <= limit
        /\ \E o \in Nat : /\ Len(Newest(all, limit)) + o = Len(all)
                          /\ \A i \in 1 .. Len(Newest(all, limit)) : Newest(all, limit)[i] = all[i + o]
    BY ONLY <1>2, limit \in Nat, NewestIs, Zenon
  <2> QED
    BY ONLY <2>1, <2>2, Zenon
<1>4. PICK o \in Nat : Len(q) + o = Len(all) /\ \A i \in 1 .. Len(q) : q[i] = all[i + o]
  BY <1>3
<1>5. PICK a, b, c : a = Len(old) /\ b = Len(new) /\ c = Len(q)
  OBVIOUS
<1>6. a \in Nat /\ b \in Nat /\ c \in Nat /\ c + o = a + b
  BY <1>2, <1>3, <1>4, <1>5
<1>7. ASSUME NEW i \in 1 .. c
      PROVE  \/ i + o \in 1 .. a /\ q[i] = old[i + o]
             \/ (i + o) - a \in 1 .. b /\ q[i] = new[(i + o) - a]
  <2>1. CASE i + o <= a
    BY <1>2, <1>4, <1>5, <1>6, <2>1
  <2>2. CASE i + o > a
    <3>1. (i + o) - a \in 1 .. b /\ i + o = a + ((i + o) - a)
      BY <1>6, <2>2
    <3>2. all[i + o] = new[(i + o) - a]
      BY <1>2, <1>5, <3>1
    <3> QED
      BY <1>4, <1>5, <3>1, <3>2
  <2> QED
    BY <1>6, <2>1, <2>2
<1>8. EndOf(q, old, new)
  BY ONLY <1>5, <1>6, <1>7, Zenon DEF EndOf
<1> QED
  BY ONLY <1>1, <1>3, <1>8, Zenon

LEMMA NoChainType == NoChain \in Chains /\ NoChain.root = <<>> /\ NoChain.n = -1 /\ Len(NoChain.root) = 0
BY DEF NoChain, Chains

(* The entries _skip_message_keys adds.                                    *)
Skipped(s, count) ==
  [i \in 1 .. count |-> [dh |-> s.dhr, n |-> s.nr + i - 1, mk |-> [s.ckr EXCEPT !.n = @ + i - 1]]]

LEMMA SkippedIs ==
  ASSUME NEW s \in States, s.ckr.n = s.nr, NEW count \in Nat
  PROVE  LET new == Skipped(s, count) IN
         /\ new \in Seq(Entries) /\ Len(new) = count
         /\ \A i \in 1 .. count : /\ new[i].dh = s.dhr /\ new[i].n = s.nr + i - 1
                                  /\ new[i].mk.n = s.nr + i - 1 /\ new[i].mk.root = s.ckr.root
<1>0. PICK new : new = Skipped(s, count)
  OBVIOUS
<1>1. s.ckr \in Chains /\ s.dhr \in Nat /\ s.nr \in Nat
  BY DEF States
<1>2. ASSUME NEW i \in 1 .. count
      PROVE  /\ new[i] \in Entries /\ new[i].dh = s.dhr /\ new[i].n = s.nr + i - 1
             /\ new[i].mk.n = s.nr + i - 1 /\ new[i].mk.root = s.ckr.root
  <2>1. new[i] = [dh |-> s.dhr, n |-> s.nr + i - 1, mk |-> [s.ckr EXCEPT !.n = @ + i - 1]]
    BY <1>0 DEF Skipped
  <2>2. PICK k : k = [s.ckr EXCEPT !.n = @ + i - 1]
    OBVIOUS
  <2>3. k \in Chains /\ k.n = s.nr + i - 1 /\ k.root = s.ckr.root
    BY <1>1, <2>2 DEF Chains
  <2>4. new[i] = [dh |-> s.dhr, n |-> s.nr + i - 1, mk |-> k]
    BY ONLY <2>1, <2>2, Zenon
  <2>5. s.nr + i - 1 \in Nat
    BY <1>1
  <2> QED
    BY <1>1, <2>3, <2>4, <2>5 DEF Entries
<1>3. new = [i \in 1 .. count |-> new[i]]
  BY <1>0 DEF Skipped
<1>4. new \in Seq(Entries) /\ Len(new) = count
  BY <1>2, <1>3
<1> QED
  BY ONLY <1>0, <1>2, <1>4, Zenon

(* The dict after a skip.                                                  *)
DictAfter(s, count, q) ==
  /\ q \in Seq(Entries) /\ Len(q) <= MaxSkippedTotal
  /\ \A i \in 1 .. Len(q) :
       /\ \/ q[i].mk.root = s.ckr.root /\ q[i].mk.n < s.nr + count
          \/ Len(q[i].mk.root) < Len(s.ckr.root)
       /\ q[i].mk.n = q[i].n
       /\ q[i].dh < s.dhr \/ (q[i].dh = s.dhr /\ q[i].n < s.nr + count)
  /\ \A i, j \in 1 .. Len(q) : q[i].mk = q[j].mk => i = j
  /\ \A i \in 1 .. Len(q) : Behind(s, q[i].mk) => Held(s, q[i].mk)

LEMMA SkipEntries ==
  ASSUME NEW s \in States, Sound(s), s.ckr # NoChain, NEW count \in Nat \ {0}
  PROVE  DictAfter(s, count, Newest(s.mkskipped \o Skipped(s, count), MaxSkippedTotal))
<1>1. PICK old, new, q : /\ old = s.mkskipped /\ new = Skipped(s, count)
                         /\ q = Newest(old \o new, MaxSkippedTotal)
  OBVIOUS
<1>2. s.nr \in Nat /\ s.ckr.n = s.nr /\ s.dhr \in Nat /\ s.ckr \in Chains /\ old \in Seq(Entries)
  BY <1>1 DEF States, Sound
<1>3. /\ new \in Seq(Entries) /\ Len(new) = count
      /\ \A i \in 1 .. count : /\ new[i].dh = s.dhr /\ new[i].n = s.nr + i - 1
                               /\ new[i].mk.n = s.nr + i - 1 /\ new[i].mk.root = s.ckr.root
  <2>1. count \in Nat
    OBVIOUS
  <2> QED
    BY ONLY <1>1, <1>2, <2>1, s \in States, SkippedIs, Zenon
<1>4. PICK a : a = Len(old) /\ a \in Nat
  BY <1>2
<1>5. /\ \A i \in 1 .. a : /\ old[i] \in Entries /\ Behind(s, old[i].mk) /\ old[i].mk.n = old[i].n
                           /\ old[i].dh < s.dhr \/ (old[i].dh = s.dhr /\ old[i].n < s.nr)
                           /\ Held(s, old[i].mk)
      /\ \A i, j \in 1 .. a : old[i].mk = old[j].mk => i = j
  <2>1. ASSUME NEW i \in 1 .. a
        PROVE  /\ Behind(s, old[i].mk) /\ old[i].mk.n = old[i].n
               /\ old[i].dh < s.dhr \/ (old[i].dh = s.dhr /\ old[i].n < s.nr)
               /\ Held(s, old[i].mk)
    BY ONLY <1>1, <1>4, <2>1, Sound(s), Zenon DEF Sound, Held
  <2>2. \A i, j \in 1 .. a : old[i].mk = old[j].mk => i = j
    BY ONLY <1>1, <1>4, Sound(s), Zenon DEF Sound
  <2>3. \A i \in 1 .. a : old[i] \in Entries
    BY ONLY <1>2, <1>4
  <2> QED
    BY ONLY <2>1, <2>2, <2>3, Zenon
<1>6. q \in Seq(Entries) /\ Len(q) <= MaxSkippedTotal /\ EndOf(q, old, new)
  BY ONLY <1>1, <1>2, <1>3, RatchetAssumption, NewestOfTwo, Zenon
<1>7. PICK o \in Nat : \A i \in 1 .. Len(q) :
                \/ i + o \in 1 .. a /\ q[i] = old[i + o]
                \/ (i + o) - a \in 1 .. count /\ q[i] = new[(i + o) - a]
  BY ONLY <1>3, <1>4, <1>6, Zenon DEF EndOf
<1>8. PICK c : c = Len(q) /\ c \in Nat
  BY <1>6
<1>9. ASSUME NEW i \in 1 .. c
      PROVE  /\ \/ q[i].mk.root = s.ckr.root /\ q[i].mk.n < s.nr + count
                \/ Len(q[i].mk.root) < Len(s.ckr.root)
             /\ q[i].mk.n = q[i].n
             /\ q[i].dh < s.dhr \/ (q[i].dh = s.dhr /\ q[i].n < s.nr + count)
             /\ Behind(s, q[i].mk) => Held(s, q[i].mk)
  <2>1. CASE i + o \in 1 .. a /\ q[i] = old[i + o]
    <3>1. PICK e : e = old[i + o]
      OBVIOUS
    <3>2. /\ e \in Entries /\ Behind(s, e.mk) /\ e.mk.n = e.n
          /\ e.dh < s.dhr \/ (e.dh = s.dhr /\ e.n < s.nr)
          /\ Held(s, e.mk)
      BY <1>5, <2>1, <3>1
    <3>3. e.n \in Nat
      BY <3>2 DEF Entries
    <3> QED
      BY <1>2, <2>1, <3>1, <3>2, <3>3 DEF Behind
  <2>2. CASE (i + o) - a \in 1 .. count /\ q[i] = new[(i + o) - a]
    <3>1. PICK b \in 1 .. count : b = (i + o) - a
      BY <2>2
    <3>2. PICK e : e = new[b]
      OBVIOUS
    <3>3. e.dh = s.dhr /\ e.n = s.nr + b - 1 /\ e.mk.n = s.nr + b - 1 /\ e.mk.root = s.ckr.root
      BY <1>3, <3>2
    <3>4. ~Behind(s, e.mk)
      BY <1>2, <3>3 DEF Behind, Chains
    <3> QED
      BY <1>2, <2>2, <3>1, <3>2, <3>3, <3>4
  <2> QED
    BY ONLY <1>7, <1>8, <2>1, <2>2, Zenon
<1>10. ASSUME NEW i \in 1 .. a, NEW j \in 1 .. count PROVE old[i].mk # new[j].mk
  <2>1. Behind(s, old[i].mk) /\ new[j].mk.n = s.nr + j - 1 /\ new[j].mk.root = s.ckr.root
    BY <1>3, <1>5
  <2>2. ~Behind(s, new[j].mk)
    BY <1>2, <2>1 DEF Behind, Chains
  <2> QED
    BY ONLY <2>1, <2>2, Zenon
<1>11. ASSUME NEW i \in 1 .. c, NEW j \in 1 .. c, q[i].mk = q[j].mk PROVE i = j
  <2>1. PICK k, l : k = i + o /\ l = j + o
    OBVIOUS
  <2>2. /\ (k \in 1 .. a /\ q[i] = old[k]) \/ (k - a \in 1 .. count /\ q[i] = new[k - a])
        /\ (l \in 1 .. a /\ q[j] = old[l]) \/ (l - a \in 1 .. count /\ q[j] = new[l - a])
    <3>1. i \in 1 .. Len(q) /\ j \in 1 .. Len(q)
      BY ONLY <1>8, i \in 1 .. c, j \in 1 .. c, Zenon
    <3>2. /\ (i + o \in 1 .. a /\ q[i] = old[i + o]) \/ ((i + o) - a \in 1 .. count /\ q[i] = new[(i + o) - a])
          /\ (j + o \in 1 .. a /\ q[j] = old[j + o]) \/ ((j + o) - a \in 1 .. count /\ q[j] = new[(j + o) - a])
      BY ONLY <1>7, <3>1, Zenon
    <3> QED
      BY ONLY <2>1, <3>2
  <2>3. CASE k \in 1 .. a /\ q[i] = old[k] /\ l \in 1 .. a /\ q[j] = old[l]
    <3>1. k = l
      BY ONLY <1>5, <1>11, <2>3, Zenon
    <3> QED
      BY <1>8, <2>1, <3>1
  <2>4. CASE k - a \in 1 .. count /\ q[i] = new[k - a] /\ l - a \in 1 .. count /\ q[j] = new[l - a]
    <3>1. s.nr + (k - a) - 1 = s.nr + (l - a) - 1
      <4>1. new[k - a].mk.n = s.nr + (k - a) - 1 /\ new[l - a].mk.n = s.nr + (l - a) - 1
        BY ONLY <1>3, <2>4, Zenon
      <4> QED
        BY ONLY <1>11, <2>4, <4>1, Zenon
    <3>2. i \in Nat /\ j \in Nat /\ s.nr \in Nat /\ a \in Nat /\ o \in Nat
      BY ONLY <1>2, <1>4, <1>8, i \in 1 .. c, j \in 1 .. c
    <3> QED
      BY ONLY <2>1, <3>1, <3>2
  <2>5. CASE k \in 1 .. a /\ q[i] = old[k] /\ l - a \in 1 .. count /\ q[j] = new[l - a]
    BY ONLY <1>10, <1>11, <2>5, Zenon
  <2>6. CASE k - a \in 1 .. count /\ q[i] = new[k - a] /\ l \in 1 .. a /\ q[j] = old[l]
    BY ONLY <1>10, <1>11, <2>6, Zenon
  <2> QED
    BY ONLY <2>2, <2>3, <2>4, <2>5, <2>6, Zenon
<1> QED
  <2>1. PICK r : r = Newest(s.mkskipped \o Skipped(s, count), MaxSkippedTotal)
    OBVIOUS
  <2>2. q = r
    BY ONLY <1>1, <2>1, Zenon
  <2>3. /\ \A i \in 1 .. Len(q) :
             /\ \/ q[i].mk.root = s.ckr.root /\ q[i].mk.n < s.nr + count
                \/ Len(q[i].mk.root) < Len(s.ckr.root)
             /\ q[i].mk.n = q[i].n
             /\ q[i].dh < s.dhr \/ (q[i].dh = s.dhr /\ q[i].n < s.nr + count)
             /\ Behind(s, q[i].mk) => Held(s, q[i].mk)
        /\ \A i, j \in 1 .. Len(q) : q[i].mk = q[j].mk => i = j
    BY ONLY <1>8, <1>9, <1>11, Zenon
  <2>4. DictAfter(s, count, q)
    BY ONLY <1>6, <2>3, Zenon DEF DictAfter
  <2> QED
    BY ONLY <2>1, <2>2, <2>4, Zenon

(* _skip_message_keys keeps a state sound, moves only the receiving chain  *)
(* on, and adds no key the chain had left behind.                          *)
Skips(s, until, t) ==
  /\ t \in States /\ Sound(t)
  /\ t.dhs = s.dhs /\ t.dhr = s.dhr /\ t.rk = s.rk /\ t.cks = s.cks /\ t.ns = s.ns /\ t.pn = s.pn
  /\ t.ckr.root = s.ckr.root /\ (t.ckr = NoChain <=> s.ckr = NoChain)
  /\ t.nr = IF s.ckr = NoChain \/ until <= s.nr THEN s.nr ELSE until
  /\ \A k \in Chains : Behind(s, k) => Behind(t, k) /\ (Held(t, k) => Held(s, k))

LEMMA SkipSound ==
  ASSUME NEW s \in States, Sound(s), NEW until \in Nat
  PROVE  Skips(s, until, SkipMessageKeys(s, until))
<1>0. PICK t : t = SkipMessageKeys(s, until)
  OBVIOUS
<1> SUFFICES Skips(s, until, t)
  BY <1>0
<1> USE DEF Skips
<1>1. CASE s.ckr = NoChain \/ until <= s.nr
  <2>1. t = s
    BY <1>0, <1>1 DEF SkipMessageKeys
  <2> QED
    BY <1>1, <2>1
<1>2. CASE ~(s.ckr = NoChain \/ until <= s.nr)
  <2>1. s.nr \in Nat /\ s.ckr \in Chains
    BY DEF States
  <2>2. PICK count, q : count = until - s.nr
                        /\ q = Newest(s.mkskipped \o Skipped(s, count), MaxSkippedTotal)
    OBVIOUS
  <2>3. count \in Nat \ {0} /\ until = s.nr + count /\ s.ckr # NoChain /\ s.ckr.n = s.nr
    BY <1>2, <2>1, <2>2 DEF Sound
  <2>4. t = [s EXCEPT !.mkskipped = q, !.ckr.n = @ + count, !.nr = until]
    BY <1>0, <1>2, <2>2 DEF SkipMessageKeys, Skipped
  <2>5. /\ q \in Seq(Entries) /\ Len(q) <= MaxSkippedTotal
        /\ \A i \in 1 .. Len(q) :
             /\ \/ q[i].mk.root = s.ckr.root /\ q[i].mk.n < until
                \/ Len(q[i].mk.root) < Len(s.ckr.root)
             /\ q[i].mk.n = q[i].n
             /\ q[i].dh < s.dhr \/ (q[i].dh = s.dhr /\ q[i].n < until)
        /\ \A i, j \in 1 .. Len(q) : q[i].mk = q[j].mk => i = j
        /\ \A i \in 1 .. Len(q) : Behind(s, q[i].mk) => Held(s, q[i].mk)
    <3>1. DictAfter(s, count, q)
      BY ONLY <2>2, <2>3, s \in States, Sound(s), SkipEntries, Zenon
    <3> QED
      BY ONLY <2>3, <3>1, Zenon DEF DictAfter
  <2>6. /\ t.mkskipped = q /\ t.nr = until
        /\ t.ckr.root = s.ckr.root /\ t.ckr.n = until /\ t.ckr \in Chains
        /\ t.dhs = s.dhs /\ t.dhr = s.dhr /\ t.rk = s.rk /\ t.cks = s.cks /\ t.ns = s.ns /\ t.pn = s.pn
    <3>1. /\ t.mkskipped = q /\ t.nr = until /\ t.ckr = [s.ckr EXCEPT !.n = @ + count]
          /\ t.dhs = s.dhs /\ t.dhr = s.dhr /\ t.rk = s.rk /\ t.cks = s.cks /\ t.ns = s.ns /\ t.pn = s.pn
      BY ONLY <2>4, s \in States DEF States
    <3> QED
      BY ONLY <2>1, <2>3, <3>1, until \in Nat DEF Chains
  <2>7. t \in States
    BY <2>1, <2>3, <2>4, <2>5, <2>6 DEF States
  <2>8. t.ckr # NoChain
    BY <2>3, <2>6, NoChainType
  <2>9. Sound(t)
    <3>1. \A i \in 1 .. Len(q) : Behind(t, q[i].mk)
      BY <2>5, <2>6 DEF Behind
    <3>2. /\ s.cks # NoChain => s.cks.root = s.rk /\ s.cks.n = s.ns
          /\ Len(s.ckr.root) + 1 = Len(s.rk) /\ Len(s.rk) > 0
      BY <2>3 DEF Sound
    <3> QED
      BY ONLY <2>5, <2>6, <2>8, <3>1, <3>2 DEF Sound
  <2>10. ASSUME NEW k \in Chains, Behind(s, k) PROVE Behind(t, k) /\ (Held(t, k) => Held(s, k))
    <3>1. Behind(t, k)
      BY <2>1, <2>3, <2>6, <2>10 DEF Behind, Chains
    <3>2. ASSUME Held(t, k) PROVE Held(s, k)
      <4>1. PICK i \in 1 .. Len(q) : q[i].mk = k
        BY <2>6, <3>2 DEF Held
      <4> QED
        BY ONLY <2>5, <2>10, <4>1, Zenon
    <3> QED
      BY <3>1, <3>2
  <2> QED
    BY ONLY <1>2, <2>6, <2>7, <2>3, <2>8, <2>9, <2>10 DEF Skips
<1> QED
  BY <1>1, <1>2


LEMMA SkipRoot ==
  ASSUME NEW s \in States, NEW until \in Nat
  PROVE  SkipMessageKeys(s, until).ckr.root = s.ckr.root /\ SkipMessageKeys(s, until).rk = s.rk
         /\ SkipMessageKeys(s, until).dhs = s.dhs
<1>1. s.ckr \in Chains
  BY DEF States
<1>2. CASE s.ckr = NoChain \/ until <= s.nr
  BY <1>2 DEF SkipMessageKeys
<1>3. CASE ~(s.ckr = NoChain \/ until <= s.nr)
  <2>0. PICK t, q, count :
          /\ t = SkipMessageKeys(s, until) /\ count = until - s.nr
          /\ q = Newest(s.mkskipped \o Skipped(s, count), MaxSkippedTotal)
    OBVIOUS
  <2>1. t = [s EXCEPT !.mkskipped = q, !.ckr.n = @ + count, !.nr = until]
    BY <1>3, <2>0 DEF SkipMessageKeys, Skipped
  <2>2. t.ckr = [s.ckr EXCEPT !.n = @ + count] /\ t.rk = s.rk /\ t.dhs = s.dhs
    BY ONLY <2>1, s \in States DEF States
  <2>3. t.ckr.root = s.ckr.root
    BY ONLY <1>1, <2>2 DEF Chains
  <2> QED
    BY <2>0, <2>2, <2>3
<1> QED
  BY <1>2, <1>3

(* _dh_ratchet to a younger key of the peer.                               *)
Turns(s, h, dh, t) ==
  /\ t.dhs = dh /\ t.dhr = h.dh /\ t.pn = s.ns /\ t.ns = 0 /\ t.nr = 0
  /\ t.ckr = ChainOf(KdfRk(s.rk, Dh(s.dhs, h.dh)))
  /\ t.rk = KdfRk(t.ckr.root, Dh(dh, h.dh)) /\ t.cks = ChainOf(t.rk)
  /\ t.mkskipped = s.mkskipped
  /\ t \in States

LEMMA TurnIs ==
  ASSUME NEW s \in States, NEW h \in Headers, NEW dh \in Nat
  PROVE  Turns(s, h, dh, DhRatchet(s, h, dh))
<1>1. PICK t : t = DhRatchet(s, h, dh)
  OBVIOUS
<1>2. PICK r1, r2 : r1 = KdfRk(s.rk, Dh(s.dhs, h.dh)) /\ r2 = KdfRk(r1, Dh(dh, h.dh))
  OBVIOUS
<1>3. /\ s.rk \in Seq(Secrets) /\ s.dhs \in Nat /\ h.dh \in Nat /\ s.ns \in Nat
  BY DEF States, Headers
<1>4. Dh(s.dhs, h.dh) \in Secrets /\ Dh(dh, h.dh) \in Secrets
  BY <1>3 DEF Dh, Secrets
<1>5. r1 \in Seq(Secrets) /\ r2 \in Seq(Secrets)
  BY <1>2, <1>3, <1>4 DEF KdfRk
<1>6. PICK c1, c2 : c1 = ChainOf(r1) /\ c2 = ChainOf(r2)
  OBVIOUS
<1>7. c1 \in Chains /\ c2 \in Chains /\ c1.root = r1 /\ c2.root = r2
  BY <1>5, <1>6 DEF ChainOf, Chains
<1>8. t = [s EXCEPT !.pn = s.ns, !.ns = 0, !.nr = 0, !.dhr = h.dh,
                    !.ckr = c1, !.dhs = dh, !.rk = r2, !.cks = c2]
  BY <1>1, <1>2, <1>6 DEF DhRatchet, Turn
<1>9. /\ t.dhs = dh /\ t.dhr = h.dh /\ t.pn = s.ns /\ t.ns = 0 /\ t.nr = 0
      /\ t.ckr = c1 /\ t.rk = r2 /\ t.cks = c2 /\ t.mkskipped = s.mkskipped
  BY ONLY <1>8, s \in States DEF States
<1>10. t \in States
  BY ONLY <1>3, <1>5, <1>7, <1>8, <1>9, s \in States, dh \in Nat DEF States
<1>11. Turns(s, h, dh, t)
  BY ONLY <1>2, <1>6, <1>7, <1>9, <1>10, Zenon DEF Turns
<1> QED
  BY ONLY <1>1, <1>11, Zenon

LEMMA AppendRoot ==
  ASSUME NEW r \in Seq(Secrets), NEW x \in Secrets
  PROVE  KdfRk(r, x) \in Seq(Secrets) /\ Len(KdfRk(r, x)) = Len(r) + 1 /\ Len(r) \in Nat
BY DEF KdfRk

LEMMA DhType == \A a, b \in Nat : Dh(a, b) \in Secrets
BY DEF Dh, Secrets

LEMMA ChainOfIs ==
  ASSUME NEW r \in Seq(Secrets)
  PROVE  ChainOf(r) \in Chains /\ ChainOf(r).root = r /\ ChainOf(r).n = 0 /\ ChainOf(r) # NoChain
BY DEF ChainOf, Chains, NoChain

LEMMA TurnSound ==
  ASSUME NEW s \in States, Sound(s), NEW h \in Headers, NEW dh \in Nat, h.dh > s.dhr,
         NEW t, Turns(s, h, dh, t)
  PROVE  /\ Sound(t) /\ t.ckr # NoChain /\ t.cks # NoChain
         /\ Len(t.ckr.root) = Len(s.rk) + 1 /\ Len(t.rk) = Len(s.rk) + 2
         /\ \A k \in Chains : Len(k.root) <= Len(s.ckr.root) => Behind(t, k)
<1>1. /\ s.rk \in Seq(Secrets) /\ s.dhs \in Nat /\ h.dh \in Nat /\ s.dhr \in Nat
      /\ s.mkskipped \in Seq(Entries) /\ s.ckr \in Chains
  BY DEF States, Headers
<1>2. PICK r : r = KdfRk(s.rk, Dh(s.dhs, h.dh))
  OBVIOUS
<1>3. r \in Seq(Secrets) /\ Len(r) = Len(s.rk) + 1 /\ Len(s.rk) \in Nat
  BY <1>1, <1>2, AppendRoot, DhType
<1>4. t.ckr = ChainOf(r) /\ t.rk = KdfRk(t.ckr.root, Dh(dh, h.dh)) /\ t.cks = ChainOf(t.rk)
  BY <1>2 DEF Turns
<1>5. t.ckr \in Chains /\ t.ckr.root = r /\ t.ckr.n = 0 /\ t.ckr # NoChain
  BY <1>3, <1>4, ChainOfIs
<1>6. t.rk \in Seq(Secrets) /\ Len(t.rk) = Len(r) + 1
  <2>1. t.rk = KdfRk(r, Dh(dh, h.dh))
    BY ONLY <1>4, <1>5, Zenon
  <2>2. Dh(dh, h.dh) \in Secrets
    BY <1>1, DhType
  <2> QED
    BY ONLY <1>3, <2>1, <2>2, AppendRoot
<1>7. t.cks.root = t.rk /\ t.cks.n = 0 /\ t.cks # NoChain
  BY <1>4, <1>6, ChainOfIs
<1>8. Len(s.ckr.root) < Len(r) /\ Len(s.ckr.root) \in Nat
  <2>1. Len(s.ckr.root) \in Nat
    BY <1>1 DEF Chains
  <2>2. CASE s.ckr = NoChain
    BY <1>3, <2>2, NoChainType
  <2>3. CASE s.ckr # NoChain
    BY <1>3, <2>1, <2>3 DEF Sound
  <2> QED
    BY <2>1, <2>2, <2>3
<1>9. ASSUME NEW k \in Chains, Len(k.root) <= Len(s.ckr.root) PROVE Behind(t, k)
  <2>1. Len(k.root) \in Nat
    BY DEF Chains
  <2> QED
    BY <1>5, <1>8, <1>9, <2>1 DEF Behind
<1>10. t.nr = 0 /\ t.ns = 0 /\ t.dhr = h.dh /\ t.mkskipped = s.mkskipped
  BY DEF Turns
<1>11. ASSUME NEW i \in 1 .. Len(s.mkskipped)
       PROVE  /\ Behind(t, s.mkskipped[i].mk) /\ s.mkskipped[i].mk.n = s.mkskipped[i].n
              /\ s.mkskipped[i].dh < h.dh
  <2>1. PICK e : e = s.mkskipped[i]
    OBVIOUS
  <2>2. e \in Entries /\ Behind(s, e.mk) /\ e.mk.n = e.n
        /\ (e.dh < s.dhr \/ (e.dh = s.dhr /\ e.n < s.nr))
    BY <1>1, <2>1 DEF Sound
  <2>3. e.mk \in Chains /\ e.dh \in Nat
    BY <2>2 DEF Entries
  <2>4. Len(e.mk.root) <= Len(s.ckr.root)
    BY <1>8, <2>2, <2>3 DEF Behind, Chains
  <2>5. Behind(t, e.mk)
    BY <1>9, <2>3, <2>4
  <2> QED
    BY <1>1, <2>1, <2>2, <2>3, <2>5
<1>12. /\ Len(s.mkskipped) <= MaxSkippedTotal
       /\ \A i, j \in 1 .. Len(s.mkskipped) : s.mkskipped[i].mk = s.mkskipped[j].mk => i = j
  BY DEF Sound
<1>13. Len(t.ckr.root) + 1 = Len(t.rk) /\ Len(t.rk) > 0 /\ Len(t.rk) = Len(s.rk) + 2
  BY <1>3, <1>5, <1>6
<1>14. Sound(t)
  BY ONLY <1>5, <1>7, <1>10, <1>11, <1>12, <1>13 DEF Sound
<1> QED
  BY <1>3, <1>5, <1>7, <1>9, <1>13, <1>14

(* The derived message key is used up: one step of the receiving chain.    *)
Advance(s) == [s EXCEPT !.ckr = KdfCk(@), !.nr = @ + 1]

Advances(s, t) ==
  /\ t \in States /\ Sound(t)
  /\ t.dhs = s.dhs /\ t.dhr = s.dhr /\ t.rk = s.rk /\ t.cks = s.cks /\ t.ns = s.ns /\ t.pn = s.pn
  /\ t.mkskipped = s.mkskipped
  /\ t.ckr.root = s.ckr.root /\ t.ckr # NoChain /\ t.nr = s.nr + 1
  /\ Behind(t, s.ckr) /\ ~Behind(s, s.ckr) /\ ~Held(t, s.ckr)
  /\ \A k \in Chains : Behind(s, k) => Behind(t, k)
  /\ \A k \in Chains : Held(t, k) <=> Held(s, k)

LEMMA AdvanceSound ==
  ASSUME NEW s \in States, Sound(s), s.ckr # NoChain
  PROVE  Advances(s, Advance(s))
<1>1. PICK t : t = Advance(s)
  OBVIOUS
<1>2. s.ckr \in Chains /\ s.nr \in Nat /\ s.ckr.n = s.nr /\ Len(s.ckr.root) + 1 = Len(s.rk)
  BY DEF States, Sound
<1>3. /\ t.dhs = s.dhs /\ t.dhr = s.dhr /\ t.rk = s.rk /\ t.cks = s.cks /\ t.ns = s.ns /\ t.pn = s.pn
      /\ t.mkskipped = s.mkskipped /\ t.nr = s.nr + 1 /\ t.ckr = [s.ckr EXCEPT !.n = @ + 1]
  BY <1>1 DEF Advance, KdfCk, States
<1>4. t.ckr \in Chains /\ t.ckr.root = s.ckr.root /\ t.ckr.n = s.nr + 1
  BY <1>2, <1>3 DEF Chains
<1>5. t.ckr # NoChain
  BY <1>2, <1>4, NoChainType
<1>6. t \in States
  <2>1. PICK c, n : c = KdfCk(s.ckr) /\ n = s.nr + 1
    OBVIOUS
  <2>2. t = [s EXCEPT !.ckr = c, !.nr = n]
    BY <1>1, <2>1 DEF Advance
  <2>3. c \in Chains /\ n \in Nat
    BY <1>2, <2>1 DEF KdfCk, Chains
  <2> QED
    BY ONLY <2>2, <2>3, s \in States DEF States
<1>7. ASSUME NEW k, k.n \in Int, Behind(s, k) PROVE Behind(t, k)
  BY <1>2, <1>4, <1>7 DEF Behind
<1>8. ASSUME NEW i \in 1 .. Len(s.mkskipped)
      PROVE  /\ Behind(t, s.mkskipped[i].mk) /\ Behind(s, s.mkskipped[i].mk)
             /\ s.mkskipped[i].mk.n = s.mkskipped[i].n
             /\ s.mkskipped[i].dh < s.dhr \/ (s.mkskipped[i].dh = s.dhr /\ s.mkskipped[i].n < s.nr + 1)
  <2>1. PICK e : e = s.mkskipped[i]
    OBVIOUS
  <2>2. e \in Entries
    BY <2>1 DEF States
  <2>3. Behind(s, e.mk) /\ e.mk.n = e.n /\ (e.dh < s.dhr \/ (e.dh = s.dhr /\ e.n < s.nr))
    BY <2>1 DEF Sound
  <2>4. e.n \in Nat /\ e.mk.n \in Int
    BY <2>2 DEF Entries, Chains
  <2>5. Behind(t, e.mk)
    BY <1>7, <2>3, <2>4
  <2> QED
    BY <1>2, <2>1, <2>3, <2>4, <2>5
<1>9. Sound(t)
  <2>1. /\ Len(s.mkskipped) <= MaxSkippedTotal /\ Len(s.rk) > 0
        /\ s.cks # NoChain => s.cks.root = s.rk /\ s.cks.n = s.ns
        /\ \A i, j \in 1 .. Len(s.mkskipped) : s.mkskipped[i].mk = s.mkskipped[j].mk => i = j
    BY DEF Sound
  <2> QED
    BY ONLY <1>2, <1>3, <1>4, <1>5, <1>8, <2>1 DEF Sound
<1>10. Behind(t, s.ckr) /\ ~Behind(s, s.ckr)
  BY <1>2, <1>4 DEF Behind, Chains
<1>11. \A k : Held(t, k) <=> Held(s, k)
  BY ONLY <1>3, Zenon DEF Held
<1>12. ~Held(t, s.ckr)
  BY ONLY <1>3, <1>8, <1>10, Zenon DEF Held
<1>13. \A k \in Chains : Behind(s, k) => Behind(t, k)
  BY <1>7 DEF Chains
<1>14. Advances(s, t)
  BY ONLY <1>3, <1>4, <1>5, <1>6, <1>9, <1>10, <1>11, <1>12, <1>13, Zenon DEF Advances
<1> QED
  BY ONLY <1>1, <1>14, Zenon

(* A skipped key is taken out of the dict.                                 *)
Pops(s, i, t) ==
  /\ t \in States /\ Sound(t)
  /\ t.dhs = s.dhs /\ t.dhr = s.dhr /\ t.rk = s.rk /\ t.cks = s.cks /\ t.ns = s.ns /\ t.pn = s.pn
  /\ t.ckr = s.ckr /\ t.nr = s.nr
  /\ ~Held(t, s.mkskipped[i].mk)
  /\ \A k \in Chains : Held(t, k) => Held(s, k)

LEMMA PopSound ==
  ASSUME NEW s \in States, Sound(s), NEW i \in 1 .. Len(s.mkskipped)
  PROVE  Pops(s, i, [s EXCEPT !.mkskipped = PopSkipped(@, i)])
<1>1. PICK t, q, d : /\ t = [s EXCEPT !.mkskipped = PopSkipped(@, i)]
                     /\ q = s.mkskipped /\ d = DropAt(s.mkskipped, i)
  OBVIOUS
<1>2. q \in Seq(Entries) /\ i \in 1 .. Len(q) /\ d = DropAt(q, i)
  BY <1>1 DEF States
<1>3. PICK n : n = Len(q) /\ n \in Nat /\ i \in 1 .. n
  BY <1>2
<1>4. /\ d \in Seq(Entries) /\ Len(d) = n - 1
      /\ \A j \in 1 .. n - 1 : d[j] = IF j < i THEN q[j] ELSE q[j + 1]
  <2>1. /\ DropAt(q, i) \in Seq(Entries) /\ Len(DropAt(q, i)) = Len(q) - 1
        /\ \A j \in 1 .. Len(q) - 1 : DropAt(q, i)[j] = IF j < i THEN q[j] ELSE q[j + 1]
    BY ONLY <1>2, DropIs, Zenon
  <2> QED
    BY ONLY <1>2, <1>3, <2>1, Zenon
<1>5. /\ t.mkskipped = d /\ t.ckr = s.ckr /\ t.nr = s.nr
      /\ t.dhs = s.dhs /\ t.dhr = s.dhr /\ t.rk = s.rk /\ t.cks = s.cks /\ t.ns = s.ns /\ t.pn = s.pn
  BY <1>1 DEF States, PopSkipped
<1>6. t \in States
  BY <1>1, <1>4 DEF States, PopSkipped
<1>7. ASSUME NEW j \in 1 .. n - 1
      PROVE  \E l \in 1 .. n : l # i /\ d[j] = q[l] /\ l = (IF j < i THEN j ELSE j + 1)
  BY <1>3, <1>4
<1>8. /\ n <= MaxSkippedTotal
      /\ \A l \in 1 .. n : /\ Behind(s, q[l].mk) /\ q[l].mk.n = q[l].n
                           /\ q[l].dh < s.dhr \/ (q[l].dh = s.dhr /\ q[l].n < s.nr)
      /\ \A k, l \in 1 .. n : q[k].mk = q[l].mk => k = l
      /\ s.ckr # NoChain
  <2>1. q # <<>>
    BY <1>2, <1>3
  <2> QED
    BY <1>1, <1>3, <2>1 DEF Sound
<1>9. \A k : Behind(s, k) => Behind(t, k)
  BY ONLY <1>5, Zenon DEF Behind
<1>10. ASSUME NEW j \in 1 .. n - 1
       PROVE  /\ Behind(t, d[j].mk) /\ d[j].mk.n = d[j].n
              /\ d[j].dh < s.dhr \/ (d[j].dh = s.dhr /\ d[j].n < s.nr)
              /\ d[j].mk # q[i].mk /\ Held(s, d[j].mk)
  <2>1. PICK l \in 1 .. n : l # i /\ d[j] = q[l]
    BY <1>7
  <2>2. Held(s, q[l].mk)
    BY ONLY <1>1, <1>3, <2>1, Zenon DEF Held
  <2> QED
    BY ONLY <1>3, <1>8, <1>9, <2>1, <2>2, Zenon
<1>11. ASSUME NEW j \in 1 .. n - 1, NEW k \in 1 .. n - 1, d[j].mk = d[k].mk PROVE j = k
  <2>1. PICK a \in 1 .. n : a # i /\ d[j] = q[a] /\ a = (IF j < i THEN j ELSE j + 1)
    BY <1>7
  <2>2. PICK b \in 1 .. n : b # i /\ d[k] = q[b] /\ b = (IF k < i THEN k ELSE k + 1)
    BY <1>7
  <2>3. a = b
    BY ONLY <1>8, <1>11, <2>1, <2>2, a \in 1 .. n, b \in 1 .. n, Zenon
  <2> QED
    BY <1>3, <2>1, <2>2, <2>3
<1>12. Sound(t)
  <2>1. /\ s.cks # NoChain => s.cks.root = s.rk /\ s.cks.n = s.ns
        /\ Len(s.ckr.root) + 1 = Len(s.rk) /\ s.ckr.n = s.nr /\ Len(s.rk) > 0
    BY <1>8 DEF Sound
  <2>2. n - 1 <= MaxSkippedTotal
    BY <1>3, <1>8, RatchetAssumption
  <2> QED
    BY ONLY <1>4, <1>5, <1>8, <1>10, <1>11, <2>1, <2>2, Zenon DEF Sound
<1>13. ~Held(t, s.mkskipped[i].mk) /\ \A k : Held(t, k) => Held(s, k)
  <2>1. ASSUME NEW k, Held(t, k) PROVE k # q[i].mk /\ Held(s, k)
    <3>1. PICK j \in 1 .. n - 1 : d[j].mk = k
      BY ONLY <1>4, <1>5, <2>1 DEF Held
    <3> QED
      BY ONLY <1>10, <3>1, Zenon
  <2> QED
    BY ONLY <1>1, <2>1, Zenon
<1>14. Pops(s, i, t)
  BY ONLY <1>5, <1>6, <1>12, <1>13, Zenon DEF Pops
<1> QED
  BY ONLY <1>1, <1>14, Zenon

-----------------------------------------------------------------------------
(* How ratchet_decrypt succeeds: with a skipped key, on the chain it has,  *)
(* or on the chain it turns to.                                            *)
ByPop(s, mk, t) ==
  \E i \in 1 .. Len(s.mkskipped) :
    s.mkskipped[i].mk = mk /\ t = [s EXCEPT !.mkskipped = PopSkipped(@, i)]

OnChain(s, n, mk, t) ==
  SkipMessageKeys(s, n).ckr = mk /\ t = Advance(SkipMessageKeys(s, n))

ByTurn(s, h, mk, dh, t) ==
  OnChain(DhRatchet(SkipMessageKeys(s, h.pn), h, dh), h.n, mk, t)

LEMMA DecryptCases ==
  ASSUME NEW s, NEW h, NEW mk, NEW dh, RatchetDecrypt(s, h, mk, dh).ok, h.dh # NoDh
  PROVE  LET t == RatchetDecrypt(s, h, mk, dh).state IN
         \/ ByPop(s, mk, t)
         \/ h.dh = s.dhr /\ OnChain(s, h.n, mk, t)
         \/ h.dh # s.dhr /\ ByTurn(s, h, mk, dh, t)
<1> DEFINE newChain == s.dhr = NoDh \/ h.dh # s.dhr
           turned == IF newChain THEN DhRatchet(SkipMessageKeys(s, h.pn), h, dh) ELSE s
           skipped == SkipMessageKeys(turned, h.n)
           fail == [ok |-> FALSE, state |-> s]
           far == (newChain /\ TooFar(s, h.pn)) \/ TooFar(turned, h.n) \/ skipped.ckr # mk
           r == RatchetDecrypt(s, h, mk, dh)
           pick == CHOOSE j \in SkippedAt(s, h) : TRUE
<1>1. fail.ok = FALSE
  OBVIOUS
<1>2. r = IF SkippedAt(s, h) # {}
          THEN IF s.mkskipped[pick].mk = mk
               THEN [ok |-> TRUE, state |-> [s EXCEPT !.mkskipped = PopSkipped(@, pick)]]
               ELSE fail
          ELSE IF far THEN fail
               ELSE [ok |-> TRUE, state |-> Advance(skipped)]
  BY DEF RatchetDecrypt, Advance
<1> HIDE DEF fail, far, r, pick, skipped
<1>3. CASE SkippedAt(s, h) # {}
  <2>1. pick \in 1 .. Len(s.mkskipped)
    BY <1>3 DEF pick, SkippedAt
  <2>2. s.mkskipped[pick].mk = mk /\ r = [ok |-> TRUE, state |-> [s EXCEPT !.mkskipped = PopSkipped(@, pick)]]
    BY <1>1, <1>2, <1>3 DEF r
  <2>3. r.state = [s EXCEPT !.mkskipped = PopSkipped(@, pick)]
    BY <2>2
  <2>4. ByPop(s, mk, r.state)
    BY <2>1, <2>2, <2>3 DEF ByPop
  <2> QED
    BY <2>4 DEF r
<1>4. CASE SkippedAt(s, h) = {}
  <2>1. ~far /\ r = [ok |-> TRUE, state |-> Advance(skipped)]
    BY <1>1, <1>2, <1>4 DEF r
  <2>2. r.state = Advance(skipped) /\ skipped.ckr = mk
    BY <2>1 DEF far
  <2>3. OnChain(turned, h.n, mk, r.state)
    BY <2>2 DEF OnChain, skipped
  <2>4. CASE h.dh = s.dhr
    <3>1. turned = s
      BY <2>4
    <3> QED
      BY <2>3, <2>4, <3>1 DEF r
  <2>5. CASE h.dh # s.dhr
    <3>1. ByTurn(s, h, mk, dh, r.state)
      BY <2>3, <2>5 DEF ByTurn
    <3> QED
      BY <2>5, <3>1 DEF r
  <2> QED
    BY <2>4, <2>5
<1> QED
  BY <1>3, <1>4

(***************************************************************************)
(* What a successful decryption does to a sound state.                     *)
(***************************************************************************)
Unused(s, mk) == ~(Behind(s, mk) /\ ~Held(s, mk))

UsesUp(s, mk, t) ==
  /\ t \in States /\ Sound(t)
  /\ Unused(s, mk)
  /\ Behind(t, mk) /\ ~Held(t, mk)
  /\ \A k \in Chains : Behind(s, k) /\ ~Held(s, k) => Behind(t, k) /\ ~Held(t, k)

SameChain(s, mk, t) ==
  /\ t.dhs = s.dhs /\ t.dhr = s.dhr /\ t.rk = s.rk /\ t.cks = s.cks /\ t.ns = s.ns /\ t.pn = s.pn
  /\ t.ckr.root = s.ckr.root /\ t.ckr # NoChain /\ s.ckr # NoChain
  /\ t.nr = s.nr \/ t.nr = mk.n + 1

NewChain(s, h, mk, dh, t) ==
  /\ h.dh > s.dhr
  /\ t.dhs = dh /\ t.dhr = h.dh /\ t.pn = s.ns /\ t.ns = 0 /\ t.nr = mk.n + 1
  /\ mk.root = KdfRk(s.rk, Dh(s.dhs, h.dh))
  /\ t.ckr # NoChain /\ t.ckr.root = mk.root
  /\ t.rk = KdfRk(mk.root, Dh(dh, h.dh)) /\ t.cks = ChainOf(t.rk)

LEMMA OnChainSound ==
  ASSUME NEW s \in States, Sound(s), s.ckr # NoChain, NEW n \in Nat, NEW mk \in Chains, NEW t,
         OnChain(s, n, mk, t)
  PROVE  UsesUp(s, mk, t) /\ SameChain(s, mk, t) /\ t.nr = mk.n + 1
<1>1. PICK u : u = SkipMessageKeys(s, n)
  OBVIOUS
<1>2. Skips(s, n, u)
  BY <1>1, SkipSound
<1>3. u.ckr = mk /\ t = Advance(u)
  BY <1>1 DEF OnChain
<1>4. u \in States /\ Sound(u) /\ u.ckr # NoChain
  BY <1>2 DEF Skips
<1>5. Advances(u, t)
  BY <1>3, <1>4, AdvanceSound
<1>6. u.ckr.n = u.nr /\ u.nr \in Nat
  BY <1>4 DEF Sound, States
<1>7. t.nr = mk.n + 1
  BY <1>3, <1>5, <1>6 DEF Advances
<1>8. SameChain(s, mk, t)
  BY <1>2, <1>5, <1>7 DEF SameChain, Skips, Advances
<1>9. ~Behind(u, mk) /\ Behind(t, mk) /\ ~Held(t, mk)
  BY <1>3, <1>5 DEF Advances
<1>10. Unused(s, mk)
  BY <1>2, <1>9 DEF Skips, Unused
<1>11. \A k \in Chains : Behind(s, k) /\ ~Held(s, k) => Behind(t, k) /\ ~Held(t, k)
  BY <1>2, <1>5 DEF Skips, Advances
<1>12. t \in States /\ Sound(t)
  BY <1>5 DEF Advances
<1> QED
  BY <1>7, <1>8, <1>9, <1>10, <1>11, <1>12 DEF UsesUp

LEMMA DecryptSound ==
  ASSUME NEW s \in States, Sound(s), NEW h \in Headers, NEW mk \in Chains, NEW dh \in Nat,
         h.dh # NoDh, h.dh = s.dhr => s.ckr # NoChain,
         h.dh < s.dhr => Len(mk.root) <= Len(s.rk),
         RatchetDecrypt(s, h, mk, dh).ok,
         NEW t, t = RatchetDecrypt(s, h, mk, dh).state
  PROVE  UsesUp(s, mk, t) /\ (SameChain(s, mk, t) \/ NewChain(s, h, mk, dh, t))
<1>1. \/ ByPop(s, mk, t)
      \/ h.dh = s.dhr /\ OnChain(s, h.n, mk, t)
      \/ h.dh # s.dhr /\ ByTurn(s, h, mk, dh, t)
  BY DecryptCases
<1>2. CASE ByPop(s, mk, t)
  <2>1. PICK i \in 1 .. Len(s.mkskipped) :
          s.mkskipped[i].mk = mk /\ t = [s EXCEPT !.mkskipped = PopSkipped(@, i)]
    BY <1>2 DEF ByPop
  <2>2. Pops(s, i, t)
    BY <2>1, PopSound
  <2>3. Behind(s, mk) /\ Held(s, mk)
    BY <2>1 DEF Sound, Held
  <2>4. s.ckr # NoChain
    <3>1. s.mkskipped # <<>>
      BY <2>1 DEF States
    <3> QED
      BY <3>1 DEF Sound
  <2>5. \A k : Behind(s, k) => Behind(t, k)
    BY ONLY <2>2, Zenon DEF Pops, Behind
  <2>6. UsesUp(s, mk, t)
    BY <2>1, <2>2, <2>3, <2>5 DEF UsesUp, Unused, Pops
  <2>7. SameChain(s, mk, t)
    BY <2>2, <2>4 DEF SameChain, Pops
  <2> QED
    BY <2>6, <2>7
<1>3. CASE h.dh = s.dhr /\ OnChain(s, h.n, mk, t)
  <2>1. h.n \in Nat /\ s.ckr # NoChain
    BY <1>3 DEF Headers
  <2> QED
    BY <1>3, <2>1, OnChainSound
<1>4. CASE h.dh # s.dhr /\ ByTurn(s, h, mk, dh, t)
  <2>1. PICK v, w : v = SkipMessageKeys(s, h.pn) /\ w = DhRatchet(v, h, dh)
    OBVIOUS
  <2>2. h.pn \in Nat /\ h.n \in Nat /\ h.dh \in Nat /\ s.dhr \in Nat
    BY DEF Headers, States
  <2>3. Skips(s, h.pn, v)
    BY <2>1, <2>2, SkipSound
  <2>4. v \in States /\ Sound(v) /\ v.rk = s.rk /\ v.dhs = s.dhs /\ v.dhr = s.dhr /\ v.ns = s.ns
        /\ v.ckr.root = s.ckr.root
    BY <2>3 DEF Skips
  <2>5. Turns(v, h, dh, w)
    BY <2>1, <2>4, TurnIs
  <2>6. w \in States /\ OnChain(w, h.n, mk, t)
    BY <1>4, <2>1, <2>5 DEF Turns, ByTurn
  <2>7. PICK r : r = KdfRk(s.rk, Dh(s.dhs, h.dh))
    OBVIOUS
  <2>8. s.rk \in Seq(Secrets) /\ s.dhs \in Nat
    BY DEF States
  <2>9. r \in Seq(Secrets) /\ Len(r) = Len(s.rk) + 1 /\ Len(s.rk) \in Nat
    BY <2>2, <2>7, <2>8, AppendRoot, DhType
  <2>10. w.ckr = ChainOf(r)
    BY <2>4, <2>5, <2>7 DEF Turns
  <2>11. w.ckr.root = r /\ w.ckr # NoChain
    BY <2>9, <2>10, ChainOfIs
  <2>12. mk.root = r
    <3>1. SkipMessageKeys(w, h.n).ckr.root = w.ckr.root
      BY <2>2, <2>6, SkipRoot
    <3>2. SkipMessageKeys(w, h.n).ckr = mk
      BY <2>6 DEF OnChain
    <3> QED
      BY ONLY <2>11, <3>1, <3>2, Zenon
  <2>13. h.dh > s.dhr
    BY <1>4, <2>2, <2>9, <2>12
  <2>14. /\ Sound(w) /\ w.ckr # NoChain
         /\ \A k \in Chains : Len(k.root) <= Len(v.ckr.root) => Behind(w, k)
    BY <2>4, <2>5, <2>13, TurnSound
  <2>15. UsesUp(w, mk, t) /\ SameChain(w, mk, t) /\ t.nr = mk.n + 1
    BY <2>2, <2>6, <2>14, OnChainSound
  <2>16. NewChain(s, h, mk, dh, t)
    BY <2>4, <2>5, <2>7, <2>11, <2>12, <2>13, <2>15 DEF NewChain, SameChain, Turns
  <2>17. ASSUME NEW k \in Chains, Behind(s, k) PROVE Behind(w, k) /\ (~Held(s, k) => ~Held(w, k))
    <3>1. Len(k.root) <= Len(s.ckr.root)
      <4>1. k.root \in Seq(Secrets) /\ s.ckr \in Chains
        BY ONLY <2>17, s \in States DEF Chains, States
      <4>2. s.ckr.root \in Seq(Secrets)
        BY ONLY <4>1 DEF Chains
      <4>3. Len(k.root) \in Nat /\ Len(s.ckr.root) \in Nat
        BY ONLY <4>1, <4>2
      <4>4. k.root = s.ckr.root \/ Len(k.root) < Len(s.ckr.root)
        BY ONLY <2>17, Zenon DEF Behind
      <4> QED
        BY ONLY <4>3, <4>4
    <3>2. Behind(w, k)
      BY <2>4, <2>14, <3>1
    <3>3. ~Held(s, k) => ~Held(v, k)
      BY <2>3, <2>17 DEF Skips
    <3>4. w.mkskipped = v.mkskipped
      BY <2>5 DEF Turns
    <3> QED
      BY ONLY <3>2, <3>3, <3>4, Zenon DEF Held
  <2>18. UsesUp(s, mk, t)
    <3>1. Unused(w, mk)
      BY <2>15 DEF UsesUp
    <3>2. Unused(s, mk)
      BY <2>17, <3>1 DEF Unused
    <3> QED
      BY <2>15, <2>17, <3>2 DEF UsesUp
  <2> QED
    BY <2>16, <2>18
<1> QED
  BY <1>1, <1>2, <1>3, <1>4

-----------------------------------------------------------------------------
(***************************************************************************)
(* The system.                                                             *)
(***************************************************************************)
LEMMA PeerIs ==
  /\ \A p \in Parties : Peer(p) \in Parties /\ Peer(p) # p /\ Peer(Peer(p)) = p
  /\ \A p, q \in Parties : q = p \/ q = Peer(p)
BY DEF Parties, Peer

LEMMA InitStates ==
  ASSUME PairInit
  PROVE  /\ st \in [Parties -> States]
         /\ \A p \in Parties : Sound(st[p]) /\ st[p].ns = 0 /\ st[p].nr = 0 /\ st[p].pn = 0 /\ Own(p, st[p].rk)
         /\ Ahead("A")
         /\ st["A"].dhs = 2 /\ st["A"].dhr = 1 /\ st["B"].dhs = 1 /\ st["B"].dhr = 0
<1>1. PICK a, b : a = RatchetInitAlice(SharedSecret, SpkB, 2) /\ b = RatchetInitBob(SharedSecret, SpkB)
  OBVIOUS
<1>2. /\ SharedSecret \in Seq(Secrets) /\ Len(SharedSecret) = 1 /\ <<>> \in Seq(Entries)
      /\ Len(<<>>) = 0
  BY DEF SharedSecret, Secrets
<1>3. Dh(2, SpkB) \in Secrets
  BY DhType DEF SpkB
<1>4. PICK r : r = KdfRk(SharedSecret, Dh(2, SpkB))
  OBVIOUS
<1>5. r \in Seq(Secrets) /\ Len(r) = 2
  <2>1. r \in Seq(Secrets) /\ Len(r) = Len(SharedSecret) + 1
    BY ONLY <1>2, <1>3, <1>4, AppendRoot, Zenon
  <2> QED
    BY ONLY <1>2, <2>1
<1>6. PICK c : c = ChainOf(r)
  OBVIOUS
<1>7. c \in Chains /\ c.root = r /\ c.n = 0
  BY <1>5, <1>6, ChainOfIs
<1>8. /\ a = [dhs |-> 2, dhr |-> SpkB, rk |-> r, cks |-> c, ckr |-> NoChain,
              ns |-> 0, nr |-> 0, pn |-> 0, mkskipped |-> <<>>]
      /\ b = [dhs |-> SpkB, dhr |-> NoDh, rk |-> SharedSecret, cks |-> NoChain, ckr |-> NoChain,
              ns |-> 0, nr |-> 0, pn |-> 0, mkskipped |-> <<>>]
  BY <1>1, <1>4, <1>6 DEF RatchetInitAlice, RatchetInitBob
<1>9. a \in States /\ b \in States
  BY <1>2, <1>5, <1>7, <1>8, NoChainType DEF States, SpkB, NoDh
<1>10. Sound(a) /\ Sound(b)
  <2>1. \A i : i \notin 1 .. 0
    OBVIOUS
  <2>2. /\ a.cks = c /\ a.rk = r /\ a.ns = 0 /\ a.ckr = NoChain /\ a.mkskipped = <<>>
        /\ b.cks = NoChain /\ b.rk = SharedSecret /\ b.ckr = NoChain /\ b.mkskipped = <<>>
    BY ONLY <1>8
  <2>3. Len(a.rk) > 0 /\ Len(b.rk) > 0 /\ Len(<<>>) <= MaxSkippedTotal
    <3>1. Len(a.rk) = 2 /\ Len(b.rk) = 1
      BY ONLY <1>2, <1>5, <2>2, Zenon
    <3>2. 2 > 0 /\ 1 > 0 /\ 0 <= MaxSkippedTotal
      BY RatchetAssumption
    <3> QED
      BY ONLY <1>2, <3>1, <3>2, Zenon
  <2> QED
    BY ONLY <1>2, <1>7, <2>1, <2>2, <2>3, Zenon DEF Sound
<1>11. st = [p \in Parties |-> IF p = "A" THEN a ELSE b]
  BY <1>1 DEF PairInit
<1>12. st["A"] = a /\ st["B"] = b /\ Parties = {"A", "B"} /\ Peer("A") = "B"
  BY <1>11 DEF Parties, Peer
<1>13. Own("A", a.rk) /\ Own("B", b.rk)
  <2>1. Len(a.rk) = 2 * 0 + 2 /\ Len(b.rk) = 2 * 0 + 1
    BY <1>2, <1>5, <1>8
  <2> QED
    BY <2>1 DEF Own
<1>14. Ahead("A")
  BY <1>4, <1>8, <1>12, NoChainType DEF Ahead, KdfRk, SpkB, NoDh
<1> QED
  BY <1>8, <1>9, <1>10, <1>11, <1>12, <1>13, <1>14 DEF SpkB, NoDh

LEMMA InitPairInv == PairInit => PairInv
<1> SUFFICES ASSUME PairInit PROVE PairInv
  OBVIOUS
<1>1. /\ st \in [Parties -> States]
      /\ \A p \in Parties : Sound(st[p]) /\ st[p].ns = 0 /\ st[p].nr = 0 /\ st[p].pn = 0 /\ Own(p, st[p].rk)
      /\ Ahead("A")
      /\ st["A"].dhs = 2 /\ st["A"].dhr = 1 /\ st["B"].dhs = 1 /\ st["B"].dhr = 0
  BY InitStates
<1>2. net = {} /\ spare = 3 /\ got = [p \in Parties |-> [i \in 1 .. MaxMsgs |-> 0]]
  BY DEF PairInit
<1>3. Types
  BY <1>1, <1>2, FS_EmptySet DEF Types
<1>4. \A p \in Parties : SentBy(p) = {} /\ ToParty(p) = {}
  BY <1>2 DEF SentBy, ToParty
<1>5. \A p \in Parties : Sends(p)
  <2> SUFFICES ASSUME NEW p \in Parties PROVE Sends(p)
    OBVIOUS
  <2>1. SentBy(p) = {} /\ Cardinality(SentBy(p)) = 0
    BY <1>4, FS_EmptySet
  <2>2. st[p].ns = 0 /\ st[p].pn = 0 /\ Own(p, st[p].rk)
    BY <1>1
  <2>3. st[p].ns <= Cardinality(SentBy(p)) /\ st[p].pn <= Cardinality(SentBy(p))
    BY <2>1, <2>2
  <2> QED
    BY ONLY <2>1, <2>2, <2>3, Zenon DEF Sends
<1>6. \A p \in Parties : Spent(p) /\ Heard(p)
  BY <1>2, <1>4 DEF Spent, Heard, Hears
<1>7. Lockstep
  BY <1>1, <1>2 DEF Lockstep, Parties
<1>8. Decrypted = {}
  BY <1>2 DEF Decrypted
<1>9. \A p \in Parties : Counted(p)
  <2> SUFFICES ASSUME NEW p \in Parties PROVE Counted(p)
    OBVIOUS
  <2>1. Cardinality(SentBy(p)) = 0 /\ Cardinality(ToParty(p)) = 0
    BY ONLY <1>4, p \in Parties, FS_EmptySet, Zenon
  <2>2. st[p].nr = 0
    BY <1>1
  <2> QED
    BY <2>1, <2>2, MsgsAssumption DEF Counted
<1>10. KeysUsedOnce
  BY <1>2 DEF KeysUsedOnce
<1> QED
  BY <1>1, <1>2, <1>3, <1>5, <1>6, <1>7, <1>8, <1>9, <1>10, FS_EmptySet DEF PairInv

LEMMA SentFinite ==
  ASSUME Types, NEW p \in Parties
  PROVE  IsFiniteSet(SentBy(p)) /\ Cardinality(SentBy(p)) \in Nat
<1>1. SentBy(p) \subseteq net
  BY DEF SentBy
<1> QED
  BY <1>1, FS_Subset, FS_CardinalityType DEF Types

(***************************************************************************)
(* A party encrypts.                                                       *)
(***************************************************************************)
LEMMA EncryptStateIs ==
  ASSUME NEW s \in States, Sound(s), CanEncrypt(s), NEW t, t = EncryptState(s)
  PROVE  /\ t \in States /\ Sound(t)
         /\ t.dhs = s.dhs /\ t.dhr = s.dhr /\ t.rk = s.rk /\ t.ckr = s.ckr /\ t.nr = s.nr
         /\ t.pn = s.pn /\ t.mkskipped = s.mkskipped /\ t.ns = s.ns + 1
         /\ t.cks # NoChain /\ t.cks.n = s.ns + 1 /\ s.cks.root = s.rk /\ s.cks.n = s.ns
         /\ s.cks \in Chains /\ EncryptHeader(s) \in Headers
<1>1. s.cks \in Chains /\ s.ns \in Nat /\ s.cks.root = s.rk /\ s.cks.n = s.ns
  BY DEF States, Sound, CanEncrypt
<1>2. PICK c : c = KdfCk(s.cks)
  OBVIOUS
<1>3. c \in Chains /\ c.root = s.rk /\ c.n = s.ns + 1
  BY <1>1, <1>2 DEF KdfCk, Chains
<1>4. c # NoChain
  BY <1>1, <1>3, NoChainType
<1>5. t = [s EXCEPT !.cks = c, !.ns = @ + 1]
  BY <1>2 DEF EncryptState, States
<1>6. /\ t.dhs = s.dhs /\ t.dhr = s.dhr /\ t.rk = s.rk /\ t.ckr = s.ckr /\ t.nr = s.nr
      /\ t.pn = s.pn /\ t.mkskipped = s.mkskipped /\ t.ns = s.ns + 1 /\ t.cks = c
  BY ONLY <1>5, s \in States DEF States
<1>7. t \in States
  <2>1. PICK n : n = s.ns + 1
    OBVIOUS
  <2>2. n \in Nat
    BY <1>1, <2>1
  <2>3. t = [s EXCEPT !.cks = c, !.ns = n]
    BY <1>5, <2>1 DEF States
  <2> QED
    BY ONLY <1>3, <2>2, <2>3, s \in States DEF States
<1>8. Sound(t)
  BY ONLY <1>3, <1>6, Sound(s) DEF Sound, Behind
<1>9. EncryptHeader(s) \in Headers
  BY DEF EncryptHeader, Headers, States
<1> QED
  BY <1>1, <1>3, <1>4, <1>6, <1>7, <1>8, <1>9

LEMMA EncryptPreserves ==
  ASSUME PairInv, NEW p \in Parties, Encrypt(p)
  PROVE  PairInv'
<1>1. PICK q, s, t : q = Peer(p) /\ s = st[p] /\ t = EncryptState(s)
  OBVIOUS
<1>2. q \in Parties /\ q # p /\ Peer(q) = p /\ Peer(p) = q /\ \A x \in Parties : x = p \/ x = q
  BY <1>1, PeerIs
<1>3. Types /\ s \in States /\ st[q] \in States /\ Sound(s) /\ CanEncrypt(s)
  BY <1>1, <1>2 DEF PairInv, Types, Encrypt
<1>4. /\ t \in States /\ Sound(t)
      /\ t.dhs = s.dhs /\ t.dhr = s.dhr /\ t.rk = s.rk /\ t.ckr = s.ckr /\ t.nr = s.nr
      /\ t.pn = s.pn /\ t.mkskipped = s.mkskipped /\ t.ns = s.ns + 1
      /\ t.cks # NoChain /\ t.cks.n = s.ns + 1 /\ s.cks.root = s.rk /\ s.cks.n = s.ns
      /\ s.cks \in Chains /\ EncryptHeader(s) \in Headers
  BY <1>1, <1>3, EncryptStateIs
<1>5. PICK c : c = Cardinality(SentBy(p)) /\ c \in Nat /\ IsFiniteSet(SentBy(p))
  BY <1>3, SentFinite
<1>6. PICK m : m = [from |-> p, id |-> c + 1, header |-> EncryptHeader(s), mk |-> EncryptKey(s)]
  OBVIOUS
<1>7. c + 1 <= MaxMsgs /\ net' = net \cup {m} /\ UNCHANGED <<got, spare>>
      /\ st' = [st EXCEPT ![p] = t]
  BY <1>1, <1>5, <1>6 DEF Encrypt
<1>8. st'[p] = t /\ st'[q] = st[q] /\ st' \in [Parties -> States]
  BY <1>2, <1>3, <1>4, <1>7 DEF Types
<1>9. /\ m.from = p /\ m.id = c + 1 /\ m.header \in Headers /\ m.header.dh = s.dhs
      /\ m.header.n = s.ns /\ m.mk = s.cks /\ m.mk.root = s.rk /\ m.mk.n = s.ns
  BY <1>4, <1>6 DEF EncryptHeader, EncryptKey
<1>10. m \in Messages
  <2>1. c + 1 \in 1 .. MaxMsgs
    BY <1>5, <1>7, MsgsAssumption
  <2> QED
    BY ONLY <1>4, <1>6, <2>1, p \in Parties DEF Messages, EncryptKey
<1>11. Types'
  <2>1. IsFiniteSet(net')
    BY <1>3, <1>7, FS_AddElement DEF Types
  <2> QED
    BY <1>3, <1>7, <1>8, <1>10, <2>1 DEF Types
<1>12. SentBy(p)' = SentBy(p) \cup {m} /\ SentBy(q)' = SentBy(q)
  BY <1>2, <1>7, <1>9 DEF SentBy
<1>13. Sends(p) /\ Sends(q) /\ Spent(p) /\ Spent(q) /\ Heard(p) /\ Heard(q) /\ Sound(st[q])
  BY <1>2 DEF PairInv
<1>14. \A x \in SentBy(p) : x.id <= c /\ x \in Messages
  BY <1>3, <1>5, <1>13 DEF Sends, Types, SentBy
<1>15. m \notin SentBy(p)
  BY <1>5, <1>9, <1>14
<1>16. Cardinality(SentBy(p))' = c + 1
  <2>1. Cardinality(SentBy(p) \cup {m}) = c + 1
    BY <1>5, <1>15, FS_AddElement
  <2> QED
    BY <1>12, <2>1
<1>17. Sends(q)'
  BY ONLY <1>8, <1>12, <1>13, Zenon DEF Sends
<1>18. Sends(p)'
  <2>1. s.ns \in Nat /\ s.pn \in Nat /\ s.ns <= c /\ s.pn <= c /\ Own(p, s.rk)
    BY <1>1, <1>3, <1>5, <1>13 DEF Sends, States
  <2>2. t.ns <= c + 1 /\ t.pn <= c + 1
    BY <1>4, <1>5, <2>1
  <2>3. ASSUME NEW x \in SentBy(p)
        PROVE  /\ x.id <= c + 1 /\ x.header.n < x.id
               /\ x.mk.n = x.header.n
               /\ Own(p, x.mk.root) /\ Len(x.mk.root) <= Len(s.rk)
               /\ Len(x.mk.root) = Len(s.rk) => x.mk.root = s.rk /\ x.mk.n < s.ns + 1
    <3>1. x \in Messages /\ x.id <= c
      BY <1>14
    <3>2. x.id \in Nat /\ x.mk.n \in Int
      BY <3>1 DEF Messages, Chains
    <3>3. /\ x.header.n < x.id /\ x.mk.n = x.header.n
          /\ Own(p, x.mk.root) /\ Len(x.mk.root) <= Len(s.rk)
          /\ Len(x.mk.root) = Len(s.rk) => x.mk.root = s.rk /\ x.mk.n < s.cks.n
      BY <1>1, <1>13 DEF Sends
    <3> QED
      BY <1>4, <1>5, <2>1, <3>1, <3>2, <3>3
  <2>4. /\ m.id <= c + 1 /\ m.header.n < m.id /\ m.mk.n = m.header.n
        /\ Own(p, m.mk.root) /\ Len(m.mk.root) <= Len(s.rk)
        /\ m.mk.root = s.rk /\ m.mk.n < s.ns + 1
    <3>1. Len(s.rk) \in Nat
      BY <1>3 DEF States
    <3> QED
      BY <1>5, <1>9, <2>1, <3>1
  <2>5. \A x, y \in SentBy(p) \cup {m} : x.id = y.id => x = y
    <3>1. \A x \in SentBy(p) : x.id # m.id
      BY <1>5, <1>9, <1>14
    <3>2. \A x, y \in SentBy(p) : x.id = y.id => x = y
      BY <1>13 DEF Sends
    <3> QED
      BY ONLY <3>1, <3>2, Zenon
  <2>6. \A x \in SentBy(p) \cup {m} :
          /\ x.id <= c + 1 /\ x.header.n < x.id
          /\ x.mk.n = x.header.n
          /\ Own(p, x.mk.root) /\ Len(x.mk.root) <= Len(t.rk)
          /\ Len(x.mk.root) = Len(t.rk) => t.cks # NoChain /\ x.mk.root = t.rk /\ x.mk.n < t.cks.n
    BY ONLY <1>4, <2>3, <2>4, Zenon
  <2>7. Own(p, t.rk)
    BY ONLY <1>4, <2>1, Zenon
  <2> QED
    BY ONLY <1>8, <1>12, <1>16, <2>2, <2>5, <2>6, <2>7, Zenon DEF Sends
<1>19. \A k : (Behind(s, k) <=> Behind(t, k)) /\ (Held(s, k) <=> Held(t, k))
  BY ONLY <1>4, Zenon DEF Behind, Held
<1>20. Spent(p)' /\ Spent(q)'
  <2>1. ToParty(p)' = SentBy(q)' /\ ToParty(p) = SentBy(q) /\ ToParty(q)' = SentBy(p)' /\ ToParty(q) = SentBy(p)
    BY ONLY <1>2, Zenon DEF ToParty
  <2>2. Spent(q)'
    BY ONLY <1>7, <1>8, <1>12, <1>13, <2>1 DEF Spent
  <2>3. Spent(p)'
    BY ONLY <1>1, <1>7, <1>8, <1>12, <1>13, <1>19, <2>1 DEF Spent
  <2> QED
    BY <2>2, <2>3
<1>21. Lockstep /\ spare \in Nat /\ s.dhs \in Nat /\ s.dhr \in Nat /\ st[q].dhr \in Nat /\ st[q].dhs \in Nat
  BY <1>3 DEF PairInv, Types, States
<1>22. /\ s.dhs > 0 /\ s.dhs < spare
       /\ Ahead(p) \/ Ahead(q)
  BY <1>1, <1>2, <1>21 DEF Lockstep, Parties
<1>23. Lockstep'
  <2>1. Ahead(p) => Ahead(p)'
    BY ONLY <1>1, <1>2, <1>4, <1>8, Zenon DEF Ahead
  <2>2. Ahead(q) => Ahead(q)'
    <3>1. Ahead(q) => st[q].ckr # NoChain
      BY <1>1, <1>2, <1>3 DEF Ahead, CanEncrypt
    <3> QED
      BY ONLY <1>1, <1>2, <1>4, <1>8, <3>1, Zenon DEF Ahead
  <2>3. ASSUME NEW x \in Parties PROVE st'[x].dhs = st[x].dhs /\ st'[x].dhr = st[x].dhr
    BY ONLY <1>1, <1>2, <1>4, <1>8, x \in Parties, Zenon
  <2>4. (Ahead("A") \/ Ahead("B"))'
    BY ONLY <1>2, <1>22, <2>1, <2>2, p \in Parties DEF Parties
  <2> QED
    BY <1>7, <1>21, <2>3, <2>4 DEF Lockstep
<1>24. Heard(p)'
  <2>1. ToParty(p)' = SentBy(q) /\ ToParty(p) = SentBy(q)
    BY ONLY <1>2, <1>12, Zenon DEF ToParty
  <2>2. \A x \in SentBy(q) : Hears(s, st[q], x)
    BY ONLY <1>1, <1>2, <1>13, <2>1, Zenon DEF Heard
  <2>3. \A x : Hears(s, st[q], x) => Hears(t, st[q], x)
    BY ONLY <1>4, Zenon DEF Hears
  <2> QED
    BY ONLY <1>2, <1>8, <2>1, <2>2, <2>3, Zenon DEF Heard
<1>25. Heard(q)'
  <2>1. ToParty(q)' = SentBy(p) \cup {m} /\ ToParty(q) = SentBy(p)
    BY ONLY <1>2, <1>12, Zenon DEF ToParty
  <2>2. \/ m.header.dh = st[q].dhr /\ st[q].ckr # NoChain /\ m.mk.root = st[q].ckr.root
        \/ m.header.dh = s.dhs /\ s.dhs > st[q].dhr /\ m.mk.root = s.rk
    <3>1. CASE Ahead(q)
      BY <1>1, <1>2, <1>3, <1>9, <3>1 DEF Ahead, CanEncrypt
    <3>2. CASE Ahead(p)
      BY <1>1, <1>2, <1>9, <1>21, <3>2 DEF Ahead
    <3> QED
      BY <1>22, <3>1, <3>2
  <2>3. m.header.dh > 0
    BY <1>9, <1>22
  <2>4. \A x \in SentBy(p) :
          /\ x.header.dh > 0
          /\ \/ x.header.dh < st[q].dhr /\ st[q].ckr # NoChain /\ Len(x.mk.root) < Len(st[q].ckr.root)
             \/ x.header.dh = st[q].dhr /\ st[q].ckr # NoChain /\ x.mk.root = st[q].ckr.root
             \/ /\ x.header.dh = s.dhs /\ s.dhs > st[q].dhr
                /\ x.mk.root = s.rk
    BY ONLY <1>1, <1>2, <1>13, <2>1, Zenon DEF Heard, Hears
  <2> QED
    BY ONLY <1>2, <1>4, <1>8, <2>1, <2>2, <2>3, <2>4 DEF Heard, Hears
<1>26. Decrypted' = Decrypted
  BY <1>7 DEF Decrypted
<1>27. \A x \in Parties : Sound(st[x])' /\ Sends(x)' /\ Spent(x)' /\ Heard(x)'
  BY ONLY <1>2, <1>4, <1>8, <1>13, <1>17, <1>18, <1>20, <1>24, <1>25, Zenon
<1>28. \A x \in Parties : Counted(x)'
  <2>1. ToParty(p)' = SentBy(q) /\ ToParty(p) = SentBy(q) /\ ToParty(q)' = SentBy(p)' /\ ToParty(q) = SentBy(p)
    BY ONLY <1>2, <1>12, Zenon DEF ToParty
  <2>2. Counted(p) /\ Counted(q)
    BY <1>2 DEF PairInv
  <2>3. Counted(p)'
    <3>1. st[p].nr <= Cardinality(SentBy(q))
      BY <2>1, <2>2 DEF Counted
    <3>2. t.nr <= Cardinality(SentBy(q))
      BY ONLY <1>1, <1>4, <3>1, Zenon
    <3> QED
      BY ONLY <1>7, <1>8, <1>16, <2>1, <3>2, MsgsAssumption DEF Counted
  <2>4. Counted(q)'
    <3>1. Cardinality(SentBy(q)) <= MaxMsgs /\ st[q].nr <= c
      BY ONLY <1>5, <2>1, <2>2, Zenon DEF Counted
    <3>2. st[q].nr <= c + 1
      <4>1. st[q].nr \in Nat
        BY <1>3 DEF States
      <4> QED
        BY <1>5, <3>1, <4>1
    <3> QED
      BY ONLY <1>8, <1>12, <1>16, <2>1, <3>1, <3>2, Zenon DEF Counted
  <2> QED
    BY ONLY <1>2, <2>3, <2>4, Zenon
<1>29. ASSUME NEW x \in net PROVE x.mk # m.mk
  <2>1. x \in Messages /\ (x.from = p \/ x.from = q)
    BY <1>2, <1>3 DEF Types, Messages
  <2>2. CASE x.from = p
    <3>1. x \in SentBy(p)
      BY <2>2 DEF SentBy
    <3>2. Len(x.mk.root) = Len(s.rk) => x.mk.n < s.cks.n
      BY <1>1, <1>13, <3>1 DEF Sends
    <3>3. s.ns \in Nat
      BY <1>3 DEF States
    <3> QED
      BY <1>4, <1>9, <3>2, <3>3
  <2>3. CASE x.from = q
    <3>1. x \in SentBy(q)
      BY <2>3 DEF SentBy
    <3>2. Own(q, x.mk.root) /\ Own(p, m.mk.root)
      BY <1>1, <1>9, <1>13, <3>1 DEF Sends
    <3>3. (p = "A" /\ q = "B") \/ (p = "B" /\ q = "A")
      BY <1>2 DEF Parties
    <3> QED
      BY ONLY <3>2, <3>3 DEF Own
  <2> QED
    BY <2>1, <2>2, <2>3
<1>30. KeysUsedOnce'
  <2>1. KeysUsedOnce
    BY DEF PairInv
  <2> QED
    BY ONLY <1>7, <1>29, <2>1 DEF KeysUsedOnce
<1> QED
  BY <1>7, <1>11, <1>23, <1>26, <1>27, <1>28, <1>30 DEF PairInv

(***************************************************************************)
(* A ciphertext is decrypted.                                              *)
(***************************************************************************)
LEMMA DeliverPreserves ==
  ASSUME PairInv, NEW m \in net, Deliver(m)
  PROVE  PairInv'
<1>1. PICK q, p, s, h, mk, t :
        /\ q = m.from /\ p = Peer(m.from) /\ s = st[p] /\ h = m.header /\ mk = m.mk
        /\ t = RatchetDecrypt(st[p], m.header, m.mk, spare).state
  OBVIOUS
<1>2. m \in Messages /\ Types
  BY DEF PairInv, Types
<1>3. /\ q \in Parties /\ h \in Headers /\ mk \in Chains /\ m.id \in 1 .. MaxMsgs
  BY <1>1, <1>2 DEF Messages
<1>4. p \in Parties /\ q # p /\ Peer(q) = p /\ Peer(p) = q /\ \A x \in Parties : x = p \/ x = q
  BY <1>1, <1>3, PeerIs
<1>5. s \in States /\ st[q] \in States /\ spare \in Nat /\ Sound(s) /\ Sound(st[q])
  BY <1>1, <1>2, <1>3, <1>4 DEF Types, PairInv
<1>6. Sends(p) /\ Sends(q) /\ Spent(p) /\ Spent(q) /\ Heard(p) /\ Heard(q) /\ Lockstep
  BY <1>3, <1>4 DEF PairInv
<1>7. /\ RatchetDecrypt(s, h, mk, spare).ok /\ t = RatchetDecrypt(s, h, mk, spare).state
      /\ st' = [st EXCEPT ![p] = t] /\ got' = [got EXCEPT ![p][m.id] = @ + 1]
      /\ spare' = (IF t.dhs = spare THEN spare + 1 ELSE spare) /\ net' = net
  BY <1>1 DEF Deliver
<1>8. m \in SentBy(q) /\ m \in ToParty(p) /\ ToParty(p) = SentBy(q) /\ ToParty(q) = SentBy(p)
  BY <1>1, <1>4 DEF SentBy, ToParty
<1>9. /\ h.dh > 0
      /\ \/ h.dh < s.dhr /\ s.ckr # NoChain /\ Len(mk.root) < Len(s.ckr.root)
         \/ h.dh = s.dhr /\ s.ckr # NoChain /\ mk.root = s.ckr.root
         \/ h.dh = st[q].dhs /\ st[q].dhs > s.dhr /\ mk.root = st[q].rk
  BY ONLY <1>1, <1>4, <1>6, <1>8 DEF Heard, Hears
<1>10. /\ h.dh \in Nat /\ s.dhr \in Nat /\ s.dhs \in Nat /\ st[q].dhs \in Nat /\ st[q].dhr \in Nat
       /\ s.rk \in Seq(Secrets) /\ s.ns \in Nat /\ s.pn \in Nat
       /\ Len(mk.root) \in Nat /\ Len(s.rk) \in Nat /\ Len(s.ckr.root) \in Nat
  <2>1. h.dh \in Nat /\ mk.root \in Seq(Secrets)
    BY ONLY <1>3 DEF Headers, Chains
  <2>2. /\ s.dhr \in Nat /\ s.dhs \in Nat /\ s.rk \in Seq(Secrets) /\ s.ns \in Nat /\ s.pn \in Nat
        /\ s.ckr \in Chains
    BY ONLY <1>5 DEF States
  <2>3. st[q].dhs \in Nat /\ st[q].dhr \in Nat
    BY ONLY <1>5 DEF States
  <2>4. s.ckr.root \in Seq(Secrets)
    BY ONLY <2>2 DEF Chains
  <2>5. Len(mk.root) \in Nat /\ Len(s.rk) \in Nat /\ Len(s.ckr.root) \in Nat
    BY ONLY <2>1, <2>2, <2>4
  <2> QED
    BY ONLY <2>1, <2>2, <2>3, <2>5
<1>11. s.ckr # NoChain => Len(s.ckr.root) < Len(s.rk)
  BY <1>5, <1>10 DEF Sound
<1>12. UsesUp(s, mk, t) /\ (SameChain(s, mk, t) \/ NewChain(s, h, mk, spare, t))
  <2>1. h.dh # NoDh
    BY <1>9, <1>10 DEF NoDh
  <2>2. h.dh = s.dhr => s.ckr # NoChain
    BY <1>9, <1>10
  <2>3. h.dh < s.dhr => Len(mk.root) <= Len(s.rk)
    BY <1>9, <1>10, <1>11
  <2> QED
    BY <1>3, <1>5, <1>7, <2>1, <2>2, <2>3, DecryptSound
<1>13. t \in States /\ Sound(t)
  BY <1>12 DEF UsesUp
<1>14. st'[p] = t /\ st'[q] = st[q] /\ st' \in [Parties -> States]
  BY <1>2, <1>4, <1>7, <1>13 DEF Types
<1>15. /\ SentBy(p)' = SentBy(p) /\ SentBy(q)' = SentBy(q)
       /\ ToParty(p)' = SentBy(q) /\ ToParty(q)' = SentBy(p)
  BY <1>4, <1>7 DEF SentBy, ToParty
<1>16. got[p] \in [1 .. MaxMsgs -> Nat] /\ got'[q] = got[q] /\ got'[p] = [got[p] EXCEPT ![m.id] = @ + 1]
  BY <1>2, <1>3, <1>4, <1>7 DEF Types
<1>17. /\ got' \in [Parties -> [1 .. MaxMsgs -> Nat]]
       /\ got'[p][m.id] = got[p][m.id] + 1
       /\ \A i \in 1 .. MaxMsgs \ {m.id} : got'[p][i] = got[p][i]
  <2>1. PICK g, n : g = got[p] /\ n = got[p][m.id] + 1
    OBVIOUS
  <2>2. g \in [1 .. MaxMsgs -> Nat] /\ n \in Nat
    <3>1. g \in [1 .. MaxMsgs -> Nat]
      BY ONLY <1>16, <2>1, Zenon
    <3>2. g[m.id] \in Nat /\ n = g[m.id] + 1
      BY ONLY <1>3, <2>1, <3>1
    <3> QED
      BY ONLY <3>1, <3>2
  <2>3. got'[p] = [g EXCEPT ![m.id] = n]
    BY <1>16, <2>1
  <2>4. got'[p] \in [1 .. MaxMsgs -> Nat]
    BY ONLY <1>3, <2>2, <2>3
  <2>5. got' = [got EXCEPT ![p] = got'[p]]
    BY <1>2, <1>4, <1>7, <1>16 DEF Types
  <2>6. got' \in [Parties -> [1 .. MaxMsgs -> Nat]]
    BY <1>2, <1>4, <2>4, <2>5 DEF Types
  <2>7. got'[p][m.id] = n /\ \A i \in 1 .. MaxMsgs \ {m.id} : got'[p][i] = g[i]
    BY ONLY <1>3, <2>2, <2>3
  <2> QED
    BY ONLY <2>1, <2>6, <2>7
<1>18. Types'
  BY <1>2, <1>5, <1>7, <1>14, <1>17 DEF Types
<1>19. got[p][m.id] = 0
  <2> SUFFICES ASSUME got[p][m.id] # 0 PROVE FALSE
    OBVIOUS
  <2>0. PICK n : n = got[p][m.id] /\ n \in Nat
    BY ONLY <1>3, <1>16
  <2>1. got[p][m.id] > 0
    BY <2>0
  <2>2. PICK x \in ToParty(p) : x.id = m.id /\ Behind(s, x.mk) /\ ~Held(s, x.mk)
    BY <1>1, <1>3, <1>6, <2>1 DEF Spent
  <2>3. x = m
    BY <1>6, <1>8, <2>2 DEF Sends
  <2> QED
    BY <1>1, <1>12, <2>2, <2>3 DEF UsesUp, Unused
<1>20. Spent(p)'
  <2> SUFFICES ASSUME NEW i \in 1 .. MaxMsgs, got'[p][i] > 0
               PROVE  /\ got'[p][i] = 1
                      /\ \E x \in SentBy(q) : x.id = i /\ Behind(t, x.mk) /\ ~Held(t, x.mk)
    BY <1>14, <1>15 DEF Spent
  <2>1. CASE i = m.id
    BY <1>1, <1>8, <1>12, <1>17, <1>19, <2>1 DEF UsesUp
  <2>2. CASE i # m.id
    <3>1. got'[p][i] = got[p][i]
      BY <1>17, <2>2
    <3>2. PICK x \in SentBy(q) : x.id = i /\ Behind(s, x.mk) /\ ~Held(s, x.mk)
      BY <1>1, <1>6, <1>8, <3>1 DEF Spent
    <3>3. got[p][i] = 1
      BY <1>6, <3>1 DEF Spent
    <3>4. x.mk \in Chains
      BY <1>2 DEF Types, Messages, SentBy
    <3> QED
      BY <1>12, <3>1, <3>2, <3>3, <3>4 DEF UsesUp
  <2> QED
    BY <2>1, <2>2
<1>21. Spent(q)'
  BY ONLY <1>6, <1>8, <1>14, <1>15, <1>16 DEF Spent
<1>22. Sends(q)'
  BY ONLY <1>6, <1>14, <1>15, Zenon DEF Sends
<1>23. Decrypted' = Decrypted \cup {<<p, m.id>>} /\ <<p, m.id>> \notin Decrypted
  <2>1. \A d \in Parties \X (1 .. MaxMsgs) : d # <<p, m.id>> => got'[d[1]][d[2]] = got[d[1]][d[2]]
    <3> SUFFICES ASSUME NEW x \in Parties, NEW i \in 1 .. MaxMsgs, <<x, i>> # <<p, m.id>>
                 PROVE  got'[x][i] = got[x][i]
      OBVIOUS
    <3> QED
      BY <1>4, <1>16, <1>17
  <2>2. <<p, m.id>> \in Parties \X (1 .. MaxMsgs) /\ got'[p][m.id] > 0 /\ ~(got[p][m.id] > 0)
    BY <1>3, <1>4, <1>17, <1>19
  <2> QED
    BY <2>1, <2>2 DEF Decrypted
<1>24. IsFiniteSet(Decrypted) /\ Cardinality(Decrypted) \in Nat /\ Cardinality(Decrypted)' = Cardinality(Decrypted) + 1
  <2>1. IsFiniteSet(Parties \X (1 .. MaxMsgs))
    <3>1. IsFiniteSet(1 .. MaxMsgs)
      BY FS_Interval, MsgsAssumption
    <3>2. IsFiniteSet(Parties)
      <4>1. IsFiniteSet({"A"}) /\ IsFiniteSet({"B"})
        BY FS_Singleton
      <4>2. Parties = {"A"} \cup {"B"}
        BY DEF Parties
      <4> QED
        BY <4>1, <4>2, FS_Union
    <3> QED
      BY <3>1, <3>2, FS_Product
  <2>2. Decrypted \subseteq Parties \X (1 .. MaxMsgs)
    BY DEF Decrypted
  <2>3. IsFiniteSet(Decrypted) /\ Cardinality(Decrypted) \in Nat
    BY <2>1, <2>2, FS_Subset, FS_CardinalityType
  <2>4. Cardinality(Decrypted \cup {<<p, m.id>>}) = Cardinality(Decrypted) + 1
    BY <1>23, <2>3, FS_AddElement
  <2> QED
    BY <1>23, <2>3, <2>4
<1>25. spare' \in Nat /\ spare <= spare' /\ spare' <= spare + 1
  BY <1>5, <1>7
<1>26. spare' >= 3 /\ spare' <= 3 + Cardinality(Decrypted)'
  <2>1. spare >= 3 /\ spare <= 3 + Cardinality(Decrypted)
    BY DEF PairInv
  <2> QED
    BY <1>5, <1>24, <1>25, <2>1
<1>29. KeysUsedOnce'
  BY <1>7 DEF PairInv, KeysUsedOnce
<1>30. \A x \in Parties : Counted(x)'
  <2>1. Counted(p) /\ Counted(q)
    BY <1>3, <1>4 DEF PairInv
  <2>2. PICK c : c = Cardinality(SentBy(q)) /\ c \in Nat
    BY <1>2, <1>3, SentFinite
  <2>3. t.nr <= c
    <3>1. t.nr = s.nr \/ t.nr = mk.n + 1
      BY <1>12 DEF SameChain, NewChain
    <3>2. s.nr <= c
      BY ONLY <1>1, <1>8, <2>1, <2>2, Zenon DEF Counted
    <3>3. m.id <= c /\ h.n < m.id /\ mk.n = h.n
      BY <1>1, <1>6, <1>8, <2>2 DEF Sends
    <3>4. h.n \in Nat
      BY <1>3 DEF Headers
    <3> QED
      BY <1>3, <2>2, <3>1, <3>2, <3>3, <3>4
  <2>4. Counted(p)'
    BY ONLY <1>14, <1>15, <2>1, <2>2, <2>3, Zenon DEF Counted
  <2>5. Counted(q)'
    BY ONLY <1>8, <1>14, <1>15, <2>1, Zenon DEF Counted
  <2> QED
    BY ONLY <1>4, <2>4, <2>5, Zenon
<1>27. CASE SameChain(s, mk, t)
  <2>1. /\ t.dhs = s.dhs /\ t.dhr = s.dhr /\ t.rk = s.rk /\ t.cks = s.cks /\ t.ns = s.ns /\ t.pn = s.pn
        /\ t.ckr.root = s.ckr.root /\ t.ckr # NoChain /\ s.ckr # NoChain
    BY <1>27 DEF SameChain
  <2>2. Sends(p)'
    <3>1. PICK c : c = Cardinality(SentBy(p))
      OBVIOUS
    <3>2. /\ Own(p, s.rk) /\ s.ns <= c /\ s.pn <= c
          /\ \A x, y \in SentBy(p) : x.id = y.id => x = y
      BY ONLY <1>1, <1>6, <3>1, Zenon DEF Sends
    <3>3. \A x \in SentBy(p) :
            /\ x.id <= c /\ x.header.n < x.id
            /\ x.mk.n = x.header.n
            /\ Own(p, x.mk.root) /\ Len(x.mk.root) <= Len(s.rk)
            /\ Len(x.mk.root) = Len(s.rk) => s.cks # NoChain /\ x.mk.root = s.rk /\ x.mk.n < s.cks.n
      BY ONLY <1>1, <1>6, <3>1, Zenon DEF Sends
    <3>4. \A x \in SentBy(p) :
            /\ x.id <= c /\ x.header.n < x.id
            /\ x.mk.n = x.header.n
            /\ Own(p, x.mk.root) /\ Len(x.mk.root) <= Len(t.rk)
            /\ Len(x.mk.root) = Len(t.rk) => t.cks # NoChain /\ x.mk.root = t.rk /\ x.mk.n < t.cks.n
      BY ONLY <2>1, <3>3, Zenon
    <3>5. Own(p, t.rk) /\ t.ns <= c /\ t.pn <= c
      BY ONLY <2>1, <3>2, Zenon
    <3> QED
      BY ONLY <1>14, <1>15, <3>1, <3>2, <3>4, <3>5, Zenon DEF Sends
  <2>3. Heard(p)'
    <3>1. \A x \in SentBy(q) : Hears(s, st[q], x)
      BY ONLY <1>1, <1>4, <1>6, <1>8, Zenon DEF Heard
    <3>2. \A x : Hears(s, st[q], x) => Hears(t, st[q], x)
      BY ONLY <2>1, Zenon DEF Hears
    <3> QED
      BY ONLY <1>4, <1>14, <1>15, <3>1, <3>2, Zenon DEF Heard
  <2>4. Heard(q)'
    <3>1. \A x \in SentBy(p) : Hears(st[q], s, x)
      BY ONLY <1>1, <1>4, <1>6, <1>8, Zenon DEF Heard
    <3>2. \A x : Hears(st[q], s, x) => Hears(st[q], t, x)
      BY ONLY <2>1, Zenon DEF Hears
    <3> QED
      BY ONLY <1>4, <1>14, <1>15, <3>1, <3>2, Zenon DEF Heard
  <2>5. Lockstep'
    <3>1. Ahead(p) => Ahead(p)'
      BY ONLY <1>1, <1>4, <1>14, <2>1, Zenon DEF Ahead
    <3>2. Ahead(q) => Ahead(q)'
      BY ONLY <1>1, <1>4, <1>14, <2>1, Zenon DEF Ahead
    <3>3. (Ahead("A") \/ Ahead("B"))'
      BY ONLY <1>4, <1>6, <3>1, <3>2 DEF Parties, Lockstep
    <3>4. ASSUME NEW x \in Parties PROVE st'[x].dhs = st[x].dhs /\ st'[x].dhr = st[x].dhr /\ st[x] \in States
      <4>1. CASE x = p
        BY ONLY <1>1, <1>5, <1>14, <2>1, <4>1, Zenon
      <4>2. CASE x = q
        BY ONLY <1>5, <1>14, <4>2, Zenon
      <4> QED
        BY <1>4, <4>1, <4>2
    <3>5. ASSUME NEW x \in Parties PROVE (st[x].dhs \in 1 .. spare - 1 /\ st[x].dhr < spare)'
      <4>1. st[x].dhs \in Nat /\ st[x].dhr \in Nat
        BY ONLY <3>4 DEF States
      <4>2. st[x].dhs \in 1 .. spare - 1 /\ st[x].dhr < spare
        BY ONLY <1>6, x \in Parties DEF Lockstep
      <4>3. st[x].dhs \in 1 .. spare' - 1 /\ st[x].dhr < spare'
        BY ONLY <1>5, <1>25, <4>1, <4>2
      <4> QED
        BY ONLY <3>4, <4>3, Zenon
    <3> QED
      BY <3>3, <3>5 DEF Lockstep
  <2>6. \A x \in Parties : Sound(st[x])' /\ Sends(x)' /\ Spent(x)' /\ Heard(x)'
    BY ONLY <1>4, <1>5, <1>13, <1>14, <1>20, <1>21, <1>22, <2>2, <2>3, <2>4, Zenon
  <2> QED
    BY <1>18, <1>26, <1>29, <1>30, <2>5, <2>6 DEF PairInv
<1>28. CASE NewChain(s, h, mk, spare, t)
  <2>1. /\ h.dh > s.dhr
        /\ t.dhs = spare /\ t.dhr = h.dh /\ t.pn = s.ns /\ t.ns = 0
        /\ mk.root = KdfRk(s.rk, Dh(s.dhs, h.dh))
        /\ t.ckr # NoChain /\ t.ckr.root = mk.root
        /\ t.rk = KdfRk(mk.root, Dh(spare, h.dh)) /\ t.cks = ChainOf(t.rk)
    BY <1>28 DEF NewChain
  <2>2. /\ mk.root \in Seq(Secrets) /\ Len(mk.root) = Len(s.rk) + 1
        /\ t.rk \in Seq(Secrets) /\ Len(t.rk) = Len(s.rk) + 2
    <3>1. Dh(s.dhs, h.dh) \in Secrets /\ Dh(spare, h.dh) \in Secrets
      BY <1>5, <1>10, DhType
    <3>2. mk.root \in Seq(Secrets) /\ Len(mk.root) = Len(s.rk) + 1
      BY ONLY <1>10, <2>1, <3>1, AppendRoot, Zenon
    <3>3. t.rk \in Seq(Secrets) /\ Len(t.rk) = Len(mk.root) + 1
      BY ONLY <2>1, <3>1, <3>2, AppendRoot, Zenon
    <3> QED
      BY <1>10, <3>2, <3>3
  <2>3. h.dh = st[q].dhs /\ st[q].dhs > s.dhr /\ mk.root = st[q].rk
    BY <1>9, <1>10, <2>1
  <2>4. Ahead(q)
    <3>1. ~Ahead(p)
      BY <1>1, <1>4, <1>10, <2>3 DEF Ahead
    <3> QED
      BY <1>4, <1>6, <3>1 DEF Lockstep, Parties
  <2>5. st[q].dhr = s.dhs
    BY <1>1, <1>4, <2>4 DEF Ahead
  <2>6. s.dhs < spare /\ spare' = spare + 1 /\ st[q].dhs \in 1 .. spare - 1 /\ st[q].dhr < spare
    BY <1>1, <1>4, <1>5, <1>6, <1>7, <2>1, <1>3 DEF Lockstep
  <2>7. Sends(p)'
    <3>1. PICK c : c = Cardinality(SentBy(p)) /\ c \in Nat
      BY <1>2, <1>4, SentFinite
    <3>2. t.ns <= c /\ t.pn <= c
      BY <1>1, <1>6, <1>10, <2>1, <3>1 DEF Sends
    <3>3. Own(p, t.rk)
      <4>1. PICK k \in Nat : Len(s.rk) = 2 * k + (IF p = "A" THEN 2 ELSE 1)
        BY <1>1, <1>6 DEF Sends, Own
      <4>2. k + 1 \in Nat /\ Len(t.rk) = 2 * (k + 1) + (IF p = "A" THEN 2 ELSE 1)
        BY <2>2, <4>1
      <4> QED
        BY <4>2 DEF Own
    <3>4. ASSUME NEW x \in SentBy(p)
          PROVE  /\ x.id <= c /\ x.header.n < x.id /\ x.mk.n = x.header.n
                 /\ Own(p, x.mk.root) /\ Len(x.mk.root) <= Len(t.rk) /\ Len(x.mk.root) # Len(t.rk)
      <4>1. /\ x.id <= c /\ x.header.n < x.id /\ x.mk.n = x.header.n
            /\ Own(p, x.mk.root) /\ Len(x.mk.root) <= Len(s.rk)
        BY <1>1, <1>6, <3>1 DEF Sends
      <4>2. Len(x.mk.root) \in Nat
        BY <1>2 DEF Types, Messages, SentBy, Chains
      <4> QED
        BY <1>10, <2>2, <4>1, <4>2
    <3>5. \A x, y \in SentBy(p) : x.id = y.id => x = y
      BY <1>6 DEF Sends
    <3> QED
      BY ONLY <1>14, <1>15, <3>1, <3>2, <3>3, <3>4, <3>5, Zenon DEF Sends
  <2>8. Heard(p)'
    <3> SUFFICES ASSUME NEW x \in SentBy(q)
                 PROVE  /\ x.header.dh > 0
                        /\ \/ x.header.dh < t.dhr /\ t.ckr # NoChain /\ Len(x.mk.root) < Len(t.ckr.root)
                           \/ x.header.dh = t.dhr /\ t.ckr # NoChain /\ x.mk.root = t.ckr.root
      BY <1>14, <1>15 DEF Heard, Hears
    <3>1. /\ x.header.dh > 0
          /\ \/ x.header.dh < s.dhr /\ s.ckr # NoChain /\ Len(x.mk.root) < Len(s.ckr.root)
             \/ x.header.dh = s.dhr /\ s.ckr # NoChain /\ x.mk.root = s.ckr.root
             \/ x.header.dh = st[q].dhs /\ st[q].dhs > s.dhr /\ x.mk.root = st[q].rk
      BY ONLY <1>1, <1>4, <1>6, <1>8, x \in SentBy(q) DEF Heard, Hears
    <3>2. Len(x.mk.root) \in Nat /\ x.header.dh \in Nat
      <4>1. x \in Messages
        BY <1>2 DEF Types, SentBy
      <4>2. x.mk \in Chains /\ x.header \in Headers
        BY ONLY <4>1 DEF Messages
      <4>3. x.mk.root \in Seq(Secrets) /\ x.header.dh \in Nat
        BY ONLY <4>2 DEF Chains, Headers
      <4> QED
        BY ONLY <4>3
    <3>3. CASE x.header.dh < s.dhr /\ s.ckr # NoChain /\ Len(x.mk.root) < Len(s.ckr.root)
      <4>1. x.header.dh < t.dhr
        BY ONLY <1>10, <2>1, <3>2, <3>3
      <4>2. Len(x.mk.root) < Len(mk.root)
        <5>1. PICK a, b, c, d : a = Len(x.mk.root) /\ b = Len(s.ckr.root) /\ c = Len(s.rk) /\ d = Len(mk.root)
          OBVIOUS
        <5>2. a \in Nat /\ b \in Nat /\ c \in Nat /\ a < b /\ b < c /\ d = c + 1
          BY ONLY <1>10, <1>11, <2>2, <3>2, <3>3, <5>1, Zenon
        <5> QED
          BY ONLY <5>1, <5>2
      <4> QED
        BY ONLY <2>1, <3>1, <4>1, <4>2
    <3>4. CASE x.header.dh = s.dhr /\ s.ckr # NoChain /\ x.mk.root = s.ckr.root
      <4>1. x.header.dh < t.dhr
        BY ONLY <1>10, <2>1, <3>2, <3>4
      <4>2. Len(x.mk.root) < Len(mk.root)
        BY ONLY <1>10, <1>11, <2>2, <3>2, <3>4
      <4> QED
        BY ONLY <2>1, <3>1, <4>1, <4>2
    <3>5. CASE x.header.dh = st[q].dhs /\ st[q].dhs > s.dhr /\ x.mk.root = st[q].rk
      BY ONLY <2>1, <2>3, <3>1, <3>5, Zenon
    <3> QED
      BY ONLY <3>1, <3>3, <3>4, <3>5
  <2>9. Heard(q)'
    <3> SUFFICES ASSUME NEW x \in SentBy(p)
                 PROVE  /\ x.header.dh > 0
                        /\ \/ x.header.dh < st[q].dhr /\ st[q].ckr # NoChain
                                /\ Len(x.mk.root) < Len(st[q].ckr.root)
                           \/ x.header.dh = st[q].dhr /\ st[q].ckr # NoChain /\ x.mk.root = st[q].ckr.root
      BY <1>14, <1>15 DEF Heard, Hears
    <3>1. /\ x.header.dh > 0
          /\ \/ x.header.dh < st[q].dhr /\ st[q].ckr # NoChain /\ Len(x.mk.root) < Len(st[q].ckr.root)
             \/ x.header.dh = st[q].dhr /\ st[q].ckr # NoChain /\ x.mk.root = st[q].ckr.root
             \/ x.header.dh = s.dhs /\ s.dhs > st[q].dhr /\ x.mk.root = s.rk
      BY ONLY <1>1, <1>4, <1>6, <1>8, x \in SentBy(p) DEF Heard, Hears
    <3> QED
      BY <1>10, <2>5, <3>1
  <2>10. Lockstep'
    <3>1. Ahead(p)'
      <4>1. t.rk = Append(st[q].rk, Dh(t.dhs, st[q].dhs)) /\ t.dhr = st[q].dhs /\ t.ckr.root = st[q].rk
        BY ONLY <2>1, <2>3, Zenon DEF KdfRk
      <4>2. st[q].dhr < t.dhs
        BY <2>1, <2>6
      <4> QED
        BY ONLY <1>4, <1>14, <2>1, <4>1, <4>2, Zenon DEF Ahead
    <3>2. (Ahead("A") \/ Ahead("B"))'
      BY ONLY <1>4, <3>1 DEF Parties
    <3>3. ASSUME NEW x \in Parties PROVE (st[x].dhs \in 1 .. spare - 1 /\ st[x].dhr < spare)'
      <4>1. CASE x = p
        <5>1. spare >= 3
          BY DEF PairInv
        <5> QED
          BY <1>5, <1>10, <1>14, <2>1, <2>3, <2>6, <4>1, <5>1
      <4>2. CASE x = q
        BY <1>5, <1>10, <1>14, <2>6, <4>2
      <4> QED
        BY <1>4, <4>1, <4>2
    <3> QED
      BY <3>2, <3>3 DEF Lockstep
  <2>11. \A x \in Parties : Sound(st[x])' /\ Sends(x)' /\ Spent(x)' /\ Heard(x)'
    BY ONLY <1>4, <1>5, <1>13, <1>14, <1>20, <1>21, <1>22, <2>7, <2>8, <2>9, Zenon
  <2> QED
    BY <1>18, <1>26, <1>29, <1>30, <2>10, <2>11 DEF PairInv
<1> QED
  BY <1>12, <1>27, <1>28

LEMMA NextPairInv == PairInv /\ [PairNext]_pairVars => PairInv'
<1> SUFFICES ASSUME PairInv, [PairNext]_pairVars PROVE PairInv'
  OBVIOUS
<1>1. CASE \E p \in Parties : Encrypt(p)
  BY <1>1, EncryptPreserves
<1>2. CASE \E m \in net : Deliver(m)
  BY <1>2, DeliverPreserves
<1>3. CASE UNCHANGED pairVars
  <2>1. st' = st /\ net' = net /\ got' = got /\ spare' = spare
    BY <1>3 DEF pairVars
  <2>2. Types' /\ Lockstep' /\ KeysUsedOnce' /\ Decrypted' = Decrypted
    BY <2>1 DEF PairInv, Types, Lockstep, Ahead, KeysUsedOnce, Decrypted
  <2>3. ASSUME NEW p \in Parties
        PROVE  Sound(st[p])' /\ Sends(p)' /\ Spent(p)' /\ Heard(p)' /\ Counted(p)'
    <3>1. Sound(st[p]) /\ Sends(p) /\ Spent(p) /\ Heard(p) /\ Counted(p)
      BY DEF PairInv
    <3>2. SentBy(p)' = SentBy(p) /\ ToParty(p)' = ToParty(p)
      BY <2>1 DEF SentBy, ToParty
    <3>3. Sends(p)' /\ Counted(p)' /\ Sound(st[p])'
      BY ONLY <2>1, <3>1, <3>2, Zenon DEF Sends, Counted
    <3> QED
      BY ONLY <2>1, <3>1, <3>2, <3>3, Zenon DEF Spent, Heard, Hears
  <2> QED
    BY ONLY <2>1, <2>2, <2>3, PairInv, Zenon DEF PairInv
<1> QED
  BY <1>1, <1>2, <1>3 DEF PairNext

LEMMA PairInvariance == PairSpec => []PairInv
BY InitPairInv, NextPairInv, PTL DEF PairSpec

-----------------------------------------------------------------------------
LEMMA TypesHold == PairInv => TypeOK
<1> SUFFICES ASSUME PairInv PROVE TypeOK
  OBVIOUS
<1>1. Types /\ spare >= 3 /\ spare <= 3 + Cardinality(Decrypted)
  BY DEF PairInv
<1>2. ASSUME NEW p \in Parties
      PROVE  /\ st[p].ns \in 0 .. MaxMsgs
             /\ st[p].pn \in 0 .. MaxMsgs
             /\ st[p].nr \in 0 .. Cardinality(SentBy(Peer(p)))
             /\ Len(st[p].mkskipped) <= MaxSkippedTotal
  <2>1. Sound(st[p]) /\ Sends(p) /\ Counted(p) /\ st[p] \in States
    BY DEF PairInv, Types
  <2>2. PICK c : c = Cardinality(SentBy(p)) /\ c \in Nat
    BY <1>1, SentFinite
  <2>3. PICK d : d = Cardinality(SentBy(Peer(p))) /\ d \in Nat
    BY <1>1, SentFinite, PeerIs
  <2>4. st[p].ns <= c /\ st[p].pn <= c /\ c <= MaxMsgs /\ st[p].nr <= d
    BY ONLY <2>1, <2>2, <2>3, Zenon DEF Sends, Counted, ToParty
  <2>5. st[p].ns \in Nat /\ st[p].pn \in Nat /\ st[p].nr \in Nat
    BY <2>1 DEF States
  <2>6. Len(st[p].mkskipped) <= MaxSkippedTotal
    BY <2>1 DEF Sound
  <2> QED
    BY <2>2, <2>3, <2>4, <2>5, <2>6, MsgsAssumption
<1>3. Cardinality(Decrypted) \in Nat /\ Cardinality(Decrypted) <= 2 * MaxMsgs
  <2>1. IsFiniteSet(1 .. MaxMsgs) /\ Cardinality(1 .. MaxMsgs) = MaxMsgs
    BY FS_Interval, MsgsAssumption
  <2>2. IsFiniteSet(Parties) /\ Cardinality(Parties) = 2
    <3>1. IsFiniteSet({"A"}) /\ Cardinality({"A"}) = 1 /\ "B" \notin {"A"}
      BY FS_Singleton
    <3>2. Parties = {"A"} \cup {"B"}
      BY DEF Parties
    <3> QED
      BY <3>1, <3>2, FS_AddElement
  <2>3. IsFiniteSet(Parties \X (1 .. MaxMsgs)) /\ Cardinality(Parties \X (1 .. MaxMsgs)) = 2 * MaxMsgs
    <3>1. /\ IsFiniteSet(Parties \X (1 .. MaxMsgs))
          /\ Cardinality(Parties \X (1 .. MaxMsgs)) = Cardinality(Parties) * Cardinality(1 .. MaxMsgs)
      BY <2>1, <2>2, FS_Product
    <3> QED
      BY ONLY <2>1, <2>2, <3>1, Zenon
  <2>4. Decrypted \subseteq Parties \X (1 .. MaxMsgs)
    BY DEF Decrypted
  <2> QED
    BY <2>3, <2>4, FS_Subset, FS_CardinalityType
<1>4. spare \in 3 .. 3 + 2 * MaxMsgs
  BY <1>1, <1>3, MsgsAssumption DEF Types
<1> QED
  BY <1>1, <1>2, <1>4 DEF TypeOK, Types

(***************************************************************************)
(* The counters of a ratchet state never pass the number of messages that  *)
(* were encrypted, the dict that _skip_message_keys fills never holds more *)
(* than _MAX_SKIPPED_TOTAL keys, and _dh_ratchet makes at most one key     *)
(* pair for each message that is decrypted.                                *)
(***************************************************************************)
THEOREM RatchetTypeOK == PairSpec => []TypeOK
BY TypesHold, PairInvariance, PTL

LEMMA SpentOnce == PairInv => NoReplay
<1> SUFFICES ASSUME PairInv PROVE NoReplay
  OBVIOUS
<1> SUFFICES ASSUME NEW p \in Parties, NEW i \in 1 .. MaxMsgs PROVE got[p][i] <= 1
  BY DEF NoReplay
<1>1. PICK n : n = got[p][i] /\ n \in Nat
  BY DEF PairInv, Types
<1>2. n > 0 => n = 1
  BY ONLY <1>1, PairInv, p \in Parties, i \in 1 .. MaxMsgs DEF PairInv, Spent
<1> QED
  BY <1>1, <1>2

(***************************************************************************)
(* Replay protection: ratchet_decrypt accepts no ciphertext of a session   *)
(* twice, however often and in whatever order ciphertexts are repeated.    *)
(***************************************************************************)
THEOREM NoReplayHolds == PairSpec => []NoReplay
BY SpentOnce, PairInvariance, PTL

(***************************************************************************)
(* ratchet_encrypt never uses a message key twice, neither on one chain    *)
(* nor on two, neither for one party nor for both.                         *)
(***************************************************************************)
THEOREM KeysUsedOnceHolds == PairSpec => []KeysUsedOnce
<1>1. PairInv => KeysUsedOnce
  BY DEF PairInv
<1> QED
  BY <1>1, PairInvariance, PTL

(***************************************************************************)
(* When ratchet_decrypt does not find a skipped key, it succeeds if no     *)
(* skip is too far and the chain key it arrives at is the message's.       *)
(***************************************************************************)
LEMMA OkOnChain ==
  ASSUME NEW s, NEW h, NEW mk, NEW dh, SkippedAt(s, h) = {}, h.dh = s.dhr, s.dhr # NoDh,
         ~TooFar(s, h.n), SkipMessageKeys(s, h.n).ckr = mk
  PROVE  RatchetDecrypt(s, h, mk, dh).ok
BY DEF RatchetDecrypt

LEMMA OkByTurn ==
  ASSUME NEW s, NEW h, NEW mk, NEW dh, SkippedAt(s, h) = {}, h.dh # s.dhr, ~TooFar(s, h.pn),
         NEW w, w = DhRatchet(SkipMessageKeys(s, h.pn), h, dh),
         ~TooFar(w, h.n), SkipMessageKeys(w, h.n).ckr = mk
  PROVE  RatchetDecrypt(s, h, mk, dh).ok
BY DEF RatchetDecrypt

(* _skip_message_keys arrives at the key it is asked for.                  *)
LEMMA SkipArrives ==
  ASSUME NEW s \in States, s.ckr # NoChain, s.ckr.n = s.nr, NEW until \in Nat, until >= s.nr,
         NEW mk \in Chains, mk.root = s.ckr.root, mk.n = until
  PROVE  SkipMessageKeys(s, until).ckr = mk
<1>1. s.ckr \in Chains /\ s.nr \in Nat
  BY DEF States
<1>2. CASE until <= s.nr
  <2>1. s.ckr.n = mk.n
    BY <1>1, <1>2
  <2>2. s.ckr = mk
    BY ONLY <1>1, <2>1, mk \in Chains, mk.root = s.ckr.root DEF Chains
  <2> QED
    BY <1>2, <2>2 DEF SkipMessageKeys
<1>3. CASE ~(until <= s.nr)
  <2>0. PICK t, q, count :
          /\ t = SkipMessageKeys(s, until) /\ count = until - s.nr
          /\ q = Newest(s.mkskipped \o Skipped(s, count), MaxSkippedTotal)
    OBVIOUS
  <2>1. t = [s EXCEPT !.mkskipped = q, !.ckr.n = @ + count, !.nr = until]
    BY <1>3, <2>0 DEF SkipMessageKeys, Skipped
  <2>2. t.ckr = [s.ckr EXCEPT !.n = @ + count]
    BY ONLY <2>1, s \in States DEF States
  <2>3. s.ckr.n + count = until
    BY <1>1, <2>0
  <2>4. t.ckr = [s.ckr EXCEPT !.n = until]
    BY ONLY <1>1, <2>2, <2>3 DEF Chains
  <2>5. t.ckr = mk
    BY ONLY <1>1, <2>4, mk \in Chains, mk.root = s.ckr.root, mk.n = until DEF Chains
  <2> QED
    BY <2>0, <2>5
<1> QED
  BY <1>2, <1>3

LEMMA NextDecrypts == PairInv => AnyOrder
<1> SUFFICES ASSUME PairInv PROVE AnyOrder
  OBVIOUS
<1> SUFFICES ASSUME NEW p \in Parties, NEW m \in Undelivered(p), ~Passed(p, m)
             PROVE  LET new == st[p].dhr = NoDh \/ m.header.dh # st[p].dhr
                    IN  \/ RatchetDecrypt(st[p], m.header, m.mk, spare).ok
                        \/ new /\ TooFar(st[p], m.header.pn)
                        \/ m.header.n > (IF new THEN 0 ELSE st[p].nr) + MaxSkip
  BY DEF AnyOrder
<1>1. PICK q, s, h, mk : q = Peer(p) /\ s = st[p] /\ h = m.header /\ mk = m.mk
  OBVIOUS
<1>2. q \in Parties /\ q # p /\ Peer(q) = p /\ Peer(p) = q
  BY <1>1, PeerIs
<1>3. m \in ToParty(p) /\ m \in SentBy(q)
  BY <1>1 DEF Undelivered, ToParty
<1>4. m \in Messages /\ s \in States /\ st[q] \in States /\ spare \in Nat /\ Sound(s)
  BY <1>1, <1>2, <1>3 DEF PairInv, Types, SentBy
<1>5. h \in Headers /\ mk \in Chains
  BY <1>1, <1>4 DEF Messages
<1>6. h.dh \in Nat /\ h.n \in Nat /\ h.pn \in Nat
  BY <1>5 DEF Headers
<1>7. s.dhr \in Nat /\ s.dhs \in Nat /\ s.nr \in Nat /\ s.rk \in Seq(Secrets) /\ s.mkskipped \in Seq(Entries)
  BY <1>4 DEF States
<1>8. mk.n = h.n
  BY <1>1, <1>2, <1>3 DEF PairInv, Sends
<1>9. h.dh > 0 /\ ~(h.dh = s.dhr /\ h.n < s.nr)
      /\ \/ h.dh = s.dhr /\ s.ckr # NoChain /\ mk.root = s.ckr.root
         \/ h.dh = st[q].dhs /\ st[q].dhs > s.dhr /\ mk.root = st[q].rk
  BY <1>1, <1>2, <1>3 DEF PairInv, Heard, Hears, Passed
<1>10. SkippedAt(s, h) = {}
  <2> SUFFICES ASSUME NEW i \in 1 .. Len(s.mkskipped),
                      s.mkskipped[i].dh = h.dh, s.mkskipped[i].n = h.n
               PROVE  FALSE
    BY DEF SkippedAt
  <2>1. s.mkskipped[i].dh < s.dhr \/ (s.mkskipped[i].dh = s.dhr /\ s.mkskipped[i].n < s.nr)
    BY <1>4 DEF Sound
  <2>2. st[q].dhs \in Nat
    BY <1>4 DEF States
  <2> QED
    BY ONLY <1>6, <1>7, <1>9, <2>1, <2>2, s.mkskipped[i].dh = h.dh, s.mkskipped[i].n = h.n
<1>11. CASE h.dh = s.dhr /\ s.ckr # NoChain /\ mk.root = s.ckr.root
  <2>1. s.dhr # NoDh /\ h.n >= s.nr
    BY <1>6, <1>7, <1>9, <1>11 DEF NoDh
  <2>2. s.ckr.n = s.nr
    BY <1>4, <1>11 DEF Sound
  <2>3. SkipMessageKeys(s, h.n).ckr = mk
    BY <1>4, <1>5, <1>6, <1>8, <1>11, <2>1, <2>2, SkipArrives
  <2>4. CASE TooFar(s, h.n)
    <3>1. h.n > s.nr + MaxSkip
      BY <1>6, <1>7, <2>4, RatchetAssumption DEF TooFar
    <3> QED
      BY <1>1, <1>11, <2>1, <3>1
  <2>5. CASE ~TooFar(s, h.n)
    <3>1. RatchetDecrypt(s, h, mk, spare).ok
      BY ONLY <1>10, <1>11, <2>1, <2>3, <2>5, OkOnChain, Zenon
    <3> QED
      BY <1>1, <3>1
  <2> QED
    BY <2>4, <2>5
<1>12. CASE h.dh = st[q].dhs /\ st[q].dhs > s.dhr /\ mk.root = st[q].rk
  <2>1. h.dh # s.dhr /\ st[q].dhs \in Nat
    <3>1. st[q].dhs \in Nat
      BY ONLY <1>4 DEF States
    <3> QED
      BY ONLY <1>6, <1>7, <1>12, <3>1
  <2>2. Ahead(q)
    <3>1. ~Ahead(p)
      BY <1>1, <1>2, <1>7, <1>12, <2>1 DEF Ahead
    <3> QED
      BY <1>2, <3>1 DEF PairInv, Lockstep, Parties
  <2>3. mk.root = KdfRk(s.rk, Dh(s.dhs, h.dh))
    <3>1. st[q].rk = Append(s.rk, Dh(st[q].dhs, s.dhs))
      BY <1>1, <1>2, <2>2 DEF Ahead
    <3>2. Dh(st[q].dhs, s.dhs) = Dh(s.dhs, h.dh)
      BY <1>12 DEF Dh
    <3> QED
      BY ONLY <1>12, <3>1, <3>2, Zenon DEF KdfRk
  <2>4. PICK v, w : v = SkipMessageKeys(s, h.pn) /\ w = DhRatchet(v, h, spare)
    OBVIOUS
  <2>5. v \in States /\ v.rk = s.rk /\ v.dhs = s.dhs
    BY <1>4, <1>6, <2>4, SkipSound DEF Skips
  <2>6. Turns(v, h, spare, w)
    BY <1>4, <1>5, <2>4, <2>5, TurnIs
  <2>7. w \in States /\ w.nr = 0 /\ w.ckr = ChainOf(mk.root)
    BY ONLY <2>3, <2>5, <2>6, Zenon DEF Turns
  <2>8. w.ckr.root = mk.root /\ w.ckr.n = 0 /\ w.ckr # NoChain
    <3>1. mk.root \in Seq(Secrets)
      BY <1>5 DEF Chains
    <3> QED
      BY ONLY <2>7, <3>1, ChainOfIs, Zenon
  <2>9. SkipMessageKeys(w, h.n).ckr = mk
    <3>1. h.n >= w.nr /\ w.ckr.n = w.nr
      BY <1>6, <2>7, <2>8
    <3> QED
      BY <1>5, <1>6, <1>8, <2>7, <2>8, <3>1, SkipArrives
  <2>10. CASE TooFar(s, h.pn)
    BY <1>1, <2>1, <2>10
  <2>11. CASE TooFar(w, h.n)
    <3>1. h.n > 0 + MaxSkip
      BY <1>6, <2>7, <2>11, RatchetAssumption DEF TooFar
    <3> QED
      BY <1>1, <2>1, <3>1
  <2>12. CASE ~TooFar(s, h.pn) /\ ~TooFar(w, h.n)
    <3>1. RatchetDecrypt(s, h, mk, spare).ok
      BY <1>10, <2>1, <2>4, <2>9, <2>12, OkByTurn
    <3> QED
      BY <1>1, <3>1
  <2> QED
    BY <2>10, <2>11, <2>12
<1> QED
  BY <1>9, <1>11, <1>12

(***************************************************************************)
(* Messages decrypt in any order: one the receiver is not past decrypts at *)
(* once, on the chain it has or on the one _dh_ratchet turns to, unless    *)
(* the gap exceeds max_skip.                                               *)
(***************************************************************************)
THEOREM AnyOrderHolds == PairSpec => []AnyOrder
BY NextDecrypts, PairInvariance, PTL

-----------------------------------------------------------------------------
(***************************************************************************)
(* Late messages.  The dict is in the order of the messages, and a key it  *)
(* has lost is older than the MaxSkippedTotal keys it then held.           *)
(***************************************************************************)
Later(a, b) == Len(b.root) < Len(a.root) \/ (a.root = b.root /\ b.n < a.n)

Sorted(s) == \A i, j \in 1 .. Len(s.mkskipped) :
  i < j => Later(s.mkskipped[j].mk, s.mkskipped[i].mk)

Full(s, k) ==
  /\ Len(s.mkskipped) = MaxSkippedTotal
  /\ \A i \in 1 .. Len(s.mkskipped) : Later(s.mkskipped[i].mk, k)

Covered(s, k) == Held(s, k) \/ Full(s, k)

(* What Newest keeps of a sequence in order.                               *)
CutOf(all, limit, q) ==
  /\ \A i, j \in 1 .. Len(q) : i < j => Later(q[j].mk, q[i].mk)
  /\ \A i \in 1 .. Len(q) : \E l \in 1 .. Len(all) : q[i] = all[l]
  /\ \A i \in 1 .. Len(all) :
       \/ \E j \in 1 .. Len(q) : q[j].mk = all[i].mk
       \/ Len(q) = limit /\ \A j \in 1 .. Len(q) : Later(q[j].mk, all[i].mk)
  /\ Len(all) > limit => Len(q) = limit

LEMMA NewestCuts ==
  ASSUME NEW all \in Seq(Entries), NEW limit \in Nat,
         \A i, j \in 1 .. Len(all) : i < j => Later(all[j].mk, all[i].mk)
  PROVE  CutOf(all, limit, Newest(all, limit))
<1>1. PICK q : q = Newest(all, limit)
  OBVIOUS
<1>2. /\ q \in Seq(Entries) /\ Len(q) <= limit
      /\ \E o \in Nat : Len(q) + o = Len(all) /\ \A i \in 1 .. Len(q) : q[i] = all[i + o]
  BY <1>1, NewestIs
<1>3. PICK o \in Nat : Len(q) + o = Len(all) /\ \A i \in 1 .. Len(q) : q[i] = all[i + o]
  BY <1>2
<1>4. PICK c, n : c = Len(q) /\ n = Len(all)
  OBVIOUS
<1>5. c \in Nat /\ n \in Nat /\ c + o = n /\ c <= limit
  BY <1>2, <1>3, <1>4
<1>6. n > limit => c = limit
  <2>1. CASE n > limit
    <3>1. PICK d : d = n - limit
      OBVIOUS
    <3>2. d \in Nat /\ d + limit = n
      BY <1>5, <2>1, <3>1
    <3>3. q = SubSeq(all, d + 1, n)
      BY <1>1, <1>4, <2>1, <3>1 DEF Newest
    <3>4. Len(q) = limit
      BY <1>4, <3>2, <3>3
    <3> QED
      BY <1>4, <3>4
  <2> QED
    BY <2>1
<1>7. o = 0 \/ c = limit
  <2>1. CASE n <= limit
    <3>1. q = all
      BY <1>1, <1>4, <2>1 DEF Newest
    <3>2. c = n
      BY ONLY <1>4, <3>1, Zenon
    <3> QED
      BY <1>5, <3>2
  <2> QED
    BY <1>5, <1>6, <2>1
<1>8. \A i \in 1 .. c : i + o \in 1 .. n /\ q[i] = all[i + o]
  BY <1>3, <1>4, <1>5
<1>9. \A i, j \in 1 .. n : i < j => Later(all[j].mk, all[i].mk)
  BY <1>4
<1>10. ASSUME NEW i \in 1 .. c, NEW j \in 1 .. c, i < j PROVE Later(q[j].mk, q[i].mk)
  <2>1. PICK k, l : k = i + o /\ l = j + o
    OBVIOUS
  <2>2. k < l /\ k \in 1 .. n /\ l \in 1 .. n /\ q[i] = all[k] /\ q[j] = all[l]
    BY <1>5, <1>8, <1>10, <2>1
  <2> QED
    BY ONLY <1>9, <2>2, Zenon
<1>11. ASSUME NEW i \in 1 .. n
       PROVE  \/ \E j \in 1 .. c : q[j].mk = all[i].mk
              \/ c = limit /\ \A j \in 1 .. c : Later(q[j].mk, all[i].mk)
  <2>1. CASE i > o
    <3>1. PICK j : j = i - o
      OBVIOUS
    <3>2. j \in 1 .. c /\ j + o = i
      BY <1>5, <2>1, <3>1
    <3>3. q[j] = all[j + o]
      BY ONLY <1>8, <3>2, Zenon
    <3> QED
      BY ONLY <3>2, <3>3, Zenon
  <2>2. CASE i <= o
    <3>1. c = limit
      BY <1>7, <2>2
    <3>2. ASSUME NEW j \in 1 .. c PROVE Later(q[j].mk, all[i].mk)
      <4>1. PICK l : l = j + o
        OBVIOUS
      <4>2. l \in 1 .. n /\ i < l /\ q[j] = all[l]
        BY <1>5, <1>8, <2>2, <4>1
      <4> QED
        BY ONLY <1>9, <4>2, i \in 1 .. n, Zenon
    <3> QED
      BY <3>1, <3>2
  <2> QED
    BY <1>5, <2>1, <2>2
<1>12. CutOf(all, limit, q)
  BY ONLY <1>4, <1>6, <1>8, <1>10, <1>11, Zenon DEF CutOf
<1> QED
  BY ONLY <1>1, <1>12, Zenon

(* The dict before _skip_message_keys prunes it.                           *)
Grown(s, count, all) ==
  /\ all \in Seq(Entries) /\ Len(all) = Len(s.mkskipped) + count
  /\ \A i \in 1 .. Len(s.mkskipped) : all[i] = s.mkskipped[i]
  /\ \A i \in 1 .. count : /\ all[Len(s.mkskipped) + i].mk.root = s.ckr.root
                           /\ all[Len(s.mkskipped) + i].mk.n = s.nr + i - 1
  /\ \A i, j \in 1 .. Len(all) : i < j => Later(all[j].mk, all[i].mk)

LEMMA SkipGrows ==
  ASSUME NEW s \in States, Sound(s), Sorted(s), s.ckr # NoChain, NEW count \in Nat \ {0}
  PROVE  Grown(s, count, s.mkskipped \o Skipped(s, count))
<1>1. PICK old, new, all : /\ old = s.mkskipped /\ new = Skipped(s, count) /\ all = old \o new
  OBVIOUS
<1>2. s.nr \in Nat /\ s.ckr.n = s.nr /\ s.ckr \in Chains /\ old \in Seq(Entries)
  BY <1>1 DEF States, Sound
<1>3. /\ new \in Seq(Entries) /\ Len(new) = count
      /\ \A i \in 1 .. count : /\ new[i].dh = s.dhr /\ new[i].n = s.nr + i - 1
                               /\ new[i].mk.n = s.nr + i - 1 /\ new[i].mk.root = s.ckr.root
  <2>1. count \in Nat
    OBVIOUS
  <2> QED
    BY ONLY <1>1, <1>2, <2>1, s \in States, SkippedIs, Zenon
<1>4. PICK a : a = Len(old) /\ a \in Nat
  BY <1>2
<1>5. /\ all \in Seq(Entries) /\ Len(all) = a + count
      /\ \A i \in 1 .. a : all[i] = old[i]
      /\ \A i \in 1 .. count : all[a + i] = new[i]
  <2>0. old \in Seq(Entries) /\ new \in Seq(Entries) /\ all = old \o new /\ Len(old) = a /\ Len(new) = count
    BY ONLY <1>1, <1>2, <1>3, <1>4, Zenon
  <2>1. all \in Seq(Entries) /\ Len(all) = a + count
    <3>1. all \in Seq(Entries) /\ Len(all) = Len(old) + Len(new)
      BY ONLY <2>0, ConcatProperties, Zenon
    <3> QED
      BY ONLY <2>0, <3>1, Zenon
  <2>2. \A i \in 1 .. a : all[i] = old[i]
    BY ONLY <2>0
  <2>3. ASSUME NEW i \in 1 .. count PROVE all[a + i] = new[i]
    <3>1. PICK j : j = Len(old) + i
      OBVIOUS
    <3>2. old \in Seq(Entries) /\ new \in Seq(Entries) /\ i \in 1 .. Len(new) /\ all = old \o new
      BY ONLY <1>1, <1>2, <1>3, i \in 1 .. count
    <3>3. all[j] = new[i]
      BY ONLY <3>1, <3>2
    <3> QED
      BY ONLY <1>4, <3>1, <3>3, Zenon
  <2> QED
    BY ONLY <2>1, <2>2, <2>3, Zenon
<1>6. \A i \in 1 .. count : all[a + i].mk.root = s.ckr.root /\ all[a + i].mk.n = s.nr + i - 1
  BY ONLY <1>3, <1>5, Zenon
<1>7. \A i, j \in 1 .. a : i < j => Later(old[j].mk, old[i].mk)
  BY ONLY <1>1, <1>4, Sorted(s), Zenon DEF Sorted
<1>8. \A i \in 1 .. a : Behind(s, old[i].mk)
  BY ONLY <1>1, <1>4, Sound(s), Zenon DEF Sound
<1>9. ASSUME NEW i \in 1 .. a + count, NEW j \in 1 .. a + count, i < j
      PROVE  Later(all[j].mk, all[i].mk)
  <2>1. CASE j <= a
    <3>1. i \in 1 .. a /\ j \in 1 .. a
      BY <1>4, <1>9, <2>1
    <3> QED
      BY ONLY <1>5, <1>7, <1>9, <3>1, Zenon
  <2>2. CASE i > a
    <3>1. PICK x, y : x = i - a /\ y = j - a
      OBVIOUS
    <3>2. x \in 1 .. count /\ y \in 1 .. count /\ a + x = i /\ a + y = j /\ x < y
      BY <1>4, <1>9, <2>2, <3>1
    <3>3. /\ all[i].mk.root = s.ckr.root /\ all[i].mk.n = s.nr + x - 1
          /\ all[j].mk.root = s.ckr.root /\ all[j].mk.n = s.nr + y - 1
      BY ONLY <1>6, <3>2, Zenon
    <3>4. s.nr + x - 1 < s.nr + y - 1
      BY <1>2, <3>2
    <3>5. all[i].mk.n < all[j].mk.n
      BY ONLY <3>3, <3>4, Zenon
    <3> QED
      BY ONLY <3>3, <3>5, Zenon DEF Later
  <2>3. CASE i <= a /\ j > a
    <3>1. PICK y : y = j - a
      OBVIOUS
    <3>2. y \in 1 .. count /\ a + y = j /\ i \in 1 .. a
      BY <1>4, <1>9, <2>3, <3>1
    <3>3. all[j].mk.root = s.ckr.root /\ all[j].mk.n = s.nr + y - 1 /\ all[i] = old[i]
      BY ONLY <1>5, <1>6, <3>2, Zenon
    <3>4. Behind(s, old[i].mk) /\ old[i] \in Entries
      BY <1>2, <1>4, <1>8, <3>2
    <3>5. old[i].mk.n \in Int
      BY ONLY <3>4 DEF Entries, Chains
    <3>6. old[i].mk.n < s.ckr.n => old[i].mk.n < s.nr + y - 1
      BY <1>2, <3>2, <3>5
    <3>7. old[i].mk.n < s.ckr.n => old[i].mk.n < all[j].mk.n
      BY ONLY <3>3, <3>6, Zenon
    <3> QED
      BY ONLY <3>3, <3>4, <3>7, Zenon DEF Later, Behind
  <2> QED
    BY <1>4, <2>1, <2>2, <2>3
<1>10. Grown(s, count, all)
  BY ONLY <1>1, <1>4, <1>5, <1>6, <1>9, Zenon DEF Grown
<1> QED
  BY ONLY <1>1, <1>10, Zenon

(* _skip_message_keys keeps the dict in order, adds only keys of the chain *)
(* from nr on, and loses a key only to MaxSkippedTotal later ones.         *)
SkipKeeps(s, until, t) ==
  /\ Sorted(t)
  /\ \A k \in Chains : Held(t, k) =>
       Held(s, k) \/ (s.ckr # NoChain /\ k.root = s.ckr.root /\ s.nr <= k.n /\ k.n < until)
  /\ \A k \in Chains : Behind(t, k) /\ (Behind(s, k) => Covered(s, k)) => Covered(t, k)

LEMMA SkipCovers ==
  ASSUME NEW s \in States, Sound(s), Sorted(s), NEW until \in Nat
  PROVE  SkipKeeps(s, until, SkipMessageKeys(s, until))
<1>1. PICK t : t = SkipMessageKeys(s, until)
  OBVIOUS
<1>2. s.ckr \in Chains /\ s.nr \in Nat
  BY DEF States
<1>3. CASE s.ckr = NoChain \/ until <= s.nr
  <2>1. t = s
    BY <1>1, <1>3 DEF SkipMessageKeys
  <2> QED
    BY ONLY <1>1, <2>1, Sorted(s), Zenon DEF SkipKeeps
<1>4. CASE ~(s.ckr = NoChain \/ until <= s.nr)
  <2>1. PICK count : count = until - s.nr
    OBVIOUS
  <2>2. count \in Nat \ {0} /\ until = s.nr + count /\ s.ckr # NoChain /\ s.ckr.n = s.nr
    BY <1>2, <1>4, <2>1 DEF Sound
  <2>3. PICK all, q : /\ all = s.mkskipped \o Skipped(s, count)
                      /\ q = Newest(s.mkskipped \o Skipped(s, count), MaxSkippedTotal)
    OBVIOUS
  <2>4. Grown(s, count, all)
    BY ONLY <2>2, <2>3, s \in States, Sound(s), Sorted(s), SkipGrows, Zenon
  <2>5. CutOf(all, MaxSkippedTotal, q)
    <3>1. all \in Seq(Entries) /\ \A i, j \in 1 .. Len(all) : i < j => Later(all[j].mk, all[i].mk)
      BY ONLY <2>4, Zenon DEF Grown
    <3>2. CutOf(all, MaxSkippedTotal, Newest(all, MaxSkippedTotal))
      BY <3>1, NewestCuts, RatchetAssumption
    <3> QED
      BY ONLY <2>3, <3>2, Zenon
  <2>6. t.mkskipped = q /\ t.ckr.root = s.ckr.root /\ t.ckr.n = until
    <3>1. t = [s EXCEPT !.mkskipped = q, !.ckr.n = @ + count, !.nr = until]
      BY <1>1, <1>4, <2>1, <2>3 DEF SkipMessageKeys, Skipped
    <3>2. t.mkskipped = q /\ t.ckr = [s.ckr EXCEPT !.n = @ + count]
      BY ONLY <3>1, s \in States DEF States
    <3> QED
      BY ONLY <1>2, <2>2, <3>2 DEF Chains
  <2>7. PICK a : a = Len(s.mkskipped) /\ a \in Nat
    <3>1. s.mkskipped \in Seq(Entries)
      BY DEF States
    <3> QED
      BY <3>1
  <2>8. Len(all) = a + count
    BY ONLY <2>4, <2>7, Zenon DEF Grown
  <2>9. Sorted(t)
    BY ONLY <2>5, <2>6, Zenon DEF CutOf, Sorted
  <2>10. ASSUME NEW l \in 1 .. Len(all)
         PROVE  \/ Held(s, all[l].mk)
                \/ all[l].mk.root = s.ckr.root /\ s.nr <= all[l].mk.n /\ all[l].mk.n < until
    <3>1. CASE l <= a
      <4>1. l \in 1 .. a
        BY <2>7, <3>1
      <4>2. all[l] = s.mkskipped[l]
        BY ONLY <2>4, <2>7, <4>1, Zenon DEF Grown
      <4> QED
        BY ONLY <2>7, <4>1, <4>2, Zenon DEF Held
    <3>2. CASE l > a
      <4>1. PICK x : x = l - a
        OBVIOUS
      <4>2. x \in 1 .. count /\ a + x = l
        BY <2>2, <2>7, <2>8, <3>2, <4>1
      <4>3. all[l].mk.root = s.ckr.root /\ all[l].mk.n = s.nr + x - 1
        BY ONLY <2>4, <2>7, <4>2, Zenon DEF Grown
      <4>4. s.nr <= s.nr + x - 1 /\ s.nr + x - 1 < until
        BY <1>2, <2>2, <4>2
      <4> QED
        BY ONLY <4>3, <4>4, Zenon
    <3> QED
      BY <2>7, <2>8, <3>1, <3>2
  <2>11. ASSUME NEW k \in Chains, Held(t, k)
         PROVE  Held(s, k) \/ (s.ckr # NoChain /\ k.root = s.ckr.root /\ s.nr <= k.n /\ k.n < until)
    <3>1. PICK i \in 1 .. Len(q) : q[i].mk = k
      BY ONLY <2>6, <2>11, Zenon DEF Held
    <3>2. PICK l \in 1 .. Len(all) : q[i] = all[l]
      BY ONLY <2>5, <3>1, Zenon DEF CutOf
    <3> QED
      BY ONLY <2>2, <2>10, <3>1, <3>2, Zenon
  <2>12. \A i \in 1 .. Len(all) : Covered(t, all[i].mk)
    BY ONLY <2>5, <2>6, Zenon DEF CutOf, Covered, Held, Full
  <2>13. ASSUME NEW k \in Chains, Behind(t, k), Behind(s, k) => Covered(s, k)
         PROVE  Covered(t, k)
    <3>1. CASE ~Behind(s, k)
      <4>1. k.root = s.ckr.root /\ k.n < until /\ ~(k.n < s.nr)
        BY ONLY <2>2, <2>6, <2>13, <3>1, Zenon DEF Behind
      <4>2. k.n \in Int
        BY DEF Chains
      <4>3. PICK x : x = k.n - s.nr + 1
        OBVIOUS
      <4>4. x \in 1 .. count /\ s.nr + x - 1 = k.n
        BY <1>2, <2>2, <4>1, <4>2, <4>3
      <4>5. all[a + x].mk.root = s.ckr.root /\ all[a + x].mk.n = s.nr + x - 1
        BY ONLY <2>4, <2>7, <4>4, Zenon DEF Grown
      <4>6. a + x \in 1 .. Len(all)
        BY <2>2, <2>7, <2>8, <4>4
      <4>7. all[a + x] \in Entries
        <5>1. all \in Seq(Entries)
          BY ONLY <2>4, Zenon DEF Grown
        <5> QED
          BY ONLY <4>6, <5>1
      <4>8. all[a + x].mk \in Chains
        BY ONLY <4>7 DEF Entries
      <4>9. all[a + x].mk = k
        BY ONLY <4>1, <4>4, <4>5, <4>8, k \in Chains DEF Chains
      <4> QED
        BY ONLY <2>12, <4>6, <4>9, Zenon
    <3>2. CASE Held(s, k)
      <4>1. PICK i \in 1 .. a : s.mkskipped[i].mk = k
        BY ONLY <2>7, <3>2, Zenon DEF Held
      <4>2. all[i].mk = k /\ i \in 1 .. Len(all)
        <5>1. all[i] = s.mkskipped[i]
          BY ONLY <2>4, <2>7, <4>1, Zenon DEF Grown
        <5> QED
          BY <2>2, <2>7, <2>8, <4>1, <5>1
      <4> QED
        BY ONLY <2>12, <4>2, Zenon
    <3>3. CASE Behind(s, k) /\ Full(s, k)
      <4>1. a = MaxSkippedTotal /\ Len(all) > MaxSkippedTotal
        <5>1. a = MaxSkippedTotal
          BY ONLY <2>7, <3>3, Zenon DEF Full
        <5> QED
          BY <2>2, <2>7, <2>8, <5>1
      <4>2. Len(q) = MaxSkippedTotal
        BY ONLY <2>5, <4>1, Zenon DEF CutOf
      <4>3. ASSUME NEW i \in 1 .. Len(q) PROVE Later(q[i].mk, k)
        <5>1. PICK l \in 1 .. Len(all) : q[i] = all[l]
          BY ONLY <2>5, <4>3, Zenon DEF CutOf
        <5>2. CASE l <= a
          <6>1. l \in 1 .. a
            BY <2>7, <5>2
          <6>2. all[l] = s.mkskipped[l]
            BY ONLY <2>4, <2>7, <6>1, Zenon DEF Grown
          <6> QED
            BY ONLY <2>7, <3>3, <5>1, <6>1, <6>2, Zenon DEF Full
        <5>3. CASE l > a
          <6>1. PICK x : x = l - a
            OBVIOUS
          <6>2. x \in 1 .. count /\ a + x = l
            BY <2>2, <2>7, <2>8, <5>3, <6>1
          <6>3. all[l].mk.root = s.ckr.root /\ all[l].mk.n = s.nr + x - 1
            BY ONLY <2>4, <2>7, <6>2, Zenon DEF Grown
          <6>4. k.n \in Int
            BY DEF Chains
          <6>5. k.n < s.ckr.n => k.n < s.nr + x - 1
            BY <1>2, <2>2, <6>2, <6>4
          <6>6. k.n < s.ckr.n => k.n < all[l].mk.n
            BY ONLY <6>3, <6>5, Zenon
          <6> QED
            BY ONLY <3>3, <5>1, <6>3, <6>6, Zenon DEF Behind, Later
        <5> QED
          BY <2>7, <2>8, <5>2, <5>3
      <4> QED
        BY ONLY <2>6, <4>2, <4>3, Zenon DEF Covered, Full
    <3> QED
      BY ONLY <2>13, <3>1, <3>2, <3>3, Zenon DEF Covered
  <2>14. SkipKeeps(s, until, t)
    BY ONLY <2>9, <2>11, <2>13, Zenon DEF SkipKeeps
  <2> QED
    BY ONLY <1>1, <2>14, Zenon
<1> QED
  BY <1>3, <1>4

(* A key that is taken out of the dict leaves the others.                  *)
PopKeeps(s, i, t) ==
  /\ Sorted(t)
  /\ \A k \in Chains : Held(s, k) /\ k # s.mkskipped[i].mk => Held(t, k)

LEMMA PopSorted ==
  ASSUME NEW s \in States, Sorted(s), NEW i \in 1 .. Len(s.mkskipped)
  PROVE  PopKeeps(s, i, [s EXCEPT !.mkskipped = PopSkipped(@, i)])
<1>1. PICK t, q, d : /\ t = [s EXCEPT !.mkskipped = PopSkipped(@, i)]
                     /\ q = s.mkskipped /\ d = DropAt(s.mkskipped, i)
  OBVIOUS
<1>2. q \in Seq(Entries) /\ i \in 1 .. Len(q) /\ d = DropAt(q, i)
  BY <1>1 DEF States
<1>3. PICK n : n = Len(q) /\ n \in Nat /\ i \in 1 .. n
  BY <1>2
<1>4. /\ Len(d) = n - 1
      /\ \A j \in 1 .. n - 1 : d[j] = IF j < i THEN q[j] ELSE q[j + 1]
  <2>1. /\ DropAt(q, i) \in Seq(Entries) /\ Len(DropAt(q, i)) = Len(q) - 1
        /\ \A j \in 1 .. Len(q) - 1 : DropAt(q, i)[j] = IF j < i THEN q[j] ELSE q[j + 1]
    BY ONLY <1>2, DropIs, Zenon
  <2> QED
    BY ONLY <1>2, <1>3, <2>1, Zenon
<1>5. t.mkskipped = d
  BY <1>1 DEF States, PopSkipped
<1>6. \A x, y \in 1 .. n : x < y => Later(q[y].mk, q[x].mk)
  BY ONLY <1>1, <1>3, Sorted(s), Zenon DEF Sorted
<1>7. ASSUME NEW x \in 1 .. n - 1, NEW y \in 1 .. n - 1, x < y PROVE Later(d[y].mk, d[x].mk)
  <2>1. PICK a, b : a = (IF x < i THEN x ELSE x + 1) /\ b = (IF y < i THEN y ELSE y + 1)
    OBVIOUS
  <2>2. a \in 1 .. n /\ b \in 1 .. n /\ a < b
    BY <1>3, <1>7, <2>1
  <2>3. d[x] = q[a] /\ d[y] = q[b]
    BY <1>4, <2>1
  <2> QED
    BY ONLY <1>6, <2>2, <2>3, Zenon
<1>8. ASSUME NEW k \in Chains, Held(s, k), k # q[i].mk PROVE Held(t, k)
  <2>1. PICK x \in 1 .. n : q[x].mk = k
    BY ONLY <1>1, <1>3, <1>8, Zenon DEF Held
  <2>2. x # i
    BY <1>8, <2>1
  <2>3. PICK y : y = IF x < i THEN x ELSE x - 1
    OBVIOUS
  <2>4. y \in 1 .. n - 1 /\ (IF y < i THEN y ELSE y + 1) = x
    BY <1>3, <2>2, <2>3
  <2>5. d[y] = q[x]
    BY <1>4, <2>4
  <2> QED
    BY ONLY <1>4, <1>5, <2>1, <2>4, <2>5, Zenon DEF Held
<1>9. PopKeeps(s, i, t)
  BY ONLY <1>1, <1>4, <1>5, <1>7, <1>8, Zenon DEF PopKeeps, Sorted
<1> QED
  BY ONLY <1>1, <1>9, Zenon

(* A message of the chain is decrypted.                                    *)
ChainKeeps(s, n, mk, t) ==
  /\ Sorted(t)
  /\ \A k \in Chains : Held(t, k) =>
       Held(s, k) \/ (k.root = s.ckr.root /\ s.nr <= k.n /\ k.n < n)
  /\ \A k \in Chains : k # mk /\ Behind(t, k) /\ (Behind(s, k) => Covered(s, k)) => Covered(t, k)
  /\ \A k \in Chains : Behind(s, k) => Behind(t, k)

LEMMA OnChainKeeps ==
  ASSUME NEW s \in States, Sound(s), Sorted(s), s.ckr # NoChain, NEW n \in Nat, NEW mk \in Chains,
         NEW t, OnChain(s, n, mk, t)
  PROVE  ChainKeeps(s, n, mk, t)
<1>1. PICK u : u = SkipMessageKeys(s, n)
  OBVIOUS
<1>2. Skips(s, n, u) /\ SkipKeeps(s, n, u)
  BY ONLY <1>1, s \in States, Sound(s), Sorted(s), n \in Nat, SkipSound, SkipCovers, Zenon
<1>3. u.ckr = mk /\ t = Advance(u)
  BY <1>1 DEF OnChain
<1>4. u \in States /\ Sound(u) /\ u.ckr # NoChain
  BY <1>2 DEF Skips
<1>5. Advances(u, t)
  BY <1>3, <1>4, AdvanceSound
<1>6. t.mkskipped = u.mkskipped /\ t.ckr.root = u.ckr.root
  BY <1>5 DEF Advances
<1>7. t.ckr.n = mk.n + 1 /\ mk.n \in Int
  <2>1. t.nr = u.nr + 1 /\ t \in States /\ Sound(t) /\ t.ckr # NoChain
    BY <1>5 DEF Advances
  <2>2. t.ckr.n = t.nr /\ u.ckr.n = u.nr
    BY <1>4, <2>1 DEF Sound
  <2>3. mk.n \in Int
    BY DEF Chains
  <2> QED
    BY <1>3, <2>1, <2>2, <2>3
<1>8. \A k : (Held(t, k) <=> Held(u, k)) /\ (Covered(t, k) <=> Covered(u, k))
  BY ONLY <1>6, Zenon DEF Held, Covered, Full
<1>9. Sorted(t)
  BY ONLY <1>2, <1>6, Zenon DEF Sorted, SkipKeeps
<1>10. ASSUME NEW k \in Chains, k # mk, Behind(t, k) PROVE Behind(u, k)
  <2>1. CASE Len(k.root) < Len(t.ckr.root)
    BY ONLY <1>6, <2>1, Zenon DEF Behind
  <2>2. CASE k.root = t.ckr.root /\ k.n < t.ckr.n
    <3>1. k.n \in Int
      BY DEF Chains
    <3>2. k.n # mk.n
      BY ONLY <1>3, <1>6, <1>10, <2>2, k \in Chains, mk \in Chains DEF Chains
    <3>3. k.n < mk.n
      BY <1>7, <2>2, <3>1, <3>2
    <3> QED
      BY ONLY <1>3, <1>6, <2>2, <3>3, Zenon DEF Behind
  <2> QED
    BY <1>10, <2>1, <2>2 DEF Behind
<1>11. \A k \in Chains : Behind(s, k) => Behind(t, k)
  BY ONLY <1>2, <1>5, Zenon DEF Skips, Advances
<1> QED
  BY ONLY <1>2, <1>8, <1>9, <1>10, <1>11, Zenon DEF ChainKeeps, SkipKeeps

(* What ratchet_decrypt of a message mk puts into the dict, and that it    *)
(* loses no other key that was passed except to later ones.                *)
LeftBehind(s, h, k) ==
  s.ckr # NoChain /\ ((k.root = s.ckr.root /\ k.n < h.pn) \/ Len(k.root) < Len(s.ckr.root))

DecryptKeeps(s, h, mk, t) ==
  /\ Sorted(t)
  /\ \A k \in Chains : Held(t, k) =>
       \/ Held(s, k)
       \/ k.root = mk.root /\ 0 <= k.n /\ k.n < h.n
       \/ /\ t.dhr # s.dhr /\ s.ckr # NoChain
          /\ k.root = s.ckr.root /\ 0 <= k.n /\ k.n < h.pn
  /\ \A k \in Chains :
       /\ k # mk /\ 0 <= k.n /\ Behind(t, k)
       /\ Behind(s, k) => Held(s, k)
       /\ t.dhr # s.dhr /\ Len(k.root) < Len(mk.root) => LeftBehind(s, h, k)
       => Covered(t, k)
  /\ \/ t.nr = s.nr /\ t.ckr.root = s.ckr.root
     \/ t.nr = mk.n + 1 /\ t.ckr.root = mk.root
  /\ \A k \in Chains : Behind(s, k) => Behind(t, k)

LEMMA DecryptCovers ==
  ASSUME NEW s \in States, Sound(s), Sorted(s), NEW h \in Headers, NEW mk \in Chains, NEW dh \in Nat,
         h.dh # NoDh, h.dh = s.dhr => s.ckr # NoChain,
         h.dh < s.dhr => Len(mk.root) <= Len(s.rk),
         RatchetDecrypt(s, h, mk, dh).ok,
         NEW t, t = RatchetDecrypt(s, h, mk, dh).state
  PROVE  DecryptKeeps(s, h, mk, t)
<1>1. \/ ByPop(s, mk, t)
      \/ h.dh = s.dhr /\ OnChain(s, h.n, mk, t)
      \/ h.dh # s.dhr /\ ByTurn(s, h, mk, dh, t)
  BY DecryptCases
<1>0. h.pn \in Nat /\ h.n \in Nat /\ h.dh \in Nat /\ s.dhr \in Nat /\ s.nr \in Nat
  BY DEF Headers, States
<1>2. CASE ByPop(s, mk, t)
  <2>1. PICK i \in 1 .. Len(s.mkskipped) :
          s.mkskipped[i].mk = mk /\ t = [s EXCEPT !.mkskipped = PopSkipped(@, i)]
    BY <1>2 DEF ByPop
  <2>2. Pops(s, i, t) /\ PopKeeps(s, i, t)
    BY ONLY <2>1, s \in States, Sound(s), Sorted(s), PopSound, PopSorted, Zenon
  <2>3. \A k : Behind(t, k) <=> Behind(s, k)
    BY ONLY <2>2, Zenon DEF Pops, Behind
  <2> QED
    BY ONLY <2>1, <2>2, <2>3, Zenon DEF DecryptKeeps, Pops, PopKeeps, Covered
<1>3. CASE h.dh = s.dhr /\ OnChain(s, h.n, mk, t)
  <2>1. ChainKeeps(s, h.n, mk, t)
    BY <1>0, <1>3, OnChainKeeps
  <2>2. mk.root = s.ckr.root
    <3>1. SkipMessageKeys(s, h.n).ckr.root = s.ckr.root
      BY <1>0, SkipRoot
    <3>2. SkipMessageKeys(s, h.n).ckr = mk
      BY <1>3 DEF OnChain
    <3> QED
      BY ONLY <3>1, <3>2, Zenon
  <2>3. ASSUME NEW k \in Chains, Held(t, k)
        PROVE  Held(s, k) \/ (k.root = mk.root /\ 0 <= k.n /\ k.n < h.n)
    <3>1. Held(s, k) \/ (k.root = s.ckr.root /\ s.nr <= k.n /\ k.n < h.n)
      BY ONLY <2>1, <2>3, Zenon DEF ChainKeeps
    <3>2. k.n \in Int
      BY DEF Chains
    <3>3. s.nr <= k.n => 0 <= k.n
      BY <1>0, <3>2
    <3> QED
      BY ONLY <2>2, <3>1, <3>3, Zenon
  <2>4. t.nr = mk.n + 1 /\ t.ckr.root = mk.root
    BY <1>0, <1>3, <2>2, OnChainSound DEF SameChain
  <2> QED
    BY ONLY <2>1, <2>3, <2>4, Zenon DEF DecryptKeeps, ChainKeeps, Covered
<1>4. CASE h.dh # s.dhr /\ ByTurn(s, h, mk, dh, t)
  <2>1. PICK v, w : v = SkipMessageKeys(s, h.pn) /\ w = DhRatchet(v, h, dh)
    OBVIOUS
  <2>3. Skips(s, h.pn, v) /\ SkipKeeps(s, h.pn, v)
    BY ONLY <1>0, <2>1, s \in States, Sound(s), Sorted(s), SkipSound, SkipCovers, Zenon
  <2>4. v \in States /\ Sound(v) /\ v.rk = s.rk /\ v.dhs = s.dhs /\ v.dhr = s.dhr
        /\ v.ckr.root = s.ckr.root /\ (v.ckr = NoChain <=> s.ckr = NoChain)
        /\ v.nr = IF s.ckr = NoChain \/ h.pn <= s.nr THEN s.nr ELSE h.pn
    BY <2>3 DEF Skips
  <2>5. Turns(v, h, dh, w)
    BY <2>1, <2>4, TurnIs
  <2>6. w \in States /\ OnChain(w, h.n, mk, t)
    BY <1>4, <2>1, <2>5 DEF Turns, ByTurn
  <2>7. PICK r : r = KdfRk(s.rk, Dh(s.dhs, h.dh))
    OBVIOUS
  <2>8. s.rk \in Seq(Secrets) /\ s.dhs \in Nat
    BY DEF States
  <2>9. r \in Seq(Secrets) /\ Len(r) = Len(s.rk) + 1 /\ Len(s.rk) \in Nat
    BY <1>0, <2>7, <2>8, AppendRoot, DhType
  <2>10. w.ckr = ChainOf(r)
    BY <2>4, <2>5, <2>7 DEF Turns
  <2>11. w.ckr.root = r /\ w.ckr # NoChain /\ w.ckr.n = 0
    BY <2>9, <2>10, ChainOfIs
  <2>12. mk.root = r
    <3>1. SkipMessageKeys(w, h.n).ckr.root = w.ckr.root
      BY <1>0, <2>6, SkipRoot
    <3>2. SkipMessageKeys(w, h.n).ckr = mk
      BY <2>6 DEF OnChain
    <3> QED
      BY ONLY <2>11, <3>1, <3>2, Zenon
  <2>13. h.dh > s.dhr
    BY <1>0, <1>4, <2>9, <2>12
  <2>14. Sound(w)
    BY <2>4, <2>5, <2>13, TurnSound
  <2>15. w.mkskipped = v.mkskipped /\ w.dhr = h.dh /\ w.nr = 0
    BY <2>5 DEF Turns
  <2>16. \A k : (Held(w, k) <=> Held(v, k)) /\ (Covered(w, k) <=> Covered(v, k))
    BY ONLY <2>15, Zenon DEF Held, Covered, Full
  <2>17. Sorted(w)
    BY ONLY <2>3, <2>15, Zenon DEF Sorted, SkipKeeps
  <2>18. ChainKeeps(w, h.n, mk, t) /\ SameChain(w, mk, t) /\ t.nr = mk.n + 1
    BY <1>0, <2>6, <2>11, <2>14, <2>17, OnChainKeeps, OnChainSound
  <2>19. t.dhr # s.dhr
    BY <1>4, <2>15, <2>18 DEF SameChain
  <2>20. ASSUME NEW k \in Chains, Held(t, k)
         PROVE  \/ Held(s, k)
                \/ k.root = mk.root /\ 0 <= k.n /\ k.n < h.n
                \/ /\ t.dhr # s.dhr /\ s.ckr # NoChain
                   /\ k.root = s.ckr.root /\ 0 <= k.n /\ k.n < h.pn
    <3>1. Held(w, k) \/ (k.root = w.ckr.root /\ w.nr <= k.n /\ k.n < h.n)
      BY ONLY <2>18, <2>20, Zenon DEF ChainKeeps
    <3>2. Held(v, k) => Held(s, k) \/ (s.ckr # NoChain /\ k.root = s.ckr.root /\ s.nr <= k.n /\ k.n < h.pn)
      BY ONLY <2>3, k \in Chains, Zenon DEF SkipKeeps
    <3>3. k.n \in Int
      BY DEF Chains
    <3>4. s.nr <= k.n => 0 <= k.n
      BY <1>0, <3>3
    <3> QED
      BY ONLY <2>11, <2>12, <2>15, <2>16, <2>19, <3>1, <3>2, <3>4, Zenon
  <2>21. ASSUME NEW k \in Chains, k # mk, 0 <= k.n, Behind(t, k), Behind(s, k) => Held(s, k),
                Len(k.root) < Len(mk.root) => LeftBehind(s, h, k)
         PROVE  Covered(t, k)
    <3>1. k.n \in Int
      BY DEF Chains
    <3>2. Behind(w, k) => Behind(v, k)
      <4>1. ~(k.n < w.ckr.n)
        BY <2>11, <2>21, <3>1
      <4>2. Behind(w, k) => LeftBehind(s, h, k)
        BY ONLY <2>11, <2>12, <2>21, <4>1, Zenon DEF Behind
      <4>3. s.ckr # NoChain => v.ckr.n = v.nr
        BY <2>4 DEF Sound
      <4>4. s.ckr # NoChain /\ k.n < h.pn => k.n < v.ckr.n
        BY <1>0, <2>4, <3>1, <4>3
      <4> QED
        BY ONLY <2>4, <4>2, <4>4, Zenon DEF Behind, LeftBehind
    <3>3. Behind(v, k) => Covered(v, k)
      BY ONLY <2>3, <2>21, Zenon DEF SkipKeeps, Covered
    <3>4. Behind(w, k) => Covered(w, k)
      BY ONLY <2>16, <3>2, <3>3, Zenon
    <3> QED
      BY ONLY <2>18, <2>21, <3>4, Zenon DEF ChainKeeps
  <2>22. Sorted(t)
    BY ONLY <2>18, Zenon DEF ChainKeeps
  <2>23. t.nr = mk.n + 1 /\ t.ckr.root = mk.root
    BY <2>11, <2>12, <2>18 DEF SameChain
  <2>24. ASSUME NEW k \in Chains, Behind(s, k) PROVE Behind(t, k)
    <3>1. s.ckr \in Chains
      BY DEF States
    <3>2. Len(k.root) \in Nat /\ Len(s.ckr.root) \in Nat
      BY ONLY <3>1, k \in Chains DEF Chains
    <3>3. Len(k.root) <= Len(s.ckr.root)
      BY ONLY <2>24, <3>2 DEF Behind
    <3>4. Len(s.ckr.root) <= Len(s.rk)
      BY <2>9, <3>2, NoChainType DEF Sound
    <3>5. Len(k.root) < Len(r)
      BY ONLY <2>9, <3>2, <3>3, <3>4
    <3> QED
      BY ONLY <2>12, <2>23, <3>5, Zenon DEF Behind
  <2> QED
    BY ONLY <2>19, <2>20, <2>21, <2>22, <2>23, <2>24, Zenon DEF DecryptKeeps
<1> QED
  BY <1>1, <1>2, <1>3, <1>4

(***************************************************************************)
(* The second invariant.  A sender leaves no gap in a chain, and tells in  *)
(* pn how long the chain before was; the receiver is not ahead of it.  So  *)
(* each key in the dict belongs to a message that was sent.                *)
(***************************************************************************)
Stored(p) == \A i \in 1 .. Len(st[p].mkskipped) :
  \E x \in ToParty(p) : x.mk = st[p].mkskipped[i].mk

Unbroken(p) ==
  /\ \A m \in SentBy(p) : \A k \in Nat : k < m.mk.n =>
       \E x \in SentBy(p) : x.mk.root = m.mk.root /\ x.mk.n = k
  /\ \A k \in Nat : k < st[p].ns =>
       \E x \in SentBy(p) : x.mk.root = st[p].rk /\ x.mk.n = k
  /\ \A k \in Nat : k < st[p].pn =>
       \E x \in SentBy(p) : Len(x.mk.root) + 2 = Len(st[p].rk) /\ x.mk.n = k
  /\ \A m \in SentBy(p) :
       /\ m.mk.root = st[p].rk => m.header.pn = st[p].pn
       /\ Len(m.mk.root) + 2 = Len(st[p].rk) => m.mk.n < st[p].pn
  /\ \A x, y \in SentBy(p) : Later(y.mk, x.mk) => x.id < y.id

NotAhead(p) == st[p].ckr.root = st[Peer(p)].rk => st[p].nr <= st[Peer(p)].ns

Younger(p, m) == {y \in ToParty(p) : y.id > m.id /\ Behind(st[p], y.mk)}

Kept(p) == \A m \in Undelivered(p) : Behind(st[p], m.mk) =>
  Held(st[p], m.mk) \/ Cardinality(Younger(p, m)) >= MaxSkippedTotal

JInv == \A p \in Parties :
  Sorted(st[p]) /\ Stored(p) /\ Unbroken(p) /\ NotAhead(p) /\ Kept(p)

LEMMA FullCounts ==
  ASSUME NEW s \in States, Sound(s), NEW S, IsFiniteSet(S), NEW m \in S, Full(s, m.mk),
         \A i \in 1 .. Len(s.mkskipped) : \E x \in S : x.mk = s.mkskipped[i].mk,
         \A x, y \in S : Later(y.mk, x.mk) => x.id < y.id,
         \A x \in S : x.id \in Nat
  PROVE  Cardinality({y \in S : y.id > m.id /\ Behind(s, y.mk)}) >= MaxSkippedTotal
<1>1. PICK Y : Y = {y \in S : y.id > m.id /\ Behind(s, y.mk)}
  OBVIOUS
<1>2. IsFiniteSet(Y) /\ Cardinality(Y) \in Nat
  <2>1. Y \in SUBSET S
    BY <1>1
  <2> QED
    BY <2>1, FS_Subset, FS_CardinalityType
<1>3. PICK q, n : q = s.mkskipped /\ n = MaxSkippedTotal
  OBVIOUS
<1>4. /\ Len(q) = n
      /\ \A i \in 1 .. n : Later(q[i].mk, m.mk)
  BY ONLY <1>3, Full(s, m.mk), Zenon DEF Full
<1>5. /\ \A i \in 1 .. n : Behind(s, q[i].mk)
      /\ \A i, j \in 1 .. n : q[i].mk = q[j].mk => i = j
  BY ONLY <1>3, <1>4, Sound(s), Zenon DEF Sound
<1>6. \A i \in 1 .. n : \E x \in S : x.mk = q[i].mk
  BY <1>3, <1>4
<1>7. PICK f : f = [i \in 1 .. n |-> CHOOSE x \in S : x.mk = q[i].mk]
  OBVIOUS
<1>8. \A i \in 1 .. n : f[i] \in S /\ f[i].mk = q[i].mk
  BY <1>6, <1>7
<1>9. ASSUME NEW i \in 1 .. n PROVE f[i] \in Y
  <2>1. f[i] \in S /\ f[i].mk = q[i].mk
    BY <1>8
  <2>2. Later(f[i].mk, m.mk) /\ Behind(s, f[i].mk)
    BY ONLY <1>4, <1>5, <2>1, i \in 1 .. n, Zenon
  <2>3. m.id < f[i].id
    BY <2>1, <2>2
  <2>4. f[i].id > m.id
    BY <2>1, <2>3
  <2> QED
    BY ONLY <1>1, <2>1, <2>2, <2>4
<1>10. f \in [1 .. n -> Y]
  BY <1>7, <1>9
<1>11. \A i, j \in 1 .. n : f[i] = f[j] => i = j
  BY ONLY <1>5, <1>8, Zenon
<1>12. Cardinality(1 .. n) <= Cardinality(Y)
  <2>1. f \in Injection(1 .. n, Y)
    BY ONLY <1>10, <1>11 DEF Injection, IsInjective
  <2> QED
    BY <1>2, <2>1, FS_Injection
<1>13. n \in Nat /\ Cardinality(1 .. n) = n
  BY <1>3, RatchetAssumption, FS_Interval
<1>14. Cardinality(Y) >= MaxSkippedTotal
  BY <1>2, <1>3, <1>12, <1>13
<1> QED
  BY ONLY <1>1, <1>14, Zenon

(* A message is passed when its key is behind the receiving chain.         *)
LEMMA PassedIs ==
  ASSUME PairInv, NEW p \in Parties, NEW x \in ToParty(p)
  PROVE  Passed(p, x) <=> Behind(st[p], x.mk)
<1>1. PICK q, s : q = Peer(p) /\ s = st[p]
  OBVIOUS
<1>2. q \in Parties /\ Peer(q) = p /\ x \in SentBy(q) /\ x \in net
  BY <1>1, PeerIs DEF ToParty, SentBy
<1>3. s \in States /\ st[q] \in States /\ Sound(s) /\ x \in Messages
  BY <1>1, <1>2 DEF PairInv, Types
<1>4. Hears(s, st[q], x) /\ x.mk.n = x.header.n
  BY <1>1, <1>2 DEF PairInv, Heard, Sends
<1>5. /\ x.header \in Headers /\ x.mk \in Chains /\ s.dhr \in Nat /\ s.nr \in Nat /\ s.rk \in Seq(Secrets)
      /\ s.dhs \in Nat /\ st[q].dhs \in Nat /\ s.ckr \in Chains
  BY ONLY <1>3 DEF Messages, States
<1>6. x.header.dh \in Nat /\ x.header.n \in Nat /\ x.mk.root \in Seq(Secrets) /\ s.ckr.root \in Seq(Secrets)
  BY ONLY <1>5 DEF Headers, Chains
<1>7. Len(x.mk.root) \in Nat /\ Len(s.ckr.root) \in Nat /\ Len(s.rk) \in Nat
  BY ONLY <1>5, <1>6
<1>8. CASE x.header.dh < s.dhr /\ s.ckr # NoChain /\ Len(x.mk.root) < Len(s.ckr.root)
  BY ONLY <1>1, <1>8, Zenon DEF Passed, Behind
<1>9. CASE x.header.dh = s.dhr /\ s.ckr # NoChain /\ x.mk.root = s.ckr.root
  <2>1. s.ckr.n = s.nr
    BY <1>3, <1>9 DEF Sound
  <2>2. ~(x.header.dh < s.dhr) /\ ~(Len(x.mk.root) < Len(s.ckr.root))
    BY ONLY <1>5, <1>7, <1>9
  <2> QED
    BY ONLY <1>1, <1>4, <1>9, <2>1, <2>2, Zenon DEF Passed, Behind
<1>10. CASE x.header.dh = st[q].dhs /\ st[q].dhs > s.dhr /\ x.mk.root = st[q].rk
  <2>1. ~Passed(p, x)
    BY ONLY <1>1, <1>5, <1>6, <1>10 DEF Passed
  <2>2. Ahead(q)
    <3>1. ~Ahead(p)
      BY <1>1, <1>5, <1>10 DEF Ahead
    <3> QED
      BY <1>1, <1>2, <3>1, PeerIs DEF PairInv, Lockstep, Parties
  <2>3. Len(x.mk.root) = Len(s.rk) + 1
    <3>1. st[q].rk = KdfRk(s.rk, Dh(st[q].dhs, s.dhs))
      BY ONLY <1>1, <1>2, <2>2, Zenon DEF Ahead, KdfRk
    <3>2. Dh(st[q].dhs, s.dhs) \in Secrets
      BY <1>5, DhType
    <3>3. Len(KdfRk(s.rk, Dh(st[q].dhs, s.dhs))) = Len(s.rk) + 1
      BY ONLY <1>5, <3>2, AppendRoot
    <3> QED
      BY ONLY <1>10, <3>1, <3>3, Zenon
  <2>4. Len(s.ckr.root) <= Len(s.rk)
    BY <1>3, <1>7, NoChainType DEF Sound
  <2>5. Len(s.ckr.root) < Len(x.mk.root)
    BY ONLY <1>7, <2>3, <2>4
  <2>6. ~Behind(s, x.mk)
    BY ONLY <1>7, <2>5 DEF Behind
  <2> QED
    BY <1>1, <2>1, <2>6
<1> QED
  BY ONLY <1>4, <1>8, <1>9, <1>10, Zenon DEF Hears

LEMMA Monotone ==
  ASSUME NEW S, IsFiniteSet(S), NEW T, T \subseteq S, NEW n \in Nat, Cardinality(T) >= n
  PROVE  Cardinality(S) >= n
<1>1. Cardinality(T) <= Cardinality(S) /\ Cardinality(T) \in Nat /\ Cardinality(S) \in Nat
  BY FS_Subset, FS_CardinalityType
<1> QED
  BY <1>1

LEMMA InitJInv == ASSUME PairInit PROVE JInv
<1>1. PICK a, b : a = RatchetInitAlice(SharedSecret, SpkB, 2) /\ b = RatchetInitBob(SharedSecret, SpkB)
  OBVIOUS
<1>2. st = [p \in Parties |-> IF p = "A" THEN a ELSE b] /\ net = {}
  BY <1>1 DEF PairInit
<1>3. a.mkskipped = <<>> /\ b.mkskipped = <<>>
  BY <1>1 DEF RatchetInitAlice, RatchetInitBob
<1>4. \A p \in Parties : SentBy(p) = {} /\ ToParty(p) = {} /\ Undelivered(p) = {}
  BY <1>2 DEF SentBy, ToParty, Undelivered
<1>5. \A p \in Parties : st[p].ns = 0 /\ st[p].nr = 0 /\ st[p].pn = 0
  BY InitStates
<1> SUFFICES ASSUME NEW p \in Parties
             PROVE  Sorted(st[p]) /\ Stored(p) /\ Unbroken(p) /\ NotAhead(p) /\ Kept(p)
  BY DEF JInv
<1>6. st[p].mkskipped = <<>>
  BY <1>2, <1>3
<1>7. \A i : i \notin 1 .. Len(st[p].mkskipped)
  BY <1>6
<1>8. Sorted(st[p]) /\ Stored(p) /\ Kept(p)
  BY ONLY <1>4, <1>7, p \in Parties, Zenon DEF Sorted, Stored, Kept
<1>9. NotAhead(p)
  BY <1>5, PeerIs DEF NotAhead
<1>10. \A k \in Nat : ~(k < st[p].ns) /\ ~(k < st[p].pn)
  BY <1>5
<1>11. Unbroken(p)
  BY ONLY <1>4, <1>10, p \in Parties, Zenon DEF Unbroken
<1> QED
  BY <1>8, <1>9, <1>11

(***************************************************************************)
(* A party encrypts.                                                       *)
(***************************************************************************)
Encrypting(p, q, s, t, m) ==
  /\ q \in Parties /\ q # p /\ Peer(q) = p /\ Peer(p) = q /\ \A x \in Parties : x = p \/ x = q
  /\ s = st[p] /\ s \in States /\ st[q] \in States /\ Sound(s) /\ Sound(st[q])
  /\ st'[p] = t /\ st'[q] = st[q] /\ got' = got
  /\ t.rk = s.rk /\ t.ckr = s.ckr /\ t.nr = s.nr /\ t.pn = s.pn /\ t.ns = s.ns + 1
  /\ t.mkskipped = s.mkskipped /\ s.cks.n = s.ns
  /\ m \in Messages /\ m.mk.root = s.rk /\ m.mk.n = s.ns /\ m.header.pn = s.pn
  /\ SentBy(p)' = SentBy(p) \cup {m} /\ SentBy(q)' = SentBy(q)
  /\ \A x \in SentBy(p) : x.id < m.id

LEMMA EncryptIs ==
  ASSUME PairInv, NEW p \in Parties, Encrypt(p)
  PROVE  \E q, s, t, m : Encrypting(p, q, s, t, m)
<1>1. PICK q, s, t : q = Peer(p) /\ s = st[p] /\ t = EncryptState(s)
  OBVIOUS
<1>2. q \in Parties /\ q # p /\ Peer(q) = p /\ Peer(p) = q /\ \A x \in Parties : x = p \/ x = q
  BY <1>1, PeerIs
<1>3. Types /\ s \in States /\ st[q] \in States /\ Sound(s) /\ Sound(st[q]) /\ CanEncrypt(s)
  BY <1>1, <1>2 DEF PairInv, Types, Encrypt
<1>4. /\ t.rk = s.rk /\ t.ckr = s.ckr /\ t.nr = s.nr /\ t.pn = s.pn /\ t.ns = s.ns + 1
      /\ t.mkskipped = s.mkskipped /\ s.cks.n = s.ns /\ s.cks.root = s.rk
      /\ s.cks \in Chains /\ EncryptHeader(s) \in Headers
  BY <1>1, <1>3, EncryptStateIs
<1>5. PICK c : c = Cardinality(SentBy(p)) /\ c \in Nat
  BY <1>3, SentFinite
<1>6. PICK m : m = [from |-> p, id |-> c + 1, header |-> EncryptHeader(s), mk |-> EncryptKey(s)]
  OBVIOUS
<1>7. c + 1 <= MaxMsgs /\ net' = net \cup {m} /\ got' = got /\ st' = [st EXCEPT ![p] = t]
  BY <1>1, <1>5, <1>6 DEF Encrypt
<1>8. st'[p] = t /\ st'[q] = st[q]
  BY <1>2, <1>3, <1>7 DEF Types
<1>9. m.from = p /\ m.id = c + 1 /\ m.header.pn = s.pn /\ m.mk = s.cks
  BY <1>6 DEF EncryptHeader, EncryptKey
<1>10. m \in Messages
  <2>1. c + 1 \in 1 .. MaxMsgs
    BY <1>5, <1>7, MsgsAssumption
  <2> QED
    BY ONLY <1>4, <1>6, <2>1, p \in Parties DEF Messages, EncryptKey
<1>11. SentBy(p)' = SentBy(p) \cup {m} /\ SentBy(q)' = SentBy(q)
  BY <1>2, <1>7, <1>9 DEF SentBy
<1>12. ASSUME NEW x \in SentBy(p) PROVE x.id < m.id
  <2>1. x.id <= c
    BY <1>5 DEF PairInv, Sends
  <2>2. x.id \in Nat
    BY <1>3 DEF Types, SentBy, Messages
  <2> QED
    BY <1>5, <1>9, <2>1, <2>2
<1>13. m.mk.root = s.rk /\ m.mk.n = s.ns
  BY ONLY <1>4, <1>9, Zenon
<1>14. Encrypting(p, q, s, t, m)
  BY ONLY <1>1, <1>2, <1>3, <1>4, <1>7, <1>8, <1>9, <1>10, <1>11, <1>12, <1>13, Zenon DEF Encrypting
<1> QED
  BY <1>14

LEMMA EncryptUnbroken ==
  ASSUME PairInv, NEW p \in Parties, Unbroken(p), NEW q, NEW s, NEW t, NEW m, Encrypting(p, q, s, t, m)
  PROVE  Unbroken(p)'
<1>1. PICK S : S = SentBy(p)
  OBVIOUS
<1>2. /\ SentBy(p)' = S \cup {m} /\ st'[p] = t /\ t.rk = s.rk /\ t.pn = s.pn /\ t.ns = s.ns + 1
      /\ m.mk.root = s.rk /\ m.mk.n = s.ns /\ m.header.pn = s.pn /\ s.cks.n = s.ns
      /\ \A x \in S : x.id < m.id
  BY ONLY <1>1, Encrypting(p, q, s, t, m), Zenon DEF Encrypting
<1>3. s = st[p] /\ s.ns \in Nat /\ s.pn \in Nat /\ Len(s.rk) \in Nat
  BY DEF Encrypting, States
<1>4. /\ \A x \in S : \A k \in Nat : k < x.mk.n => \E y \in S : y.mk.root = x.mk.root /\ y.mk.n = k
      /\ \A k \in Nat : k < s.ns => \E x \in S : x.mk.root = s.rk /\ x.mk.n = k
      /\ \A k \in Nat : k < s.pn => \E x \in S : Len(x.mk.root) + 2 = Len(s.rk) /\ x.mk.n = k
      /\ \A x \in S : /\ x.mk.root = s.rk => x.header.pn = s.pn
                      /\ Len(x.mk.root) + 2 = Len(s.rk) => x.mk.n < s.pn
      /\ \A x, y \in S : Later(y.mk, x.mk) => x.id < y.id
  BY ONLY <1>1, <1>3, Unbroken(p) DEF Unbroken
<1>5. \A k \in Nat : k < s.ns + 1 => k < s.ns \/ k = s.ns
  BY <1>3
<1>6. ~(Len(m.mk.root) + 2 = Len(s.rk))
  BY <1>2, <1>3
<1>7. ASSUME NEW y \in S PROVE ~Later(y.mk, m.mk)
  <2>1. y \in Messages
    BY <1>1 DEF PairInv, Types, SentBy
  <2>2. y.mk.n \in Int /\ Len(y.mk.root) \in Nat
    BY <2>1 DEF Messages, Chains
  <2>3. /\ Len(y.mk.root) <= Len(s.rk)
        /\ Len(y.mk.root) = Len(s.rk) => y.mk.n < s.cks.n
    BY <1>1, <1>3 DEF PairInv, Sends
  <2>4. ~(Len(m.mk.root) < Len(y.mk.root))
    BY <1>2, <1>3, <2>2, <2>3
  <2>5. y.mk.root = m.mk.root => ~(m.mk.n < y.mk.n)
    BY <1>2, <1>3, <2>2, <2>3
  <2> QED
    BY ONLY <2>4, <2>5, Zenon DEF Later
<1>8. ~Later(m.mk, m.mk)
  BY <1>2, <1>3 DEF Later
<1>9. \A x, y \in S \cup {m} : Later(y.mk, x.mk) => x.id < y.id
  BY ONLY <1>2, <1>4, <1>7, <1>8
<1>10. \A x \in S \cup {m} : \A k \in Nat : k < x.mk.n =>
         \E y \in S \cup {m} : y.mk.root = x.mk.root /\ y.mk.n = k
  BY ONLY <1>2, <1>4
<1>11. \A k \in Nat : k < s.ns + 1 => \E x \in S \cup {m} : x.mk.root = s.rk /\ x.mk.n = k
  BY ONLY <1>2, <1>4, <1>5
<1>12. \A k \in Nat : k < s.pn => \E x \in S \cup {m} : Len(x.mk.root) + 2 = Len(s.rk) /\ x.mk.n = k
  BY ONLY <1>4
<1>13. \A x \in S \cup {m} : /\ x.mk.root = s.rk => x.header.pn = s.pn
                             /\ Len(x.mk.root) + 2 = Len(s.rk) => x.mk.n < s.pn
  BY ONLY <1>2, <1>4, <1>6
<1>14. t.rk = s.rk /\ t.pn = s.pn /\ t.ns = s.ns + 1
  BY <1>2
<1>15. \A k \in Nat : k < t.ns => \E x \in S \cup {m} : x.mk.root = t.rk /\ x.mk.n = k
  BY ONLY <1>11, <1>14
<1>16. \A k \in Nat : k < t.pn => \E x \in S \cup {m} : Len(x.mk.root) + 2 = Len(t.rk) /\ x.mk.n = k
  BY ONLY <1>12, <1>14
<1>17. \A x \in S \cup {m} : /\ x.mk.root = t.rk => x.header.pn = t.pn
                             /\ Len(x.mk.root) + 2 = Len(t.rk) => x.mk.n < t.pn
  BY ONLY <1>13, <1>14
<1>18. SentBy(p)' = S \cup {m} /\ st'[p] = t
  BY <1>2
<1> QED
  BY ONLY <1>9, <1>10, <1>15, <1>16, <1>17, <1>18 DEF Unbroken

LEMMA NotYetPassed ==
  ASSUME PairInv, NEW p \in Parties, NEW q, NEW s, NEW t, NEW m, Encrypting(p, q, s, t, m), NotAhead(q)
  PROVE  ~Behind(st[q], m.mk)
<1>1. PICK u : u = st[q]
  OBVIOUS
<1>2. /\ q \in Parties /\ Peer(q) = p /\ Peer(p) = q /\ s = st[p] /\ s \in States /\ u \in States /\ Sound(u)
      /\ m.mk.root = s.rk /\ m.mk.n = s.ns
  BY <1>1 DEF Encrypting
<1>3. /\ s.rk \in Seq(Secrets) /\ u.rk \in Seq(Secrets) /\ u.ckr \in Chains /\ s.ns \in Nat /\ u.nr \in Nat
      /\ s.dhs \in Nat /\ u.dhs \in Nat
  BY ONLY <1>2 DEF States
<1>4. u.ckr.root \in Seq(Secrets) /\ u.ckr.n \in Int
  BY ONLY <1>3 DEF Chains
<1>5. Len(u.ckr.root) \in Nat /\ Len(s.rk) \in Nat /\ Len(u.rk) \in Nat
  BY ONLY <1>3, <1>4
<1>6. Len(u.rk) = Len(s.rk) + 1 \/ Len(s.rk) = Len(u.rk) + 1
  <2>1. Dh(s.dhs, u.dhs) \in Secrets /\ Dh(u.dhs, s.dhs) \in Secrets
    BY <1>3, DhType
  <2>2. Len(Append(u.rk, Dh(s.dhs, u.dhs))) = Len(u.rk) + 1 /\ Len(Append(s.rk, Dh(u.dhs, s.dhs))) = Len(s.rk) + 1
    BY ONLY <1>3, <2>1
  <2>3. Ahead(p) \/ Ahead(q)
    BY <1>2 DEF PairInv, Lockstep, Parties, Peer
  <2>4. s.rk = Append(u.rk, Dh(s.dhs, u.dhs)) \/ u.rk = Append(s.rk, Dh(u.dhs, s.dhs))
    BY ONLY <1>1, <1>2, <2>3, Zenon DEF Ahead
  <2> QED
    BY ONLY <2>2, <2>4, Zenon
<1>7. ~(Len(s.rk) < Len(u.ckr.root))
  <2>1. CASE u.ckr = NoChain
    BY <1>5, <2>1, NoChainType
  <2>2. CASE u.ckr # NoChain
    <3>1. Len(u.ckr.root) + 1 = Len(u.rk)
      BY <1>2, <2>2 DEF Sound
    <3> QED
      BY ONLY <1>5, <1>6, <3>1
  <2> QED
    BY <2>1, <2>2
<1>8. s.rk = u.ckr.root => ~(s.ns < u.ckr.n)
  <2>1. CASE u.ckr = NoChain
    BY <1>3, <2>1, NoChainType
  <2>2. CASE u.ckr # NoChain
    <3>1. u.ckr.n = u.nr
      BY <1>2, <2>2 DEF Sound
    <3>2. s.rk = u.ckr.root => u.nr <= s.ns
      BY <1>1, <1>2 DEF NotAhead
    <3> QED
      BY ONLY <1>3, <3>1, <3>2
  <2> QED
    BY <2>1, <2>2
<1> QED
  BY ONLY <1>1, <1>2, <1>7, <1>8, Zenon DEF Behind

LEMMA EncryptKept ==
  ASSUME PairInv, NEW p \in Parties, NEW q, NEW s, NEW t, NEW m, Encrypting(p, q, s, t, m), NotAhead(q),
         Kept(p), Kept(q), IsFiniteSet(SentBy(p)')
  PROVE  Kept(p)' /\ Kept(q)'
<1>1. PICK S, u : S = SentBy(p) /\ u = st[q]
  OBVIOUS
<1>2. /\ Peer(q) = p /\ Peer(p) = q /\ s = st[p] /\ st'[p] = t /\ st'[q] = u /\ got' = got
      /\ t.ckr = s.ckr /\ t.mkskipped = s.mkskipped /\ SentBy(p)' = S \cup {m} /\ SentBy(q)' = SentBy(q)
  BY ONLY <1>1, Encrypting(p, q, s, t, m), Zenon DEF Encrypting
<1>3. \A k : (Behind(t, k) <=> Behind(s, k)) /\ (Held(t, k) <=> Held(s, k))
  BY ONLY <1>2, Zenon DEF Behind, Held
<1>4. ToParty(p)' = ToParty(p) /\ ToParty(q) = S /\ ToParty(q)' = S \cup {m}
  BY ONLY <1>1, <1>2, Zenon DEF ToParty
<1>5. Kept(p)'
  <2>1. Undelivered(p)' = Undelivered(p)
    BY ONLY <1>2, <1>4 DEF Undelivered
  <2>2. ASSUME NEW x PROVE Younger(p, x)' = Younger(p, x)
    BY ONLY <1>2, <1>3, <1>4 DEF Younger
  <2>3. \A x \in Undelivered(p) : Behind(s, x.mk) =>
          Held(s, x.mk) \/ Cardinality(Younger(p, x)) >= MaxSkippedTotal
    BY ONLY <1>2, Kept(p), Zenon DEF Kept
  <2>4. \A x \in Undelivered(p) : Behind(t, x.mk) =>
          Held(t, x.mk) \/ Cardinality(Younger(p, x)) >= MaxSkippedTotal
    BY ONLY <1>3, <2>3, Zenon
  <2>5. \A x \in Undelivered(p) : Behind(t, x.mk) =>
          Held(t, x.mk) \/ Cardinality(Younger(p, x)') >= MaxSkippedTotal
    BY ONLY <2>2, <2>4
  <2>6. st'[p] = t
    BY <1>2
  <2> QED
    BY ONLY <2>1, <2>5, <2>6, Zenon DEF Kept
<1>6. st'[q] = u
  BY <1>2
<1>7. Kept(q)'
  <2>1. ASSUME NEW x \in Undelivered(q)', Behind(u, x.mk)
        PROVE  Held(u, x.mk) \/ Cardinality(Younger(q, x)') >= MaxSkippedTotal
    <3>1. x \in S \cup {m} /\ got[q][x.id] = 0
      BY ONLY <1>2, <1>4, x \in Undelivered(q)' DEF Undelivered
    <3>2. ~Behind(u, m.mk)
      BY <1>1, NotYetPassed
    <3>3. x \in Undelivered(q)
      BY ONLY <1>4, <2>1, <3>1, <3>2 DEF Undelivered
    <3>4. Held(u, x.mk) \/ Cardinality(Younger(q, x)) >= MaxSkippedTotal
      BY ONLY <1>1, <2>1, <3>3, Kept(q), Zenon DEF Kept
    <3>5. Younger(q, x) \subseteq Younger(q, x)' /\ Younger(q, x)' \subseteq S \cup {m}
      BY ONLY <1>1, <1>2, <1>4 DEF Younger
    <3>6. IsFiniteSet(Younger(q, x)')
      BY <1>2, <3>5, FS_Subset
    <3>7. Cardinality(Younger(q, x)) >= MaxSkippedTotal => Cardinality(Younger(q, x)') >= MaxSkippedTotal
      BY <3>5, <3>6, RatchetAssumption, Monotone
    <3> QED
      BY <3>4, <3>7
  <2> QED
    BY ONLY <1>6, <2>1, Zenon DEF Kept
<1> QED
  BY <1>5, <1>7

LEMMA EncryptJInv ==
  ASSUME PairInv, PairInv', JInv, NEW p \in Parties, Encrypt(p)
  PROVE  JInv'
<1>1. PICK q, s, t, m : Encrypting(p, q, s, t, m)
  BY EncryptIs
<1>2. /\ q \in Parties /\ q # p /\ Peer(q) = p /\ Peer(p) = q /\ \A x \in Parties : x = p \/ x = q
      /\ s = st[p] /\ st'[p] = t /\ st'[q] = st[q] /\ got' = got
      /\ t.rk = s.rk /\ t.ckr = s.ckr /\ t.nr = s.nr /\ t.pn = s.pn /\ t.ns = s.ns + 1
      /\ t.mkskipped = s.mkskipped
      /\ SentBy(p)' = SentBy(p) \cup {m} /\ SentBy(q)' = SentBy(q)
  BY ONLY <1>1, Zenon DEF Encrypting
<1>3. /\ Sorted(st[p]) /\ Stored(p) /\ Unbroken(p) /\ NotAhead(p) /\ Kept(p)
      /\ Sorted(st[q]) /\ Stored(q) /\ Unbroken(q) /\ NotAhead(q) /\ Kept(q)
  BY <1>2 DEF JInv
<1>4. Sorted(st[p])' /\ Sorted(st[q])'
  BY ONLY <1>2, <1>3, Zenon DEF Sorted
<1>5. Stored(p)' /\ Stored(q)'
  <2>1. ToParty(p)' = ToParty(p) /\ ToParty(q) \subseteq ToParty(q)'
    BY ONLY <1>2 DEF ToParty
  <2>2. Stored(p)'
    <3>1. st'[p].mkskipped = st[p].mkskipped /\ ToParty(p)' = ToParty(p) /\ Stored(p)
      BY ONLY <1>2, <1>3, <2>1, Zenon
    <3> QED
      BY ONLY <3>1, Zenon DEF Stored
  <2>3. Stored(q)'
    BY ONLY <1>2, <1>3, <2>1 DEF Stored
  <2> QED
    BY <2>2, <2>3
<1>6. Unbroken(p)' /\ Unbroken(q)'
  <2>1. Unbroken(p)'
    BY <1>1, <1>3, EncryptUnbroken
  <2>2. Unbroken(q)'
    <3>1. st'[q] = st[q] /\ SentBy(q)' = SentBy(q) /\ Unbroken(q)
      BY ONLY <1>2, <1>3, Zenon
    <3> QED
      BY ONLY <3>1 DEF Unbroken
  <2> QED
    BY <2>1, <2>2
<1>7. NotAhead(p)' /\ NotAhead(q)'
  <2>1. NotAhead(p)'
    BY ONLY <1>2, <1>3, Zenon DEF NotAhead
  <2>2. st[q].nr \in Nat /\ s.ns \in Nat
    BY <1>1 DEF Encrypting, States
  <2>3. st[q].ckr.root = s.rk => st[q].nr <= s.ns + 1
    BY <1>2, <1>3, <2>2 DEF NotAhead
  <2>4. st[q].ckr.root = t.rk => st[q].nr <= t.ns
    BY ONLY <1>2, <2>3, Zenon
  <2> QED
    BY ONLY <1>2, <2>1, <2>4, Zenon DEF NotAhead
<1>8. Kept(p)' /\ Kept(q)'
  <2>1. IsFiniteSet(SentBy(p)')
    <3>1. SentBy(p)' \subseteq net' /\ IsFiniteSet(net')
      BY DEF SentBy, PairInv, Types
    <3> QED
      BY ONLY <3>1, FS_Subset, Zenon
  <2> QED
    BY <1>1, <1>3, <2>1, EncryptKept
<1> QED
  BY ONLY <1>2, <1>4, <1>5, <1>6, <1>7, <1>8, Zenon DEF JInv

(***************************************************************************)
(* A ciphertext is decrypted.                                              *)
(***************************************************************************)
Turning(s, peer, mk, t) ==
  /\ mk.root = peer.rk /\ Len(peer.rk) = Len(s.rk) + 1
  /\ Len(t.rk) = Len(s.rk) + 2 /\ t.ns = 0 /\ t.pn = s.ns

Decrypting(m, q, p, s, t) ==
  /\ p \in Parties /\ q \in Parties /\ q # p /\ Peer(q) = p /\ Peer(p) = q
  /\ \A x \in Parties : x = p \/ x = q
  /\ s = st[p] /\ s \in States /\ st[q] \in States /\ t \in States
  /\ Sound(s) /\ Sound(st[q]) /\ Sound(t)
  /\ m \in SentBy(q) /\ m \in Messages
  /\ st'[p] = t /\ st'[q] = st[q] /\ got'[q] = got[q]
  /\ SentBy(p)' = SentBy(p) /\ SentBy(q)' = SentBy(q)
  /\ \A i \in 1 .. MaxMsgs : got'[p][i] = 0 => got[p][i] = 0 /\ i # m.id
  /\ DecryptKeeps(s, m.header, m.mk, t)
  /\ SameChain(s, m.mk, t) \/ Turning(s, st[q], m.mk, t)

LEMMA DeliverIs ==
  ASSUME PairInv, NEW m \in net, Deliver(m), \A x \in Parties : Sorted(st[x])
  PROVE  \E q, p, s, t : Decrypting(m, q, p, s, t)
<1>1. PICK q, p, s, h, mk, t :
        /\ q = m.from /\ p = Peer(m.from) /\ s = st[p] /\ h = m.header /\ mk = m.mk
        /\ t = RatchetDecrypt(st[p], m.header, m.mk, spare).state
  OBVIOUS
<1>2. m \in Messages /\ Types
  BY DEF PairInv, Types
<1>3. /\ q \in Parties /\ h \in Headers /\ mk \in Chains /\ m.id \in 1 .. MaxMsgs
  BY <1>1, <1>2 DEF Messages
<1>4. p \in Parties /\ q # p /\ Peer(q) = p /\ Peer(p) = q /\ \A x \in Parties : x = p \/ x = q
  BY <1>1, <1>3, PeerIs
<1>5. s \in States /\ st[q] \in States /\ spare \in Nat /\ Sound(s) /\ Sound(st[q]) /\ Sorted(s)
  BY <1>1, <1>2, <1>3, <1>4 DEF Types, PairInv
<1>6. Heard(p) /\ Lockstep
  BY <1>3, <1>4 DEF PairInv
<1>7. /\ RatchetDecrypt(s, h, mk, spare).ok /\ t = RatchetDecrypt(s, h, mk, spare).state
      /\ st' = [st EXCEPT ![p] = t] /\ got' = [got EXCEPT ![p][m.id] = @ + 1] /\ net' = net
  BY <1>1 DEF Deliver
<1>8. m \in SentBy(q) /\ m \in ToParty(p)
  BY <1>1, <1>4 DEF SentBy, ToParty
<1>9. /\ h.dh > 0
      /\ \/ h.dh < s.dhr /\ s.ckr # NoChain /\ Len(mk.root) < Len(s.ckr.root)
         \/ h.dh = s.dhr /\ s.ckr # NoChain /\ mk.root = s.ckr.root
         \/ h.dh = st[q].dhs /\ st[q].dhs > s.dhr /\ mk.root = st[q].rk
  BY ONLY <1>1, <1>4, <1>6, <1>8 DEF Heard, Hears
<1>10. /\ h.dh \in Nat /\ s.dhr \in Nat /\ s.dhs \in Nat /\ s.rk \in Seq(Secrets)
       /\ Len(mk.root) \in Nat /\ Len(s.rk) \in Nat /\ Len(s.ckr.root) \in Nat
  <2>1. h.dh \in Nat /\ mk.root \in Seq(Secrets)
    BY ONLY <1>3 DEF Headers, Chains
  <2>2. s.dhr \in Nat /\ s.dhs \in Nat /\ s.rk \in Seq(Secrets) /\ s.ckr \in Chains
    BY ONLY <1>5 DEF States
  <2>3. s.ckr.root \in Seq(Secrets)
    BY ONLY <2>2 DEF Chains
  <2>4. Len(mk.root) \in Nat /\ Len(s.rk) \in Nat /\ Len(s.ckr.root) \in Nat
    BY ONLY <2>1, <2>2, <2>3
  <2> QED
    BY ONLY <2>1, <2>2, <2>4
<1>11. s.ckr # NoChain => Len(s.ckr.root) < Len(s.rk)
  BY <1>5, <1>10 DEF Sound
<1>12. /\ h.dh # NoDh
       /\ h.dh = s.dhr => s.ckr # NoChain
       /\ h.dh < s.dhr => Len(mk.root) <= Len(s.rk)
  <2>1. h.dh # NoDh
    BY <1>9, <1>10 DEF NoDh
  <2>2. h.dh = s.dhr => s.ckr # NoChain
    BY <1>9, <1>10
  <2>3. h.dh < s.dhr => Len(mk.root) <= Len(s.rk)
    BY <1>9, <1>10, <1>11
  <2> QED
    BY <2>1, <2>2, <2>3
<1>13. UsesUp(s, mk, t) /\ (SameChain(s, mk, t) \/ NewChain(s, h, mk, spare, t))
  BY ONLY <1>3, <1>5, <1>7, <1>12, DecryptSound
<1>14. DecryptKeeps(s, h, mk, t)
  BY ONLY <1>3, <1>5, <1>7, <1>12, DecryptCovers
<1>15. t \in States /\ Sound(t)
  BY <1>13 DEF UsesUp
<1>16. st'[p] = t /\ st'[q] = st[q]
  BY <1>2, <1>4, <1>7 DEF Types
<1>17. SentBy(p)' = SentBy(p) /\ SentBy(q)' = SentBy(q)
  BY <1>7 DEF SentBy
<1>18. got[p] \in [1 .. MaxMsgs -> Nat] /\ got'[q] = got[q] /\ got'[p] = [got[p] EXCEPT ![m.id] = @ + 1]
  BY <1>2, <1>3, <1>4, <1>7 DEF Types
<1>19. ASSUME NEW i \in 1 .. MaxMsgs, got'[p][i] = 0 PROVE got[p][i] = 0 /\ i # m.id
  <2>1. PICK g : g = got[p]
    OBVIOUS
  <2>2. g \in [1 .. MaxMsgs -> Nat] /\ got'[p] = [g EXCEPT ![m.id] = @ + 1]
    BY ONLY <1>18, <2>1, Zenon
  <2>3. g[m.id] \in Nat
    BY ONLY <1>3, <2>2
  <2>4. PICK n : n = g[m.id] + 1
    OBVIOUS
  <2>5. n # 0
    BY ONLY <2>3, <2>4
  <2>6. got'[p] = [g EXCEPT ![m.id] = n]
    BY ONLY <2>2, <2>4
  <2> QED
    BY ONLY <1>3, <1>19, <2>1, <2>2, <2>5, <2>6, i \in 1 .. MaxMsgs
<1>20. SameChain(s, mk, t) \/ Turning(s, st[q], mk, t)
  <2>1. CASE NewChain(s, h, mk, spare, t)
    <3>1. /\ h.dh > s.dhr /\ t.pn = s.ns /\ t.ns = 0
          /\ mk.root = KdfRk(s.rk, Dh(s.dhs, h.dh)) /\ t.rk = KdfRk(mk.root, Dh(spare, h.dh))
      BY <2>1 DEF NewChain
    <3>2. Dh(s.dhs, h.dh) \in Secrets /\ Dh(spare, h.dh) \in Secrets
      BY <1>5, <1>10, DhType
    <3>3. mk.root \in Seq(Secrets) /\ Len(mk.root) = Len(s.rk) + 1
      BY ONLY <1>10, <3>1, <3>2, AppendRoot, Zenon
    <3>4. Len(t.rk) = Len(mk.root) + 1
      BY ONLY <3>1, <3>2, <3>3, AppendRoot, Zenon
    <3>5. Len(t.rk) = Len(s.rk) + 2
      BY ONLY <1>10, <3>3, <3>4
    <3>6. mk.root = st[q].rk
      BY <1>9, <1>10, <3>1
    <3> QED
      BY ONLY <3>1, <3>3, <3>5, <3>6, Zenon DEF Turning
  <2> QED
    BY <1>13, <2>1
<1>21. Decrypting(m, q, p, s, t)
  BY ONLY <1>1, <1>2, <1>3, <1>4, <1>5, <1>8, <1>14, <1>15, <1>16, <1>17, <1>18, <1>19, <1>20, Zenon
     DEF Decrypting
<1> QED
  BY <1>21

LEMMA SameKey ==
  ASSUME NEW a \in Chains, NEW b \in Chains, a.root = b.root, a.n = b.n
  PROVE  a = b
BY DEF Chains

(* What the receiver knows of a message when its ratchet turns.            *)
LEMMA BeforeTurn ==
  ASSUME PairInv, NEW m, NEW q, NEW p, NEW s, NEW t, Decrypting(m, q, p, s, t),
         Turning(s, st[q], m.mk, t), NEW x \in SentBy(q)
  PROVE  /\ Len(x.mk.root) < Len(m.mk.root) => /\ s.ckr # NoChain
                                               /\ \/ Len(x.mk.root) < Len(s.ckr.root)
                                                  \/ x.mk.root = s.ckr.root
         /\ s.ckr # NoChain /\ Len(x.mk.root) + 2 = Len(st[q].rk) => x.mk.root = s.ckr.root
         /\ s.ckr # NoChain /\ x.mk.root = s.ckr.root => Len(x.mk.root) + 2 = Len(st[q].rk)
<1>1. /\ m.mk.root = st[q].rk /\ Len(st[q].rk) = Len(s.rk) + 1
  BY DEF Turning
<1>2. p \in Parties /\ Peer(p) = q /\ s = st[p] /\ s \in States /\ Sound(s)
  BY DEF Decrypting
<1>3. x \in Messages
  BY DEF PairInv, Types, SentBy
<1>4. x.mk \in Chains /\ s.ckr \in Chains /\ s.rk \in Seq(Secrets)
  BY ONLY <1>2, <1>3 DEF Messages, States
<1>5. Len(x.mk.root) \in Nat /\ Len(s.ckr.root) \in Nat /\ Len(s.rk) \in Nat
  BY ONLY <1>4 DEF Chains
<1>6. Hears(s, st[q], x)
  BY <1>2 DEF PairInv, Heard, ToParty
<1>7. \/ s.ckr # NoChain /\ Len(x.mk.root) < Len(s.ckr.root)
      \/ s.ckr # NoChain /\ x.mk.root = s.ckr.root
      \/ x.mk.root = st[q].rk
  BY ONLY <1>6, Zenon DEF Hears
<1>8. s.ckr # NoChain => Len(s.ckr.root) + 1 = Len(s.rk)
  BY ONLY <1>2, Zenon DEF Sound
<1>9. Len(m.mk.root) = Len(s.rk) + 1
  BY ONLY <1>1, Zenon
<1>10. x.mk.root = st[q].rk => Len(x.mk.root) = Len(s.rk) + 1
  BY ONLY <1>1, Zenon
<1>11. x.mk.root = s.ckr.root => Len(x.mk.root) = Len(s.ckr.root)
  OBVIOUS
<1>12. Len(x.mk.root) < Len(m.mk.root) => x.mk.root # st[q].rk
  BY ONLY <1>5, <1>9, <1>10
<1>13. s.ckr # NoChain /\ Len(x.mk.root) + 2 = Len(st[q].rk) => x.mk.root = s.ckr.root
  BY ONLY <1>1, <1>5, <1>7, <1>8, <1>10
<1>14. s.ckr # NoChain /\ x.mk.root = s.ckr.root => Len(x.mk.root) + 2 = Len(st[q].rk)
  BY ONLY <1>1, <1>5, <1>8, <1>11
<1> QED
  BY ONLY <1>7, <1>12, <1>13, <1>14, Zenon

LEMMA DeliverStored ==
  ASSUME PairInv, NEW m, NEW q, NEW p, NEW s, NEW t, Decrypting(m, q, p, s, t), Stored(p), Unbroken(q)
  PROVE  Stored(p)'
<1>1. PICK S, h : S = SentBy(q) /\ h = m.header
  OBVIOUS
<1>2. /\ p \in Parties /\ q \in Parties /\ Peer(p) = q /\ Peer(q) = p /\ s = st[p] /\ st'[p] = t
      /\ s \in States /\ t \in States /\ m \in S /\ m \in Messages /\ SentBy(q)' = S
      /\ DecryptKeeps(s, h, m.mk, t) /\ (SameChain(s, m.mk, t) \/ Turning(s, st[q], m.mk, t))
  BY ONLY <1>1, Decrypting(m, q, p, s, t), Zenon DEF Decrypting
<1>3. ToParty(p) = S /\ ToParty(p)' = S
  BY ONLY <1>1, <1>2, Zenon DEF ToParty
<1>4. \A x \in S : x \in Messages /\ x.mk \in Chains
  BY <1>1 DEF PairInv, Types, SentBy, Messages
<1>5. m.mk.n = h.n
  BY <1>1, <1>2 DEF PairInv, Sends
<1>6. ASSUME NEW i \in 1 .. Len(t.mkskipped) PROVE \E x \in S : x.mk = t.mkskipped[i].mk
  <2>1. PICK k : k = t.mkskipped[i].mk
    OBVIOUS
  <2>2. k \in Chains
    <3>1. t.mkskipped \in Seq(Entries)
      BY ONLY <1>2 DEF States
    <3>2. t.mkskipped[i] \in Entries
      BY <3>1
    <3> QED
      BY ONLY <2>1, <3>2 DEF Entries
  <2>3. k.n \in Int
    BY <2>2 DEF Chains
  <2>4. Held(t, k)
    BY ONLY <2>1, i \in 1 .. Len(t.mkskipped), Zenon DEF Held
  <2>5. \/ Held(s, k)
        \/ k.root = m.mk.root /\ 0 <= k.n /\ k.n < h.n
        \/ t.dhr # s.dhr /\ s.ckr # NoChain /\ k.root = s.ckr.root /\ 0 <= k.n /\ k.n < h.pn
    BY ONLY <1>2, <2>2, <2>4, Zenon DEF DecryptKeeps
  <2>6. CASE Held(s, k)
    <3>1. PICK j \in 1 .. Len(s.mkskipped) : s.mkskipped[j].mk = k
      BY ONLY <2>6, Zenon DEF Held
    <3>2. \E x \in ToParty(p) : x.mk = st[p].mkskipped[j].mk
      BY ONLY <1>2, <3>1, Stored(p), Zenon DEF Stored
    <3> QED
      BY ONLY <1>2, <1>3, <2>1, <3>1, <3>2, Zenon
  <2>7. CASE k.root = m.mk.root /\ 0 <= k.n /\ k.n < h.n
    <3>1. k.n \in Nat
      BY ONLY <2>3, <2>7
    <3>2. k.n < m.mk.n
      BY ONLY <1>5, <2>7, Zenon
    <3>3. \A y \in S : \A n \in Nat : n < y.mk.n => \E x \in S : x.mk.root = y.mk.root /\ x.mk.n = n
      BY ONLY <1>1, Unbroken(q) DEF Unbroken
    <3>4. PICK x \in S : x.mk.root = m.mk.root /\ x.mk.n = k.n
      BY ONLY <1>2, <3>1, <3>2, <3>3
    <3>5. x.mk.root = k.root
      BY ONLY <2>7, <3>4, Zenon
    <3>6. x.mk = k
      BY ONLY <1>4, <2>2, <3>4, <3>5, SameKey, Zenon
    <3> QED
      BY ONLY <2>1, <3>6, x \in S, Zenon
  <2>8. CASE t.dhr # s.dhr /\ s.ckr # NoChain /\ k.root = s.ckr.root /\ 0 <= k.n /\ k.n < h.pn
    <3>1. Turning(s, st[q], m.mk, t)
      BY ONLY <1>2, <2>8, Zenon DEF SameChain
    <3>2. m.mk.root = st[q].rk
      BY ONLY <3>1, Zenon DEF Turning
    <3>3. h.pn = st[q].pn
      BY ONLY <1>1, <1>2, <3>2, Unbroken(q), Zenon DEF Unbroken
    <3>4. k.n \in Nat
      BY ONLY <2>3, <2>8
    <3>5. k.n < st[q].pn
      BY ONLY <2>8, <3>3, Zenon
    <3>6. PICK x \in S : Len(x.mk.root) + 2 = Len(st[q].rk) /\ x.mk.n = k.n
      BY ONLY <1>1, <3>4, <3>5, Unbroken(q), Zenon DEF Unbroken
    <3>7. x.mk.root = s.ckr.root
      BY <1>1, <2>8, <3>1, <3>6, BeforeTurn
    <3>8. x.mk.root = k.root
      BY ONLY <2>8, <3>7, Zenon
    <3>9. x.mk = k
      BY ONLY <1>4, <2>2, <3>6, <3>8, SameKey, Zenon
    <3> QED
      BY ONLY <2>1, <3>9, x \in S, Zenon
  <2> QED
    BY ONLY <2>5, <2>6, <2>7, <2>8, Zenon
<1>7. st'[p] = t
  BY <1>2
<1> QED
  BY ONLY <1>3, <1>6, <1>7, Zenon DEF Stored

LEMMA DeliverUnbroken ==
  ASSUME PairInv, NEW m, NEW q, NEW p, NEW s, NEW t, Decrypting(m, q, p, s, t), Unbroken(p)
  PROVE  Unbroken(p)'
<1>1. PICK S : S = SentBy(p)
  OBVIOUS
<1>2. /\ p \in Parties /\ s = st[p] /\ st'[p] = t /\ s \in States /\ t \in States /\ Sound(s)
      /\ SentBy(p)' = S /\ (SameChain(s, m.mk, t) \/ Turning(s, st[q], m.mk, t))
  BY ONLY <1>1, Decrypting(m, q, p, s, t), Zenon DEF Decrypting
<1>3. /\ \A x \in S : \A k \in Nat : k < x.mk.n => \E y \in S : y.mk.root = x.mk.root /\ y.mk.n = k
      /\ \A x, y \in S : Later(y.mk, x.mk) => x.id < y.id
  BY ONLY <1>1, Unbroken(p), Zenon DEF Unbroken
<1>4. /\ \A k \in Nat : k < s.ns => \E x \in S : x.mk.root = s.rk /\ x.mk.n = k
      /\ \A k \in Nat : k < s.pn => \E x \in S : Len(x.mk.root) + 2 = Len(s.rk) /\ x.mk.n = k
      /\ \A x \in S : /\ x.mk.root = s.rk => x.header.pn = s.pn
                      /\ Len(x.mk.root) + 2 = Len(s.rk) => x.mk.n < s.pn
  BY ONLY <1>1, <1>2, Unbroken(p), Zenon DEF Unbroken
<1>5. /\ \A k \in Nat : k < t.ns => \E x \in S : x.mk.root = t.rk /\ x.mk.n = k
      /\ \A k \in Nat : k < t.pn => \E x \in S : Len(x.mk.root) + 2 = Len(t.rk) /\ x.mk.n = k
      /\ \A x \in S : /\ x.mk.root = t.rk => x.header.pn = t.pn
                      /\ Len(x.mk.root) + 2 = Len(t.rk) => x.mk.n < t.pn
  <2>1. CASE SameChain(s, m.mk, t)
    <3>1. t.rk = s.rk /\ t.ns = s.ns /\ t.pn = s.pn
      BY <2>1 DEF SameChain
    <3> QED
      BY ONLY <1>4, <3>1
  <2>2. CASE Turning(s, st[q], m.mk, t)
    <3>1. Len(t.rk) = Len(s.rk) + 2 /\ t.ns = 0 /\ t.pn = s.ns
      BY <2>2 DEF Turning
    <3>2. s.ns \in Nat /\ s.rk \in Seq(Secrets)
      BY ONLY <1>2 DEF States
    <3>3. Len(s.rk) \in Nat
      BY ONLY <3>2
    <3>4. \A k \in Nat : k < t.ns => \E x \in S : x.mk.root = t.rk /\ x.mk.n = k
      BY ONLY <3>1
    <3>5. \A k \in Nat : k < t.pn => \E x \in S : Len(x.mk.root) + 2 = Len(t.rk) /\ x.mk.n = k
      BY ONLY <1>4, <3>1, <3>3
    <3>6. ASSUME NEW x \in S
          PROVE  x.mk.root # t.rk /\ (Len(x.mk.root) + 2 = Len(t.rk) => x.mk.n < t.pn)
      <4>1. x \in Messages
        BY <1>1 DEF PairInv, Types, SentBy
      <4>2. x.mk \in Chains
        BY ONLY <4>1 DEF Messages
      <4>3. Len(x.mk.root) \in Nat
        BY ONLY <4>2 DEF Chains
      <4>4. /\ Len(x.mk.root) <= Len(s.rk)
            /\ Len(x.mk.root) = Len(s.rk) => s.cks # NoChain /\ x.mk.n < s.cks.n
        BY <1>1, <1>2 DEF PairInv, Sends
      <4>5. s.cks # NoChain => s.cks.n = s.ns
        BY ONLY <1>2, Zenon DEF Sound
      <4>6. x.mk.root # t.rk
        BY ONLY <3>1, <3>3, <4>3, <4>4
      <4>7. Len(x.mk.root) + 2 = Len(t.rk) => Len(x.mk.root) = Len(s.rk)
        BY ONLY <3>1, <3>3, <4>3
      <4> QED
        BY ONLY <3>1, <4>4, <4>5, <4>6, <4>7, Zenon
    <3> QED
      BY ONLY <3>4, <3>5, <3>6, Zenon
  <2> QED
    BY <1>2, <2>1, <2>2
<1>6. SentBy(p)' = S /\ st'[p] = t
  BY <1>2
<1> QED
  BY ONLY <1>3, <1>5, <1>6 DEF Unbroken

LEMMA DeliverNotAhead ==
  ASSUME PairInv, NEW m, NEW q, NEW p, NEW s, NEW t, Decrypting(m, q, p, s, t), NotAhead(p), NotAhead(q)
  PROVE  NotAhead(p)' /\ NotAhead(q)'
<1>1. PICK u, mk : u = st[q] /\ mk = m.mk
  OBVIOUS
<1>2. /\ p \in Parties /\ q \in Parties /\ Peer(p) = q /\ Peer(q) = p
      /\ s = st[p] /\ st'[p] = t /\ st'[q] = u /\ u \in States /\ s \in States /\ Sound(u)
      /\ m \in SentBy(q) /\ m \in Messages
      /\ DecryptKeeps(s, m.header, mk, t) /\ (SameChain(s, mk, t) \/ Turning(s, u, mk, t))
  BY ONLY <1>1, Decrypting(m, q, p, s, t), Zenon DEF Decrypting
<1>3. s.ckr.root = u.rk => s.nr <= u.ns
  BY ONLY <1>1, <1>2, NotAhead(p), Zenon DEF NotAhead
<1>4. u.ckr.root = s.rk => u.nr <= s.ns
  BY ONLY <1>1, <1>2, NotAhead(q), Zenon DEF NotAhead
<1>5. /\ u.ns \in Nat /\ u.rk \in Seq(Secrets) /\ s.rk \in Seq(Secrets) /\ u.ckr \in Chains
      /\ mk \in Chains
  BY ONLY <1>1, <1>2 DEF States, Messages
<1>6. mk.n \in Int /\ Len(u.ckr.root) \in Nat /\ Len(s.rk) \in Nat /\ Len(u.rk) \in Nat
  BY ONLY <1>5 DEF Chains
<1>7. mk.root = u.rk => mk.n + 1 <= u.ns
  <2>1. mk.root = u.rk => u.cks # NoChain /\ mk.n < u.cks.n
    BY <1>1, <1>2 DEF PairInv, Sends
  <2>2. u.cks # NoChain => u.cks.n = u.ns
    BY ONLY <1>2, Zenon DEF Sound
  <2> QED
    BY ONLY <1>5, <1>6, <2>1, <2>2
<1>8. \/ t.nr = s.nr /\ t.ckr.root = s.ckr.root
      \/ t.nr = mk.n + 1 /\ t.ckr.root = mk.root
  BY ONLY <1>2, Zenon DEF DecryptKeeps
<1>9. t.ckr.root = u.rk => t.nr <= u.ns
  BY ONLY <1>3, <1>7, <1>8, Zenon
<1>10. u.ckr.root = t.rk => u.nr <= t.ns
  <2>1. CASE SameChain(s, mk, t)
    <3>1. t.rk = s.rk /\ t.ns = s.ns
      BY <2>1 DEF SameChain
    <3> QED
      BY ONLY <1>4, <3>1, Zenon
  <2>2. CASE Turning(s, u, mk, t)
    <3>1. Len(u.rk) = Len(s.rk) + 1 /\ Len(t.rk) = Len(s.rk) + 2
      BY <2>2 DEF Turning
    <3>2. Len(u.ckr.root) <= Len(u.rk)
      BY <1>2, <1>6, NoChainType DEF Sound
    <3> QED
      BY ONLY <1>6, <3>1, <3>2
  <2> QED
    BY <1>2, <2>1, <2>2
<1>11. st'[p] = t /\ st'[q] = u /\ Peer(p) = q /\ Peer(q) = p
  BY <1>2
<1> QED
  BY ONLY <1>9, <1>10, <1>11, Zenon DEF NotAhead

LEMMA DeliverKept ==
  ASSUME PairInv, NEW m, NEW q, NEW p, NEW s, NEW t, Decrypting(m, q, p, s, t),
         Kept(p), Unbroken(q), Stored(p)'
  PROVE  Kept(p)'
<1>1. PICK S, h, mk : S = SentBy(q) /\ h = m.header /\ mk = m.mk
  OBVIOUS
<1>2. /\ p \in Parties /\ q \in Parties /\ Peer(p) = q /\ s = st[p] /\ st'[p] = t
      /\ t \in States /\ Sound(t) /\ m \in S /\ SentBy(q)' = S
      /\ \A i \in 1 .. MaxMsgs : got'[p][i] = 0 => got[p][i] = 0 /\ i # m.id
      /\ DecryptKeeps(s, h, mk, t) /\ (SameChain(s, mk, t) \/ Turning(s, st[q], mk, t))
  BY ONLY <1>1, Decrypting(m, q, p, s, t), Zenon DEF Decrypting
<1>3. ToParty(p) = S /\ ToParty(p)' = S /\ st'[p] = t
  BY ONLY <1>1, <1>2, Zenon DEF ToParty
<1>4. IsFiniteSet(S) /\ \A x \in S : x \in net /\ x \in Messages
  BY <1>1, <1>2, SentFinite DEF PairInv, Types, SentBy
<1>5. \A x \in S : x.mk \in Chains /\ x.id \in Nat /\ x.id \in 1 .. MaxMsgs
  BY ONLY <1>4 DEF Messages
<1>6. \A x, y \in S : Later(y.mk, x.mk) => x.id < y.id
  BY ONLY <1>1, Unbroken(q), Zenon DEF Unbroken
<1>7. \A i \in 1 .. Len(t.mkskipped) : \E x \in S : x.mk = t.mkskipped[i].mk
  BY ONLY <1>3, Stored(p)', Zenon DEF Stored
<1>8. \A k \in Chains : Behind(s, k) => Behind(t, k)
  BY ONLY <1>2, Zenon DEF DecryptKeeps
<1>9. ASSUME NEW x \in Undelivered(p)', Behind(t, x.mk)
      PROVE  Held(t, x.mk) \/ Cardinality(Younger(p, x)') >= MaxSkippedTotal
  <2>1. x \in S /\ got'[p][x.id] = 0
    BY ONLY <1>3, x \in Undelivered(p)' DEF Undelivered
  <2>2. x.mk \in Chains /\ got[p][x.id] = 0 /\ x.id # m.id
    BY ONLY <1>2, <1>5, <2>1
  <2>3. x \in Undelivered(p)
    BY ONLY <1>3, <2>1, <2>2 DEF Undelivered
  <2>4. Younger(p, x)' = {y \in S : y.id > x.id /\ Behind(t, y.mk)}
    BY ONLY <1>3 DEF Younger
  <2>5. Younger(p, x) = {y \in S : y.id > x.id /\ Behind(s, y.mk)}
    BY ONLY <1>2, <1>3 DEF Younger
  <2>6. CASE Behind(s, x.mk) /\ ~Held(s, x.mk)
    <3>1. Cardinality(Younger(p, x)) >= MaxSkippedTotal
      BY ONLY <1>2, <2>3, <2>6, Kept(p), Zenon DEF Kept
    <3>2. Younger(p, x) \subseteq Younger(p, x)' /\ Younger(p, x)' \subseteq S
      BY ONLY <1>5, <1>8, <2>4, <2>5
    <3>3. IsFiniteSet(Younger(p, x)')
      BY <1>4, <3>2, FS_Subset
    <3>4. Cardinality(Younger(p, x)') >= MaxSkippedTotal
      BY <3>1, <3>2, <3>3, RatchetAssumption, Monotone
    <3> QED
      BY <3>4
  <2>7. CASE Behind(s, x.mk) => Held(s, x.mk)
    <3>1. x.mk # mk
      BY <1>1, <1>2, <1>4, <2>1, <2>2 DEF PairInv, KeysUsedOnce
    <3>2. 0 <= x.mk.n
      <4>1. x.mk.n = x.header.n
        BY <1>1, <1>2, <2>1 DEF PairInv, Sends
      <4>2. x.header \in Headers
        BY ONLY <1>4, <2>1 DEF Messages
      <4>3. x.header.n \in Nat
        BY ONLY <4>2 DEF Headers
      <4> QED
        BY ONLY <4>1, <4>3
    <3>3. ASSUME t.dhr # s.dhr, Len(x.mk.root) < Len(mk.root) PROVE LeftBehind(s, h, x.mk)
      <4>1. Turning(s, st[q], mk, t)
        BY ONLY <1>2, <3>3, Zenon DEF SameChain
      <4>2. /\ s.ckr # NoChain
            /\ Len(x.mk.root) < Len(s.ckr.root) \/ x.mk.root = s.ckr.root
            /\ x.mk.root = s.ckr.root => Len(x.mk.root) + 2 = Len(st[q].rk)
        BY <1>1, <2>1, <3>3, <4>1, BeforeTurn
      <4>3. h.pn = st[q].pn
        <5>1. mk.root = st[q].rk
          BY ONLY <4>1, Zenon DEF Turning
        <5> QED
          BY ONLY <1>1, <1>2, <5>1, Unbroken(q), Zenon DEF Unbroken
      <4>4. Len(x.mk.root) + 2 = Len(st[q].rk) => x.mk.n < st[q].pn
        BY ONLY <1>1, <2>1, Unbroken(q), Zenon DEF Unbroken
      <4>5. x.mk.root = s.ckr.root => x.mk.n < h.pn
        BY ONLY <4>2, <4>3, <4>4, Zenon
      <4> QED
        BY ONLY <4>2, <4>5, Zenon DEF LeftBehind
    <3>4. Covered(t, x.mk)
      BY ONLY <1>2, <1>9, <2>2, <2>7, <3>1, <3>2, <3>3, Zenon DEF DecryptKeeps
    <3>5. ASSUME Full(t, x.mk)
          PROVE  Cardinality({y \in S : y.id > x.id /\ Behind(t, y.mk)}) >= MaxSkippedTotal
      BY ONLY <1>2, <1>4, <1>5, <1>6, <1>7, <2>1, <3>5, FullCounts
    <3> QED
      BY ONLY <2>4, <3>4, <3>5, Zenon DEF Covered
  <2> QED
    BY <2>6, <2>7
<1> QED
  BY ONLY <1>3, <1>9, Zenon DEF Kept

LEMMA DeliverJInv ==
  ASSUME PairInv, JInv, NEW m \in net, Deliver(m)
  PROVE  JInv'
<1>1. \A x \in Parties : Sorted(st[x])
  BY DEF JInv
<1>2. PICK q, p, s, t : Decrypting(m, q, p, s, t)
  BY <1>1, DeliverIs
<1>3. /\ p \in Parties /\ q \in Parties /\ Peer(q) = p /\ \A x \in Parties : x = p \/ x = q
      /\ st'[p] = t /\ st'[q] = st[q] /\ got'[q] = got[q]
      /\ SentBy(p)' = SentBy(p) /\ SentBy(q)' = SentBy(q)
      /\ DecryptKeeps(s, m.header, m.mk, t)
  BY ONLY <1>2, Zenon DEF Decrypting
<1>4. /\ Sorted(st[p]) /\ Stored(p) /\ Unbroken(p) /\ NotAhead(p) /\ Kept(p)
      /\ Sorted(st[q]) /\ Stored(q) /\ Unbroken(q) /\ NotAhead(q) /\ Kept(q)
  BY <1>3 DEF JInv
<1>5. Sorted(st[p])' /\ Stored(p)' /\ Unbroken(p)' /\ NotAhead(p)' /\ Kept(p)'
  <2>1. Sorted(st[p])'
    BY ONLY <1>3, Zenon DEF DecryptKeeps
  <2>2. Stored(p)'
    BY <1>2, <1>4, DeliverStored
  <2>3. Unbroken(p)' /\ NotAhead(p)'
    BY <1>2, <1>4, DeliverUnbroken, DeliverNotAhead
  <2>4. Kept(p)'
    BY <1>2, <1>4, <2>2, DeliverKept
  <2> QED
    BY <2>1, <2>2, <2>3, <2>4
<1>6. Sorted(st[q])' /\ Stored(q)' /\ Unbroken(q)' /\ NotAhead(q)' /\ Kept(q)'
  <2>1. ToParty(q)' = ToParty(q) /\ st'[q] = st[q] /\ SentBy(q)' = SentBy(q) /\ got'[q] = got[q]
    BY ONLY <1>3, Zenon DEF ToParty
  <2>2. Sorted(st[q])'
    BY ONLY <1>4, <2>1, Zenon
  <2>3. Stored(q)'
    BY ONLY <1>4, <2>1 DEF Stored
  <2>4. Unbroken(q)'
    BY ONLY <1>4, <2>1 DEF Unbroken
  <2>5. NotAhead(q)'
    BY <1>2, <1>4, DeliverNotAhead
  <2>6. Kept(q)'
    <3>1. Undelivered(q)' = Undelivered(q)
      BY ONLY <2>1 DEF Undelivered
    <3>2. ASSUME NEW x PROVE Younger(q, x)' = Younger(q, x)
      BY ONLY <2>1 DEF Younger
    <3>3. \A x \in Undelivered(q) : Behind(st[q], x.mk) =>
            Held(st[q], x.mk) \/ Cardinality(Younger(q, x)) >= MaxSkippedTotal
      BY ONLY <1>4, Zenon DEF Kept
    <3>4. \A x \in Undelivered(q) : Behind(st[q], x.mk) =>
            Held(st[q], x.mk) \/ Cardinality(Younger(q, x)') >= MaxSkippedTotal
      BY ONLY <3>2, <3>3
    <3>5. st'[q] = st[q]
      BY <2>1
    <3> QED
      BY ONLY <3>1, <3>4, <3>5, Zenon DEF Kept
  <2> QED
    BY <2>2, <2>3, <2>4, <2>5, <2>6
<1> QED
  BY ONLY <1>3, <1>5, <1>6, Zenon DEF JInv

LEMMA NextJInv == PairInv /\ JInv /\ PairInv' /\ [PairNext]_pairVars => JInv'
<1> SUFFICES ASSUME PairInv, JInv, PairInv', [PairNext]_pairVars PROVE JInv'
  OBVIOUS
<1>1. CASE \E p \in Parties : Encrypt(p)
  BY <1>1, EncryptJInv
<1>2. CASE \E m \in net : Deliver(m)
  BY <1>2, DeliverJInv
<1>3. CASE UNCHANGED pairVars
  <2>1. st' = st /\ net' = net /\ got' = got
    BY <1>3 DEF pairVars
  <2>2. ASSUME NEW p \in Parties
        PROVE  Sorted(st[p])' /\ Stored(p)' /\ Unbroken(p)' /\ NotAhead(p)' /\ Kept(p)'
    <3>1. Sorted(st[p]) /\ Stored(p) /\ Unbroken(p) /\ NotAhead(p) /\ Kept(p)
      BY DEF JInv
    <3>2. SentBy(p)' = SentBy(p) /\ ToParty(p)' = ToParty(p) /\ Undelivered(p)' = Undelivered(p)
      BY <2>1 DEF SentBy, ToParty, Undelivered
    <3>3. Sorted(st[p])' /\ NotAhead(p)'
      BY ONLY <2>1, <3>1, Zenon DEF NotAhead
    <3>4. Stored(p)'
      BY ONLY <2>1, <3>1, <3>2 DEF Stored
    <3>5. Unbroken(p)'
      BY ONLY <2>1, <3>1, <3>2 DEF Unbroken
    <3>6. ASSUME NEW x PROVE Younger(p, x)' = Younger(p, x)
      BY ONLY <2>1, <3>2 DEF Younger
    <3>7. \A x \in Undelivered(p) : Behind(st[p], x.mk) =>
            Held(st[p], x.mk) \/ Cardinality(Younger(p, x)) >= MaxSkippedTotal
      BY ONLY <3>1, Zenon DEF Kept
    <3>8. \A x \in Undelivered(p) : Behind(st[p], x.mk) =>
            Held(st[p], x.mk) \/ Cardinality(Younger(p, x)') >= MaxSkippedTotal
      BY ONLY <3>6, <3>7
    <3>9. Kept(p)'
      BY ONLY <2>1, <3>2, <3>8, Zenon DEF Kept
    <3> QED
      BY <3>3, <3>4, <3>5, <3>9
  <2> QED
    BY ONLY <2>2, Zenon DEF JInv
<1> QED
  BY <1>1, <1>2, <1>3 DEF PairNext

LEMMA KeysAreKept == PairInv /\ JInv => LateKeysKept
<1> SUFFICES ASSUME PairInv, JInv, NEW p \in Parties, NEW m \in Undelivered(p), Passed(p, m)
             PROVE  \/ m.mk \in SkippedKeys(p)
                    \/ Cardinality({y \in ToParty(p) : y.id > m.id /\ Passed(p, y)}) >= MaxSkippedTotal
  BY DEF LateKeysKept
<1>1. m \in ToParty(p)
  BY DEF Undelivered
<1>2. \A x \in ToParty(p) : Passed(p, x) <=> Behind(st[p], x.mk)
  BY PassedIs
<1>3. Behind(st[p], m.mk)
  BY <1>1, <1>2
<1>4. Held(st[p], m.mk) \/ Cardinality(Younger(p, m)) >= MaxSkippedTotal
  BY <1>3 DEF JInv, Kept
<1>5. Younger(p, m) = {y \in ToParty(p) : y.id > m.id /\ Passed(p, y)}
  BY ONLY <1>2 DEF Younger
<1>6. Held(st[p], m.mk) => m.mk \in SkippedKeys(p)
  <2>1. st[p] \in States
    BY DEF PairInv, Types
  <2>2. st[p].mkskipped \in Seq(Entries)
    BY ONLY <2>1 DEF States
  <2>3. DOMAIN st[p].mkskipped = 1 .. Len(st[p].mkskipped)
    BY ONLY <2>2
  <2> QED
    BY ONLY <2>3 DEF Held, SkippedKeys
<1> QED
  BY ONLY <1>4, <1>5, <1>6, Zenon

(* A late message finds its key: _skip_message_keys prunes the dict from   *)
(* its old end, so a message that was passed over and never decrypted has  *)
(* its key in the dict unless _MAX_SKIPPED_TOTAL younger messages were     *)
(* passed as well, for every limit and any order of delivery.              *)
THEOREM LateKeysKeptHolds == PairSpec => []LateKeysKept
<1>1. PairInit => JInv
  BY InitJInv
<1> QED
  BY <1>1, PairInvariance, NextJInv, KeysAreKept, PTL DEF PairSpec

-----------------------------------------------------------------------------
(***************************************************************************)
(* SignalSession.  DH key pairs: A's are odd and B's even, and `f' counts  *)
(* the ones an account has made.                                           *)
(***************************************************************************)
Pres == [base : Int, opk : Nat]
Stanzas == [from : Parties, id : Nat, kind : {"msg", "pkmsg"}, pre : Pres, header : Headers,
            mk : Chains, heard : BOOLEAN, revived : BOOLEAN]

Owns(x, k) == \E j \in Nat : k = 2 * j + Spk(x)
Made(f, k) == \E x \in Parties : Owns(x, k) /\ k < f[x]
MadeRoot(f, r) == r \in Seq(Secrets) /\ Len(r) > 1 /\ \A k \in r[Len(r)] : Made(f, k)

Counters(f) == f \in [Parties -> Nat] /\ \A x \in Parties : f[x] > 2 /\ Owns(x, f[x])

(***************************************************************************)
(* A stored session.  Only the state of an initiator that has heard        *)
(* nothing has no receiving chain, and then dhr is the signed pre-key.     *)
(***************************************************************************)
Usable(f, x, s) ==
  /\ s \in States /\ Sound(s) /\ Sorted(s) /\ CanEncrypt(s)
  /\ s.dhs > 2 /\ s.dhs < f[x] /\ Owns(x, s.dhs)
  /\ s.dhr < f[Peer(x)] /\ Owns(Peer(x), s.dhr)
  /\ s.ckr = NoChain => s.dhr <= 2
  /\ MadeRoot(f, s.rk)

Posted(f, m) ==
  /\ m \in Stanzas
  /\ m.header.dh > 2 /\ m.header.dh < f[m.from] /\ Owns(m.from, m.header.dh)
  /\ MadeRoot(f, m.mk.root)

(***************************************************************************)
(* A session and a stanza: a chain is the sender's alone and has moved on  *)
(* from the stanza's key; a stanza that turns the ratchet brings a younger *)
(* key of the peer.                                                        *)
(***************************************************************************)
Fits(x, s, m) ==
  /\ m.mk.root = s.rk => m.from = x /\ m.mk.n < s.cks.n
  /\ m.from = Peer(x) /\ m.mk.root = Append(s.rk, Dh(s.dhs, m.header.dh)) => m.header.dh > s.dhr

Paired(s, t) ==
  /\ s.rk # t.rk
  /\ t.rk = Append(s.rk, Dh(s.dhs, t.dhs)) => t.dhs > s.dhr

Keyed(ss, w, f) ==
  /\ Counters(f)
  /\ ss \in [Parties -> States \cup {NoSession}]
  /\ \A x \in Parties : ss[x] # NoSession => Usable(f, x, ss[x])
  /\ \A m \in w : Posted(f, m)
  /\ \A x \in Parties : \A m \in w : ss[x] # NoSession => Fits(x, ss[x], m)
  /\ \A x \in Parties : ss[x] # NoSession /\ ss[Peer(x)] # NoSession => Paired(ss[x], ss[Peer(x)])
  /\ \A m, n \in w : m.mk = n.mk => m = n

LEMMA SpkIs == \A x \in Parties : Spk(x) \in 1 .. 2 /\ Spk(x) \in Nat /\ Owns(x, Spk(x)) /\ Spk(x) # Spk(Peer(x))
<1>1. \A x \in Parties : Spk(x) \in 1 .. 2 /\ Spk(x) \in Nat /\ Spk(x) # Spk(Peer(x))
  BY DEF Spk, Parties, Peer
<1>2. ASSUME NEW x \in Parties PROVE Owns(x, Spk(x))
  <2>1. Spk(x) = 2 * 0 + Spk(x)
    BY <1>1
  <2> QED
    BY <2>1 DEF Owns
<1> QED
  BY <1>1, <1>2

LEMMA OwnsMore ==
  ASSUME NEW x \in Parties, NEW k \in Nat, Owns(x, k)
  PROVE  Owns(x, k + 2) /\ Owns(x, k + 4)
<1>1. PICK j \in Nat : k = 2 * j + Spk(x)
  BY DEF Owns
<1>2. Spk(x) \in Nat
  BY SpkIs
<1>3. j + 1 \in Nat /\ j + 2 \in Nat /\ k + 2 = 2 * (j + 1) + Spk(x) /\ k + 4 = 2 * (j + 2) + Spk(x)
  BY <1>1, <1>2
<1> QED
  BY ONLY <1>3 DEF Owns

LEMMA NotMade ==
  ASSUME NEW f, NEW x \in Parties, NEW k \in Nat, f \in [Parties -> Nat], Owns(x, k), f[x] <= k
  PROVE  ~Made(f, k)
<1> SUFFICES ASSUME NEW y \in Parties, Owns(y, k), k < f[y] PROVE FALSE
  BY DEF Made
<1>1. f[x] \in Nat /\ f[y] \in Nat
  OBVIOUS
<1>2. y # x
  BY <1>1
<1>3. y = Peer(x) /\ Spk(x) \in 1 .. 2 /\ Spk(y) \in 1 .. 2 /\ Spk(x) # Spk(y)
  BY <1>2, PeerIs, SpkIs
<1>4. PICK i \in Nat, j \in Nat : k = 2 * i + Spk(x) /\ k = 2 * j + Spk(y)
  BY DEF Owns
<1> QED
  BY ONLY <1>3, <1>4

LEMMA MadeGrows ==
  ASSUME NEW f, NEW g, f \in [Parties -> Nat], g \in [Parties -> Nat], \A x \in Parties : f[x] <= g[x],
         NEW k, Made(f, k)
  PROVE  Made(g, k)
<1>1. PICK x \in Parties : Owns(x, k) /\ k < f[x]
  BY DEF Made
<1>2. f[x] \in Nat /\ g[x] \in Nat /\ f[x] <= g[x] /\ k \in Nat
  BY <1>1, SpkIs DEF Owns
<1>3. k < g[x]
  BY <1>1, <1>2
<1> QED
  BY <1>1, <1>3 DEF Made

LEMMA RootGrows ==
  ASSUME NEW f, NEW g, f \in [Parties -> Nat], g \in [Parties -> Nat], \A x \in Parties : f[x] <= g[x],
         NEW r, MadeRoot(f, r)
  PROVE  MadeRoot(g, r)
BY MadeGrows DEF MadeRoot

(* A root key that ends in a DH output of a key not made yet is new.       *)
LEMMA RootIsNew ==
  ASSUME NEW f, NEW q, MadeRoot(f, q), NEW r \in Seq(Secrets), NEW d, NEW k \in d, ~Made(f, k)
  PROVE  q # Append(r, d)
<1> SUFFICES ASSUME q = Append(r, d) PROVE FALSE
  OBVIOUS
<1>1. Len(q) = Len(r) + 1 /\ q[Len(q)] = d
  OBVIOUS
<1> QED
  BY <1>1 DEF MadeRoot

LEMMA SessionGrows ==
  ASSUME NEW f, NEW g, f \in [Parties -> Nat], g \in [Parties -> Nat], \A x \in Parties : f[x] <= g[x],
         NEW x \in Parties
  PROVE  /\ \A s : Usable(f, x, s) => Usable(g, x, s)
         /\ \A m : Posted(f, m) => Posted(g, m)
<1>1. ASSUME NEW s, Usable(f, x, s) PROVE Usable(g, x, s)
  <2>1. MadeRoot(g, s.rk)
    BY <1>1, RootGrows DEF Usable
  <2>2. /\ f[x] \in Nat /\ g[x] \in Nat /\ f[x] <= g[x]
        /\ f[Peer(x)] \in Nat /\ g[Peer(x)] \in Nat /\ f[Peer(x)] <= g[Peer(x)]
    BY PeerIs
  <2>3. s.dhs \in Nat /\ s.dhr \in Nat
    BY <1>1 DEF Usable, States
  <2>4. s.dhs < g[x] /\ s.dhr < g[Peer(x)]
    BY <1>1, <2>2, <2>3 DEF Usable
  <2> QED
    BY <1>1, <2>1, <2>4 DEF Usable
<1>2. ASSUME NEW m, Posted(f, m) PROVE Posted(g, m)
  <2>1. MadeRoot(g, m.mk.root)
    BY <1>2, RootGrows DEF Posted
  <2>2. m.from \in Parties /\ m.header \in Headers
    BY <1>2 DEF Posted, Stanzas
  <2>3. f[m.from] \in Nat /\ g[m.from] \in Nat /\ f[m.from] <= g[m.from] /\ m.header.dh \in Nat
    BY <2>2 DEF Headers
  <2>4. m.header.dh < g[m.from]
    BY <1>2, <2>3 DEF Posted
  <2> QED
    BY <1>2, <2>1, <2>4 DEF Posted
<1> QED
  BY <1>1, <1>2

(***************************************************************************)
(* An account replaces its session by one on a new root key.               *)
(***************************************************************************)
LEMMA KeyedNew ==
  ASSUME NEW ss, NEW w, NEW f, Keyed(ss, w, f), NEW x \in Parties, NEW t, NEW g,
         Counters(g), \A y \in Parties : f[y] <= g[y],
         Usable(g, x, t), f[x] <= t.dhs,
         NEW r \in Seq(Secrets), NEW d, t.rk = Append(r, d), t.dhs \in d
  PROVE  Keyed([ss EXCEPT ![x] = t], w, g)
<1>1. PICK ts, y : ts = [ss EXCEPT ![x] = t] /\ y = Peer(x)
  OBVIOUS
<1>2. y \in Parties /\ y # x /\ Peer(y) = x /\ \A z \in Parties : z = x \/ z = y
  BY <1>1, PeerIs
<1>3. f \in [Parties -> Nat] /\ g \in [Parties -> Nat] /\ ss \in [Parties -> States \cup {NoSession}]
  BY DEF Keyed, Counters
<1>4. t \in States /\ Owns(x, t.dhs) /\ t.dhs \in Nat /\ t.rk \in Seq(Secrets)
  BY DEF Usable, States
<1>5. ts \in [Parties -> States \cup {NoSession}] /\ ts[x] = t /\ ts[y] = ss[y]
  BY <1>1, <1>2, <1>3, <1>4
<1>6. ~Made(f, t.dhs)
  BY <1>3, <1>4, NotMade
<1>7. ASSUME NEW q, MadeRoot(f, q) PROVE q # t.rk /\ \A e : q # Append(t.rk, Dh(t.dhs, e))
  <2>1. q # t.rk
    BY <1>6, <1>7, RootIsNew
  <2>2. ASSUME NEW e PROVE q # Append(t.rk, Dh(t.dhs, e))
    <3>1. t.dhs \in Dh(t.dhs, e)
      BY DEF Dh
    <3> QED
      BY <1>4, <1>6, <1>7, <3>1, RootIsNew
  <2> QED
    BY <2>1, <2>2
<1>8. \A m \in w : Posted(f, m) /\ Posted(g, m) /\ MadeRoot(f, m.mk.root)
  BY <1>3, SessionGrows DEF Keyed, Posted
<1>9. ASSUME ss[y] # NoSession PROVE Usable(f, y, ss[y]) /\ Usable(g, y, ss[y]) /\ MadeRoot(f, ss[y].rk)
  BY <1>2, <1>3, <1>9, SessionGrows DEF Keyed, Usable
<1>10. \A z \in Parties : ts[z] # NoSession => Usable(g, z, ts[z])
  BY <1>2, <1>5, <1>9
<1>11. ASSUME NEW m \in w PROVE Fits(x, t, m)
  BY <1>7, <1>8 DEF Fits
<1>12. \A z \in Parties : \A m \in w : ts[z] # NoSession => Fits(z, ts[z], m)
  BY <1>2, <1>5, <1>11 DEF Keyed
<1>13. ASSUME ss[y] # NoSession PROVE Paired(t, ss[y]) /\ Paired(ss[y], t)
  <2>1. ss[y].rk # t.rk /\ ss[y].rk # Append(t.rk, Dh(t.dhs, ss[y].dhs))
    BY <1>7, <1>9, <1>13
  <2>2. ss[y].dhr < f[x] /\ ss[y].dhr \in Nat /\ f[x] \in Nat
    BY <1>2, <1>3, <1>9, <1>13 DEF Usable, States
  <2>3. t.dhs > ss[y].dhr
    BY <1>4, <2>2
  <2> QED
    BY <2>1, <2>3 DEF Paired
<1>14. \A z \in Parties : ts[z] # NoSession /\ ts[Peer(z)] # NoSession => Paired(ts[z], ts[Peer(z)])
  BY ONLY <1>1, <1>2, <1>5, <1>13
<1>15. \A m, n \in w : m.mk = n.mk => m = n
  BY DEF Keyed
<1>16. Keyed(ts, w, g)
  BY ONLY <1>5, <1>8, <1>10, <1>12, <1>14, <1>15, Counters(g) DEF Keyed
<1> QED
  BY ONLY <1>1, <1>16, Zenon

(* An account's session moves on without a new root key.                   *)
LEMMA KeyedSame ==
  ASSUME NEW ss, NEW w, NEW f, Keyed(ss, w, f), NEW x \in Parties, ss[x] # NoSession, NEW t,
         Usable(f, x, t),
         t.rk = ss[x].rk, t.cks = ss[x].cks, t.dhs = ss[x].dhs, t.dhr = ss[x].dhr
  PROVE  Keyed([ss EXCEPT ![x] = t], w, f)
<1>1. PICK ts, y, s : ts = [ss EXCEPT ![x] = t] /\ y = Peer(x) /\ s = ss[x]
  OBVIOUS
<1>2. y \in Parties /\ y # x /\ Peer(y) = x /\ \A z \in Parties : z = x \/ z = y
  BY <1>1, PeerIs
<1>3. ss \in [Parties -> States \cup {NoSession}] /\ t \in States
  BY DEF Keyed, Usable
<1>5. ts \in [Parties -> States \cup {NoSession}] /\ ts[x] = t /\ ts[y] = ss[y]
  BY <1>1, <1>2, <1>3
<1>6. ASSUME NEW m \in w PROVE Fits(x, t, m)
  <2>1. Fits(x, ss[x], m)
    BY DEF Keyed
  <2> QED
    BY <2>1 DEF Fits
<1>7. ASSUME ss[y] # NoSession PROVE Paired(t, ss[y]) /\ Paired(ss[y], t)
  <2>1. Paired(ss[x], ss[y]) /\ Paired(ss[y], ss[x])
    BY <1>1, <1>2, <1>7 DEF Keyed
  <2> QED
    BY <2>1 DEF Paired
<1>8. \A z \in Parties : \A m \in w : ts[z] # NoSession => Fits(z, ts[z], m)
  BY <1>2, <1>5, <1>6 DEF Keyed
<1>9. \A z \in Parties : ts[z] # NoSession /\ ts[Peer(z)] # NoSession => Paired(ts[z], ts[Peer(z)])
  BY ONLY <1>1, <1>2, <1>5, <1>7
<1>10. \A z \in Parties : ts[z] # NoSession => Usable(f, z, ts[z])
  BY <1>2, <1>5 DEF Keyed
<1>11. Counters(f) /\ (\A m \in w : Posted(f, m)) /\ (\A m, n \in w : m.mk = n.mk => m = n)
  BY DEF Keyed
<1>12. Keyed(ts, w, f)
  BY ONLY <1>5, <1>8, <1>9, <1>10, <1>11 DEF Keyed
<1> QED
  BY ONLY <1>1, <1>12, Zenon

LEMMA KeyedDrop ==
  ASSUME NEW ss, NEW w, NEW f, Keyed(ss, w, f), NEW x \in Parties
  PROVE  Keyed([ss EXCEPT ![x] = NoSession], w, f)
<1>1. PICK ts : ts = [ss EXCEPT ![x] = NoSession]
  OBVIOUS
<1>2. /\ ts \in [Parties -> States \cup {NoSession}]
      /\ \A z \in Parties : ts[z] # NoSession => ts[z] = ss[z] /\ ss[z] # NoSession
  BY <1>1 DEF Keyed
<1>3. Keyed(ts, w, f)
  BY <1>2, PeerIs DEF Keyed
<1> QED
  BY ONLY <1>1, <1>3, Zenon

(***************************************************************************)
(* An account encrypts a stanza with its session.                          *)
(***************************************************************************)
LEMMA KeyedSend ==
  ASSUME NEW ss, NEW w, NEW f, Keyed(ss, w, f), NEW x \in Parties, ss[x] # NoSession,
         NEW m \in Stanzas, m.from = x, m.header = EncryptHeader(ss[x]), m.mk = EncryptKey(ss[x])
  PROVE  /\ Keyed([ss EXCEPT ![x] = EncryptState(@)], w \cup {m}, f)
         /\ \A n \in w : n.mk # m.mk
<1>1. PICK y, s, t, ts, v : /\ y = Peer(x) /\ s = ss[x] /\ t = EncryptState(s)
                            /\ ts = [ss EXCEPT ![x] = t] /\ v = w \cup {m}
  OBVIOUS
<1>2. y \in Parties /\ y # x /\ Peer(y) = x /\ Peer(x) = y /\ \A z \in Parties : z = x \/ z = y
  BY <1>1, PeerIs
<1>3. ss \in [Parties -> States \cup {NoSession}] /\ s \in States /\ Sound(s) /\ CanEncrypt(s) /\ Usable(f, x, s)
  BY <1>1 DEF Keyed, Usable
<1>4. /\ t \in States /\ Sound(t)
      /\ t.dhs = s.dhs /\ t.dhr = s.dhr /\ t.rk = s.rk /\ t.ckr = s.ckr
      /\ t.mkskipped = s.mkskipped /\ t.cks # NoChain /\ t.cks.n = s.ns + 1
      /\ s.cks.root = s.rk /\ s.cks.n = s.ns
  BY ONLY <1>1, <1>3, EncryptStateIs
<1>5. s.ns \in Nat /\ m.mk.root = s.rk /\ m.mk.n = s.ns /\ m.header.dh = s.dhs
  BY <1>1, <1>3, <1>4 DEF States, EncryptKey, EncryptHeader
<1>6. Usable(f, x, t)
  BY ONLY <1>3, <1>4 DEF Usable, Sorted, CanEncrypt
<1>7. Posted(f, m)
  BY <1>3, <1>5 DEF Posted, Usable
<1>8. ts \in [Parties -> States \cup {NoSession}] /\ ts[x] = t /\ ts[y] = ss[y]
  BY <1>1, <1>2, <1>3, <1>4
<1>9. \A n \in w : Fits(x, s, n) /\ Posted(f, n)
  BY <1>1 DEF Keyed
<1>10. ASSUME NEW n \in w PROVE n.mk # m.mk /\ Fits(x, t, n)
  <2>1. n.mk.n \in Int /\ n \in Stanzas
    BY <1>9 DEF Posted, Stanzas, Chains
  <2>2. n.mk.root = s.rk => n.from = x /\ n.mk.n < s.ns
    BY <1>4, <1>9 DEF Fits
  <2>3. n.mk # m.mk
    BY ONLY <1>5, <2>1, <2>2
  <2>4. n.mk.root = t.rk => n.from = x /\ n.mk.n < t.cks.n
    BY ONLY <1>4, <1>5, <2>1, <2>2
  <2> QED
    BY <1>4, <1>9, <2>3, <2>4 DEF Fits
<1>11. Fits(x, t, m)
  BY ONLY <1>2, <1>4, <1>5, m.from = x DEF Fits
<1>12. ASSUME ss[y] # NoSession PROVE Fits(y, ss[y], m) /\ Paired(t, ss[y]) /\ Paired(ss[y], t)
  <2>1. Paired(s, ss[y]) /\ Paired(ss[y], s)
    BY <1>1, <1>2, <1>12 DEF Keyed
  <2>2. Paired(t, ss[y]) /\ Paired(ss[y], t)
    BY <1>4, <2>1 DEF Paired
  <2> QED
    BY <1>2, <1>5, <2>1, <2>2 DEF Fits, Paired
<1>13. \A z \in Parties : \A n \in v : ts[z] # NoSession => Fits(z, ts[z], n)
  BY <1>1, <1>2, <1>8, <1>10, <1>11, <1>12 DEF Keyed
<1>14. \A z \in Parties : ts[z] # NoSession /\ ts[Peer(z)] # NoSession => Paired(ts[z], ts[Peer(z)])
  BY ONLY <1>2, <1>8, <1>12
<1>15. \A z \in Parties : ts[z] # NoSession => Usable(f, z, ts[z])
  BY <1>2, <1>6, <1>8 DEF Keyed
<1>16. Counters(f) /\ (\A n \in v : Posted(f, n)) /\ (\A n, k \in v : n.mk = k.mk => n = k)
  BY <1>1, <1>7, <1>10 DEF Keyed
<1>17. Keyed(ts, v, f)
  BY ONLY <1>8, <1>13, <1>14, <1>15, <1>16 DEF Keyed
<1>18. ts = [ss EXCEPT ![x] = EncryptState(@)]
  BY <1>1
<1> QED
  BY ONLY <1>1, <1>10, <1>17, <1>18, Zenon

(***************************************************************************)
(* The state of a new initiator.                                           *)
(***************************************************************************)
LEMMA SecretIs ==
  ASSUME NEW x \in Parties, NEW pre \in Pres
  PROVE  /\ Secret(x, pre) \in Seq(Secrets) /\ Len(Secret(x, pre)) = 1
         /\ Secret(x, pre)[1] = [init |-> x, base |-> pre.base, opk |-> pre.opk]
         /\ Secret(x, pre)[1] \in X3dhSecrets
<1>1. [init |-> x, base |-> pre.base, opk |-> pre.opk] \in X3dhSecrets
  BY DEF Pres, X3dhSecrets
<1>2. X3dhSecrets \subseteq Secrets
  BY ONLY SMT DEF Secrets
<1>3. PICK a : a = [init |-> x, base |-> pre.base, opk |-> pre.opk]
  OBVIOUS
<1>4. Secret(x, pre) = <<a>>
  BY <1>3 DEF Secret
<1>5. a \in Secrets /\ a \in X3dhSecrets
  BY ONLY <1>1, <1>2, <1>3, Zenon
<1>6. <<a>> \in Seq(Secrets) /\ Len(<<a>>) = 1 /\ <<a>>[1] = a
  BY ONLY <1>5
<1> QED
  BY ONLY <1>3, <1>4, <1>5, <1>6, Zenon

NewAlice(f, g, x, pre, t) ==
  /\ Counters(g) /\ \A y \in Parties : f[y] <= g[y]
  /\ Usable(g, x, t) /\ t.dhs = f[x] + 2
  /\ t.rk = Append(Secret(x, pre), Dh(f[x] + 2, Spk(Peer(x))))
  /\ t.ckr = NoChain /\ t.mkskipped = <<>> /\ t.nr = 0 /\ t.ns = 0 /\ t.pn = 0
  /\ t.dhr = Spk(Peer(x))

LEMMA AliceUsable ==
  ASSUME NEW f, Counters(f), NEW x \in Parties, NEW pre \in Pres, NEW g, g = [f EXCEPT ![x] = @ + 4],
         NEW t, t = RatchetInitAlice(Secret(x, pre), Spk(Peer(x)), f[x] + 2)
  PROVE  NewAlice(f, g, x, pre, t)
<1>1. PICK y, k, p, sk, r, c : /\ y = Peer(x) /\ k = f[x] + 2 /\ p = Spk(y) /\ sk = Secret(x, pre)
                               /\ r = KdfRk(sk, Dh(k, p)) /\ c = ChainOf(r)
  OBVIOUS
<1>2. y \in Parties /\ y # x /\ \A z \in Parties : z = x \/ z = y
  BY <1>1, PeerIs
<1>3. f \in [Parties -> Nat] /\ f[x] \in Nat /\ f[y] \in Nat /\ f[x] > 2 /\ f[y] > 2 /\ Owns(x, f[x])
  BY <1>2 DEF Counters
<1>4. p \in Nat /\ p \in 1 .. 2 /\ Owns(y, p) /\ k \in Nat /\ Owns(x, k) /\ Owns(x, f[x] + 4)
  BY <1>1, <1>2, <1>3, SpkIs, OwnsMore
<1>5. g \in [Parties -> Nat] /\ g[x] = f[x] + 4 /\ g[y] = f[y]
  BY <1>2, <1>3
<1>6. Counters(g) /\ \A z \in Parties : f[z] <= g[z]
  BY <1>2, <1>3, <1>4, <1>5 DEF Counters
<1>7. sk \in Seq(Secrets) /\ Len(sk) = 1 /\ Dh(k, p) \in Secrets
  BY <1>1, <1>4, SecretIs, DhType
<1>8. r \in Seq(Secrets) /\ Len(r) = 2 /\ r = Append(sk, Dh(k, p)) /\ r[Len(r)] = Dh(k, p)
  <2>1. PICK d : d = Dh(k, p)
    OBVIOUS
  <2>2. r = Append(sk, d) /\ d \in Secrets
    BY <1>1, <1>7, <2>1 DEF KdfRk
  <2>3. r \in Seq(Secrets) /\ Len(r) = 2
    <3>1. r \in Seq(Secrets) /\ Len(r) = Len(sk) + 1
      BY ONLY <1>7, <2>2, AppendRoot DEF KdfRk
    <3> QED
      BY ONLY <1>7, <3>1
  <2>4. r[Len(r)] = d
    BY ONLY <1>7, <2>2, <2>3
  <2> QED
    BY ONLY <2>1, <2>2, <2>3, <2>4, Zenon
<1>9. c \in Chains /\ c.root = r /\ c.n = 0 /\ c # NoChain
  BY <1>1, <1>8, ChainOfIs
<1>10. t = [dhs |-> k, dhr |-> p, rk |-> r, cks |-> c, ckr |-> NoChain,
            ns |-> 0, nr |-> 0, pn |-> 0, mkskipped |-> <<>>]
  BY <1>1 DEF RatchetInitAlice
<1>11. <<>> \in Seq(Entries) /\ Len(<<>>) = 0 /\ (\A i : i \notin 1 .. 0)
  OBVIOUS
<1>12. t \in States
  <2>1. NoChain \in Chains /\ p \in Nat /\ 0 \in Nat
    BY <1>4, NoChainType
  <2> QED
    BY ONLY <1>4, <1>8, <1>9, <1>10, <1>11, <2>1 DEF States
<1>13. /\ t.dhs = k /\ t.dhr = p /\ t.rk = r /\ t.cks = c /\ t.ckr = NoChain
       /\ t.ns = 0 /\ t.nr = 0 /\ t.pn = 0 /\ t.mkskipped = <<>>
  BY ONLY <1>10
<1>14. Sound(t) /\ Sorted(t) /\ CanEncrypt(t)
  <2>1. Len(t.rk) > 0 /\ Len(t.mkskipped) <= MaxSkippedTotal
    BY <1>8, <1>11, <1>13, RatchetAssumption
  <2> QED
    BY ONLY <1>9, <1>11, <1>13, <2>1 DEF Sound, Sorted, CanEncrypt
<1>15. MadeRoot(g, r)
  <2>1. Made(g, k) /\ Made(g, p)
    <3>1. k < g[x] /\ p < g[y]
      BY <1>1, <1>3, <1>4, <1>5
    <3> QED
      BY <1>2, <1>4, <3>1 DEF Made
  <2> QED
    BY <1>8, <2>1 DEF MadeRoot, Dh
<1>16. Usable(g, x, t)
  <2>1. k > 2 /\ k < g[x] /\ p < g[y] /\ p <= 2
    BY <1>1, <1>3, <1>4, <1>5
  <2> QED
    BY <1>1, <1>4, <1>12, <1>13, <1>14, <1>15, <2>1 DEF Usable
<1> QED
  BY <1>1, <1>6, <1>8, <1>13, <1>16 DEF NewAlice

(***************************************************************************)
(* ratchet_decrypt on a stored session.                                    *)
(***************************************************************************)
LEMMA TurnRoot ==
  ASSUME NEW s \in States, Sound(s), NEW h \in Headers, NEW mk, NEW dh \in Nat, NEW t,
         ByTurn(s, h, mk, dh, t)
  PROVE  mk.root = KdfRk(s.rk, Dh(s.dhs, h.dh))
<1>1. PICK v, w : v = SkipMessageKeys(s, h.pn) /\ w = DhRatchet(v, h, dh)
  OBVIOUS
<1>2. h.pn \in Nat /\ h.n \in Nat /\ h.dh \in Nat /\ s.rk \in Seq(Secrets) /\ s.dhs \in Nat
  BY DEF Headers, States
<1>3. Skips(s, h.pn, v)
  BY <1>1, <1>2, SkipSound
<1>4. v \in States /\ v.rk = s.rk /\ v.dhs = s.dhs
  BY <1>3 DEF Skips
<1>5. Turns(v, h, dh, w)
  BY <1>1, <1>4, TurnIs
<1>6. PICK r : r = KdfRk(s.rk, Dh(s.dhs, h.dh))
  OBVIOUS
<1>7. r \in Seq(Secrets)
  BY <1>2, <1>6, AppendRoot, DhType
<1>8. w.ckr.root = r /\ w \in States
  BY <1>4, <1>5, <1>6, <1>7, ChainOfIs DEF Turns
<1>9. SkipMessageKeys(w, h.n).ckr.root = w.ckr.root
  BY <1>2, <1>8, SkipRoot
<1>10. SkipMessageKeys(w, h.n).ckr = mk
  BY <1>1 DEF ByTurn, OnChain
<1> QED
  BY ONLY <1>6, <1>8, <1>9, <1>10, Zenon

(***************************************************************************)
(* The root key of a chain ends in the DH output that its sender's key and *)
(* one of the receiver's give, so it tells the sender's key; the dict      *)
(* files each key under the key pair its chain tells.                      *)
(***************************************************************************)
Named(y, dh, r) ==
  Owns(y, dh) /\ \E e \in Nat : Owns(Peer(y), e) /\ r[Len(r)] = Dh(dh, e)

AllNamed(y, s) ==
  \A i \in 1 .. Len(s.mkskipped) : Named(y, s.mkskipped[i].dh, s.mkskipped[i].mk.root)

NamesKept(y, s, h, mk, t) ==
  /\ AllNamed(y, s) /\ Named(y, h.dh, mk.root)
  /\ s.ckr # NoChain => Named(y, s.dhr, s.ckr.root)
  => AllNamed(y, t)

LEMMA SkipNames ==
  ASSUME NEW s \in States, NEW y, AllNamed(y, s), NEW until \in Nat,
         s.ckr # NoChain => s.ckr.n = s.nr /\ Named(y, s.dhr, s.ckr.root)
  PROVE  AllNamed(y, SkipMessageKeys(s, until))
<1>1. CASE s.ckr = NoChain \/ until <= s.nr
  BY <1>1 DEF SkipMessageKeys
<1>2. CASE ~(s.ckr = NoChain \/ until <= s.nr)
  <2>1. PICK t, old, new, q, count :
          /\ t = SkipMessageKeys(s, until) /\ count = until - s.nr /\ old = s.mkskipped
          /\ new = Skipped(s, count) /\ q = Newest(old \o new, MaxSkippedTotal)
    OBVIOUS
  <2>2. s.nr \in Nat /\ old \in Seq(Entries)
    BY <2>1 DEF States
  <2>3. count \in Nat /\ s.ckr.n = s.nr
    BY <1>2, <2>1, <2>2
  <2>4. t = [s EXCEPT !.mkskipped = q, !.ckr.n = @ + count, !.nr = until]
    BY <1>2, <2>1 DEF SkipMessageKeys, Skipped
  <2>5. t.mkskipped = q
    BY ONLY <2>4, s \in States DEF States
  <2>6. /\ new \in Seq(Entries) /\ Len(new) = count
        /\ \A i \in 1 .. count : new[i].dh = s.dhr /\ new[i].mk.root = s.ckr.root
    BY ONLY <2>1, <2>3, s \in States, SkippedIs, Zenon
  <2>7. EndOf(q, old, new)
    BY ONLY <2>1, <2>2, <2>6, NewestOfTwo, RatchetAssumption
  <2>8. \A i \in 1 .. Len(q) : (\E j \in 1 .. Len(old) : q[i] = old[j]) \/ (\E j \in 1 .. Len(new) : q[i] = new[j])
    BY ONLY <2>7, Zenon DEF EndOf
  <2>9. \A j \in 1 .. Len(old) : Named(y, old[j].dh, old[j].mk.root)
    BY <2>1 DEF AllNamed
  <2>10. \A j \in 1 .. Len(new) : Named(y, new[j].dh, new[j].mk.root)
    <3>1. Named(y, s.dhr, s.ckr.root)
      BY <1>2
    <3> QED
      BY ONLY <2>6, <3>1, Zenon
  <2>11. \A i \in 1 .. Len(q) : Named(y, q[i].dh, q[i].mk.root)
    BY ONLY <2>8, <2>9, <2>10, Zenon
  <2>12. AllNamed(y, t)
    BY ONLY <2>5, <2>11, Zenon DEF AllNamed
  <2> QED
    BY ONLY <2>1, <2>12, Zenon
<1> QED
  BY <1>1, <1>2

LEMMA OnChainNames ==
  ASSUME NEW s \in States, NEW y, AllNamed(y, s), NEW n \in Nat, NEW mk, NEW t, OnChain(s, n, mk, t),
         s.ckr # NoChain => s.ckr.n = s.nr /\ Named(y, s.dhr, s.ckr.root)
  PROVE  AllNamed(y, t)
<1>1. PICK u : u = SkipMessageKeys(s, n)
  OBVIOUS
<1>2. AllNamed(y, u) /\ t = Advance(u)
  BY <1>1, SkipNames DEF OnChain
<1>3. t.mkskipped = u.mkskipped
  <2>1. \E q, c, r : u = [s EXCEPT !.mkskipped = q, !.ckr = c, !.nr = r]
    <3>1. CASE s.ckr = NoChain \/ n <= s.nr
      <4>1. u = s
        BY <1>1, <3>1 DEF SkipMessageKeys
      <4>2. s = [s EXCEPT !.mkskipped = s.mkskipped, !.ckr = s.ckr, !.nr = s.nr]
        BY DEF States
      <4> QED
        BY ONLY <4>1, <4>2
    <3>2. CASE ~(s.ckr = NoChain \/ n <= s.nr)
      <4>1. PICK q, c : /\ q = Newest(s.mkskipped \o Skipped(s, n - s.nr), MaxSkippedTotal)
                        /\ c = [s.ckr EXCEPT !.n = @ + (n - s.nr)]
        OBVIOUS
      <4>2. u = [s EXCEPT !.mkskipped = q, !.ckr.n = @ + (n - s.nr), !.nr = n]
        BY <1>1, <3>2, <4>1 DEF SkipMessageKeys, Skipped
      <4>3. u = [s EXCEPT !.mkskipped = q, !.ckr = c, !.nr = n]
        BY ONLY <4>1, <4>2, s \in States DEF States
      <4> QED
        BY ONLY <4>3
    <3> QED
      BY <3>1, <3>2
  <2> QED
    BY ONLY <1>2, <2>1, s \in States DEF Advance, States
<1> QED
  BY ONLY <1>2, <1>3, Zenon DEF AllNamed

LEMMA DecryptNames ==
  ASSUME NEW s \in States, Sound(s), NEW h \in Headers, NEW mk \in Chains, NEW dh \in Nat, h.dh # NoDh,
         RatchetDecrypt(s, h, mk, dh).ok,
         NEW t, t = RatchetDecrypt(s, h, mk, dh).state, NEW y
  PROVE  NamesKept(y, s, h, mk, t)
<1> SUFFICES ASSUME AllNamed(y, s), Named(y, h.dh, mk.root), s.ckr # NoChain => Named(y, s.dhr, s.ckr.root)
             PROVE  AllNamed(y, t)
  BY DEF NamesKept
<1>1. \/ ByPop(s, mk, t)
      \/ h.dh = s.dhr /\ OnChain(s, h.n, mk, t)
      \/ h.dh # s.dhr /\ ByTurn(s, h, mk, dh, t)
  BY DecryptCases
<1>2. h.n \in Nat /\ h.pn \in Nat /\ s.mkskipped \in Seq(Entries) /\ s.rk \in Seq(Secrets) /\ s.dhs \in Nat /\ h.dh \in Nat
  BY DEF Headers, States
<1>3. s.ckr # NoChain => s.ckr.n = s.nr
  BY DEF Sound
<1>4. CASE ByPop(s, mk, t)
  <2>1. PICK i \in 1 .. Len(s.mkskipped) : t = [s EXCEPT !.mkskipped = PopSkipped(@, i)]
    BY <1>4 DEF ByPop
  <2>2. PICK q, d : q = s.mkskipped /\ d = DropAt(q, i)
    OBVIOUS
  <2>3. t.mkskipped = d
    BY ONLY <2>1, <2>2, s \in States DEF States, PopSkipped
  <2>4. q \in Seq(Entries) /\ i \in 1 .. Len(q)
    BY <1>2, <2>2
  <2>5. Len(d) = Len(q) - 1 /\ \A j \in 1 .. Len(q) - 1 : d[j] = IF j < i THEN q[j] ELSE q[j + 1]
    BY ONLY <2>2, <2>4, DropIs, Zenon
  <2>6. \A j \in 1 .. Len(d) : \E k \in 1 .. Len(q) : d[j] = q[k]
    BY ONLY <2>4, <2>5
  <2>7. \A k \in 1 .. Len(q) : Named(y, q[k].dh, q[k].mk.root)
    BY <2>2 DEF AllNamed
  <2>8. \A j \in 1 .. Len(d) : Named(y, d[j].dh, d[j].mk.root)
    BY ONLY <2>6, <2>7, Zenon
  <2> QED
    BY ONLY <2>3, <2>8, Zenon DEF AllNamed
<1>5. CASE h.dh = s.dhr /\ OnChain(s, h.n, mk, t)
  BY <1>2, <1>3, <1>5, OnChainNames
<1>6. CASE h.dh # s.dhr /\ ByTurn(s, h, mk, dh, t)
  <2>1. PICK v, w : v = SkipMessageKeys(s, h.pn) /\ w = DhRatchet(v, h, dh)
    OBVIOUS
  <2>2. AllNamed(y, v)
    BY <1>2, <1>3, <2>1, SkipNames
  <2>3. v \in States /\ v.rk = s.rk /\ v.dhs = s.dhs
    BY <1>2, <2>1, SkipSound DEF Skips
  <2>4. Turns(v, h, dh, w)
    BY <2>1, <2>3, TurnIs
  <2>5. w.mkskipped = v.mkskipped /\ w.dhr = h.dh /\ w.nr = 0 /\ w \in States
        /\ w.ckr = ChainOf(KdfRk(s.rk, Dh(s.dhs, h.dh)))
    BY <2>3, <2>4 DEF Turns
  <2>6. AllNamed(y, w)
    BY ONLY <2>2, <2>5, Zenon DEF AllNamed
  <2>7. PICK r : r = KdfRk(s.rk, Dh(s.dhs, h.dh))
    OBVIOUS
  <2>8. r \in Seq(Secrets) /\ mk.root = r
    BY <1>2, <1>6, <2>7, AppendRoot, DhType, TurnRoot
  <2>9. w.ckr.root = r /\ w.ckr.n = 0
    BY <2>5, <2>7, <2>8, ChainOfIs
  <2>10. w.ckr.n = w.nr /\ Named(y, w.dhr, w.ckr.root)
    BY ONLY <2>5, <2>8, <2>9, Named(y, h.dh, mk.root), Zenon
  <2>11. OnChain(w, h.n, mk, t)
    BY <1>6, <2>1 DEF ByTurn
  <2> QED
    BY ONLY <1>2, <2>5, <2>6, <2>10, <2>11, OnChainNames
<1> QED
  BY <1>1, <1>4, <1>5, <1>6

(* What a message the session decrypts does to it.                         *)
Reads(f, x, s, m, t) ==
  /\ UsesUp(s, m.mk, t) /\ DecryptKeeps(s, m.header, m.mk, t)
  /\ NamesKept(m.from, s, m.header, m.mk, t)
  /\ \/ SameChain(s, m.mk, t) /\ Usable(f, x, t)
     \/ /\ NewChain(s, m.header, m.mk, f[x], t)
        /\ \A g : g = [f EXCEPT ![x] = @ + 2] => Counters(g) /\ Usable(g, x, t)

(* A state that turned to a message's chain.                               *)
LEMMA TurnedUsable ==
  ASSUME NEW f, Counters(f), NEW x \in Parties, NEW g, g = [f EXCEPT ![x] = @ + 2],
         NEW s \in States, NEW m, Posted(f, m), m.from = Peer(x), NEW t, t \in States, Sound(t), Sorted(t),
         NewChain(s, m.header, m.mk, f[x], t)
  PROVE  Counters(g) /\ Usable(g, x, t)
<1>1. PICK y, k, h : y = Peer(x) /\ k = f[x] /\ h = m.header
  OBVIOUS
<1>2. y \in Parties /\ y # x /\ \A z \in Parties : z = x \/ z = y
  BY <1>1, PeerIs
<1>3. f \in [Parties -> Nat] /\ k \in Nat /\ f[y] \in Nat /\ k > 2 /\ f[y] > 2 /\ Owns(x, k) /\ Owns(x, k + 2)
      /\ Owns(y, f[y])
  BY <1>1, <1>2, OwnsMore DEF Counters
<1>4. g \in [Parties -> Nat] /\ g[x] = k + 2 /\ g[y] = f[y]
  BY <1>1, <1>2, <1>3
<1>5. Counters(g)
  BY <1>2, <1>3, <1>4 DEF Counters
<1>6. h \in Headers /\ m.mk \in Chains /\ h.dh > 2 /\ h.dh < f[y] /\ Owns(y, h.dh)
  BY <1>1 DEF Posted, Stanzas
<1>7. h.dh \in Nat /\ m.mk.root \in Seq(Secrets)
  BY <1>6 DEF Headers, Chains
<1>8. /\ t.dhs = k /\ t.dhr = h.dh /\ t.ckr # NoChain
      /\ t.rk = KdfRk(m.mk.root, Dh(k, h.dh)) /\ t.cks = ChainOf(t.rk)
  BY <1>1 DEF NewChain
<1>9. Dh(k, h.dh) \in Secrets
  BY <1>3, <1>7, DhType
<1>10. t.rk \in Seq(Secrets) /\ Len(t.rk) = Len(m.mk.root) + 1 /\ t.rk[Len(t.rk)] = Dh(k, h.dh)
  BY <1>7, <1>8, <1>9 DEF KdfRk
<1>11. CanEncrypt(t)
  BY <1>8, <1>10, ChainOfIs DEF CanEncrypt
<1>12. Made(g, k) /\ Made(g, h.dh)
  <2>1. k < g[x] /\ h.dh < g[y]
    BY <1>3, <1>4, <1>6, <1>7
  <2> QED
    BY <1>2, <1>3, <1>6, <2>1 DEF Made
<1>13. MadeRoot(g, t.rk)
  <2>1. Len(m.mk.root) > 1
    BY DEF Posted, MadeRoot
  <2>2. Len(t.rk) > 1
    BY <1>7, <1>10, <2>1
  <2> QED
    BY <1>10, <1>12, <2>2 DEF MadeRoot, Dh
<1>14. k < g[x] /\ h.dh < g[y]
  BY <1>3, <1>4, <1>6, <1>7
<1> QED
  BY <1>1, <1>3, <1>5, <1>6, <1>8, <1>11, <1>13, <1>14 DEF Usable

LEMMA ReadsSession ==
  ASSUME NEW ss, NEW w, NEW f, Keyed(ss, w, f), NEW x \in Parties, ss[x] # NoSession,
         NEW m \in w, m.from = Peer(x), RatchetDecrypt(ss[x], m.header, m.mk, f[x]).ok,
         NEW t, t = RatchetDecrypt(ss[x], m.header, m.mk, f[x]).state
  PROVE  Reads(f, x, ss[x], m, t)
<1>1. PICK s, h, mk, k : s = ss[x] /\ h = m.header /\ mk = m.mk /\ k = f[x]
  OBVIOUS
<1>2. Usable(f, x, s) /\ Posted(f, m) /\ Fits(x, s, m) /\ Counters(f)
  BY <1>1 DEF Keyed
<1>3. s \in States /\ Sound(s) /\ Sorted(s) /\ h \in Headers /\ mk \in Chains /\ k \in Nat
  BY <1>1, <1>2 DEF Usable, Posted, Stanzas, Counters
<1>4. h.dh \in Nat /\ h.dh > 2 /\ s.dhr \in Nat /\ h.dh # NoDh /\ h.n \in Nat
  BY <1>1, <1>2, <1>3 DEF Posted, Headers, States, NoDh
<1>5. h.dh = s.dhr => s.ckr # NoChain
  BY <1>2, <1>4 DEF Usable
<1>6. RatchetDecrypt(s, h, mk, k).ok /\ t = RatchetDecrypt(s, h, mk, k).state
  BY <1>1
<1>7. h.dh < s.dhr => Len(mk.root) <= Len(s.rk)
  <2> SUFFICES ASSUME h.dh < s.dhr PROVE Len(mk.root) <= Len(s.rk)
    OBVIOUS
  <2>1. ByPop(s, mk, t) \/ (h.dh # s.dhr /\ ByTurn(s, h, mk, k, t))
    BY <1>4, <1>6, DecryptCases
  <2>2. ~ByTurn(s, h, mk, k, t)
    <3> SUFFICES ASSUME ByTurn(s, h, mk, k, t) PROVE FALSE
      OBVIOUS
    <3>1. mk.root = Append(s.rk, Dh(s.dhs, h.dh))
      BY <1>3, TurnRoot DEF KdfRk
    <3> QED
      BY <1>1, <1>2, <1>4, <3>1 DEF Fits
  <2>3. PICK i \in 1 .. Len(s.mkskipped) : s.mkskipped[i].mk = mk
    BY <2>1, <2>2 DEF ByPop
  <2>4. s.mkskipped # <<>> /\ s.ckr \in Chains /\ s.rk \in Seq(Secrets)
    BY <1>3, <2>3 DEF States
  <2>5. Behind(s, mk) /\ Len(s.ckr.root) + 1 = Len(s.rk)
    BY <1>3, <2>3, <2>4 DEF Sound
  <2>6. Len(mk.root) \in Nat /\ Len(s.ckr.root) \in Nat /\ Len(s.rk) \in Nat
    BY <1>3, <2>4 DEF Chains
  <2> QED
    BY <2>5, <2>6 DEF Behind
<1>8. UsesUp(s, mk, t) /\ (SameChain(s, mk, t) \/ NewChain(s, h, mk, k, t))
  BY ONLY <1>3, <1>4, <1>5, <1>6, <1>7, DecryptSound
<1>9. DecryptKeeps(s, h, mk, t)
  BY ONLY <1>3, <1>4, <1>5, <1>6, <1>7, DecryptCovers
<1>13. NamesKept(m.from, s, h, mk, t)
  BY ONLY <1>3, <1>4, <1>6, DecryptNames
<1>10. t \in States /\ Sound(t) /\ Sorted(t)
  BY <1>8, <1>9 DEF UsesUp, DecryptKeeps
<1>11. CASE SameChain(s, mk, t)
  <2>1. Usable(f, x, t)
    BY ONLY <1>2, <1>10, <1>11 DEF Usable, SameChain, CanEncrypt
  <2> QED
    BY <1>1, <1>8, <1>9, <1>11, <1>13, <2>1 DEF Reads
<1>12. CASE NewChain(s, h, mk, k, t)
  <2>1. \A g : g = [f EXCEPT ![x] = @ + 2] => Counters(g) /\ Usable(g, x, t)
    BY <1>1, <1>2, <1>3, <1>10, <1>12, TurnedUsable
  <2> QED
    BY <1>1, <1>8, <1>9, <1>12, <1>13, <2>1 DEF Reads
<1> QED
  BY <1>8, <1>11, <1>12

(* ... and on the state a pkmsg starts.                                    *)
LEMMA ReadsPreamble ==
  ASSUME NEW f, Counters(f), NEW x \in Parties, NEW m, Posted(f, m), m.from = Peer(x),
         NEW s, s = RatchetInitBob(Secret(m.from, m.pre), Spk(x)),
         RatchetDecrypt(s, m.header, m.mk, f[x]).ok,
         NEW t, t = RatchetDecrypt(s, m.header, m.mk, f[x]).state
  PROVE  /\ Reads(f, x, s, m, t) /\ NewChain(s, m.header, m.mk, f[x], t)
         /\ m.mk.root = Append(Secret(m.from, m.pre), Dh(Spk(x), m.header.dh))
         /\ s.mkskipped = <<>> /\ s.ckr = NoChain /\ s.rk = Secret(m.from, m.pre) /\ s.dhs \in Nat /\ s.ns = 0
<1>1. PICK h, mk, k, sk : h = m.header /\ mk = m.mk /\ k = f[x] /\ sk = Secret(m.from, m.pre)
  OBVIOUS
<1>2. m \in Stanzas /\ h \in Headers /\ mk \in Chains /\ k \in Nat /\ h.dh > 2 /\ m.pre \in Pres /\ m.from \in Parties
  BY <1>1 DEF Posted, Stanzas, Counters
<1>3. h.dh \in Nat /\ h.dh # NoDh /\ Spk(x) \in Nat
  BY <1>2, SpkIs DEF Headers, NoDh
<1>4. sk \in Seq(Secrets) /\ Len(sk) = 1
  BY <1>1, <1>2, SecretIs
<1>5. s = [dhs |-> Spk(x), dhr |-> NoDh, rk |-> sk, cks |-> NoChain, ckr |-> NoChain,
           ns |-> 0, nr |-> 0, pn |-> 0, mkskipped |-> <<>>]
  BY <1>1 DEF RatchetInitBob
<1>6. <<>> \in Seq(Entries) /\ Len(<<>>) = 0 /\ (\A i : i \notin 1 .. 0) /\ NoDh \in Nat
  BY DEF NoDh
<1>7. s \in States
  BY <1>3, <1>4, <1>5, <1>6, NoChainType DEF States
<1>8. s.dhs = Spk(x) /\ s.dhr = NoDh /\ s.rk = sk /\ s.cks = NoChain /\ s.ckr = NoChain /\ s.mkskipped = <<>> /\ s.ns = 0
  BY ONLY <1>5
<1>9. Sound(s) /\ Sorted(s)
  <2>1. Len(s.rk) > 0
    <3>1. s.rk = sk
      BY ONLY <1>8, Zenon
    <3> QED
      BY ONLY <1>4, <3>1
  <2>2. Len(s.mkskipped) <= MaxSkippedTotal
    BY ONLY <1>6, <1>8, RatchetAssumption
  <2> QED
    BY ONLY <1>6, <1>8, <2>1, <2>2 DEF Sound, Sorted
<1>10. RatchetDecrypt(s, h, mk, k).ok /\ t = RatchetDecrypt(s, h, mk, k).state
  BY <1>1
<1>11. (h.dh = s.dhr => s.ckr # NoChain) /\ (h.dh < s.dhr => Len(mk.root) <= Len(s.rk))
  BY <1>3, <1>8 DEF NoDh
<1>12. UsesUp(s, mk, t) /\ (SameChain(s, mk, t) \/ NewChain(s, h, mk, k, t))
  BY ONLY <1>2, <1>3, <1>7, <1>9, <1>10, <1>11, DecryptSound
<1>13. DecryptKeeps(s, h, mk, t)
  BY ONLY <1>2, <1>3, <1>7, <1>9, <1>10, <1>11, DecryptCovers
<1>18. NamesKept(m.from, s, h, mk, t)
  BY ONLY <1>2, <1>3, <1>7, <1>9, <1>10, DecryptNames
<1>14. NewChain(s, h, mk, k, t)
  BY <1>8, <1>12 DEF SameChain
<1>15. t \in States /\ Sound(t) /\ Sorted(t)
  BY <1>12, <1>13 DEF UsesUp, DecryptKeeps
<1>16. \A g : g = [f EXCEPT ![x] = @ + 2] => Counters(g) /\ Usable(g, x, t)
  BY <1>1, <1>7, <1>14, <1>15, TurnedUsable
<1>17. mk.root = Append(sk, Dh(Spk(x), h.dh))
  BY <1>8, <1>14 DEF NewChain, KdfRk
<1> QED
  BY <1>1, <1>3, <1>8, <1>12, <1>13, <1>14, <1>16, <1>17, <1>18 DEF Reads

(***************************************************************************)
(* Types of the rest of the state.                                         *)
(***************************************************************************)
PerMessage(T) ==
  {f \in [Parties -> UNION {[Ids(x) -> T] : x \in Parties}] : \A x \in Parties : f[x] \in [Ids(x) -> T]}

Points == {"idle", "fetching", "fetched", "sent", "acked", "nacked", "again", "cached", "failed"}
Receipts == [to : Parties, id : Nat, keys : BOOLEAN, opk : Nat]

SessionTypes ==
  /\ opks \in [Parties -> SUBSET Nat] /\ pool \in [Parties -> SUBSET Nat]
  /\ meta \in [Parties -> Pres] /\ ident \in [Parties -> BOOLEAN]
  /\ pc \in PerMessage(Points) /\ bundle \in PerMessage(Nat)
  /\ again \in PerMessage(BOOLEAN) /\ retried \in PerMessage(Nat)
  /\ receipts \subseteq Receipts /\ \A r \in receipts : r.id \in Ids(r.to)
  /\ heard \in [Parties -> BOOLEAN] /\ revived \in [Parties -> BOOLEAN]
  /\ opened \subseteq Chains /\ IsFiniteSet(wire) /\ \A m \in wire : m.id \in Ids(m.from)

LEMMA IdsAre == \A x \in Parties : Msgs[x] \in Nat /\ Ids(x) = 1 .. Msgs[x] /\ Ids(x) \subseteq Nat
BY SessionAssumption DEF Ids

LEMMA PerMessageAt ==
  ASSUME NEW T, NEW f \in PerMessage(T), NEW x \in Parties
  PROVE  f[x] \in [Ids(x) -> T] /\ \A i \in Ids(x) : f[x][i] \in T
BY DEF PerMessage

LEMMA PerMessageIs ==
  ASSUME NEW T, NEW f, f = [x \in Parties |-> f[x]], \A x \in Parties : f[x] \in [Ids(x) -> T]
  PROVE  f \in PerMessage(T)
<1>1. \A x \in Parties : f[x] \in UNION {[Ids(y) -> T] : y \in Parties}
  OBVIOUS
<1>2. f \in [Parties -> UNION {[Ids(y) -> T] : y \in Parties}]
  BY <1>1
<1> QED
  BY <1>2 DEF PerMessage

SetAt(f, g, x, i, v) ==
  \A y \in Parties : \A j \in Ids(y) : g[y][j] = IF y = x /\ j = i THEN v ELSE f[y][j]

LEMMA PerMessageSet ==
  ASSUME NEW T, NEW f \in PerMessage(T), NEW x \in Parties, NEW i \in Ids(x), NEW v \in T,
         NEW g, g = [f EXCEPT ![x][i] = v]
  PROVE  g \in PerMessage(T) /\ SetAt(f, g, x, i, v)
<1>1. f \in [Parties -> UNION {[Ids(y) -> T] : y \in Parties}] /\ \A y \in Parties : f[y] \in [Ids(y) -> T]
  BY DEF PerMessage
<1>2. PICK r : r = [f[x] EXCEPT ![i] = v]
  OBVIOUS
<1>3. f[x] \in [Ids(x) -> T]
  BY <1>1
<1>4. r \in [Ids(x) -> T] /\ r[i] = v /\ \A j \in Ids(x) : j # i => r[j] = f[x][j]
  BY <1>2, <1>3
<1>5. g = [f EXCEPT ![x] = r]
  BY <1>2
<1>6. DOMAIN g = Parties /\ g = [y \in Parties |-> IF y = x THEN r ELSE f[y]]
  BY <1>1, <1>5
<1>7. \A y \in Parties : g[y] = IF y = x THEN r ELSE f[y]
  BY <1>6
<1>8. \A y \in Parties : g[y] \in [Ids(y) -> T]
  BY <1>1, <1>4, <1>7
<1>9. g \in PerMessage(T)
  <2>1. g = [y \in Parties |-> g[y]]
    BY <1>6
  <2> QED
    BY <1>8, <2>1, PerMessageIs
<1> QED
  BY <1>4, <1>7, <1>9 DEF SetAt

(* A bundle's OPK is a number.                                             *)
LEMMA BundleIs ==
  ASSUME SessionTypes, NEW x \in Parties
  PROVE  BundleOpks(x) \subseteq Nat
BY DEF SessionTypes, BundleOpks, NoOpk

-----------------------------------------------------------------------------
(***************************************************************************)
(* What the actions do to the sessions and the stanzas.                    *)
(***************************************************************************)
QuietStep == UNCHANGED <<session, wire, fresh, opks, opened, reopened>>

DropStep(x) ==
  session' = [session EXCEPT ![x] = NoSession] /\ UNCHANGED <<wire, fresh, opks, opened, reopened>>

FromState(x, s, m) ==
  m \in Stanzas /\ m.from = x /\ m.header = EncryptHeader(s) /\ m.mk = EncryptKey(s)

SendStep(x, m) ==
  /\ session[x] # NoSession /\ FromState(x, session[x], m)
  /\ session' = [session EXCEPT ![x] = EncryptState(@)]
  /\ wire' = wire \cup {m}
  /\ UNCHANGED <<fresh, opks, opened, reopened>>

OpenStep(x, o, m) ==
  /\ o \in Nat /\ FromState(x, NewState(x, o), m)
  /\ session' = [session EXCEPT ![x] = EncryptState(NewState(x, o))]
  /\ fresh' = [fresh EXCEPT ![x] = @ + 4]
  /\ wire' = wire \cup {m}
  /\ UNCHANGED <<opks, opened, reopened>>

ReadStep(x, m) ==
  /\ m \in wire /\ m.from = Peer(x) /\ Decryption(x, m).ok
  /\ session' = [session EXCEPT ![x] = Decryption(x, m).state]
  /\ fresh' = [fresh EXCEPT ![x] = IF Decryption(x, m).state.dhs = @ THEN @ + 2 ELSE @]
  /\ opks' = Consumed(x, m)
  /\ opened' = opened \cup {m.mk}
  /\ reopened' = IF m.mk \in opened THEN reopened \cup {m.mk} ELSE reopened
  /\ UNCHANGED wire

KeyInv == Keyed(session, wire, fresh)

LEMMA StanzaIs ==
  ASSUME SessionTypes, NEW x \in Parties, NEW i \in Nat, NEW s \in States, Sound(s), CanEncrypt(s), NEW pre \in Pres,
         NEW c \in BOOLEAN
  PROVE  FromState(x, s, Outgoing(x, i, s, pre, c))
<1>1. EncryptHeader(s) \in Headers /\ s.cks \in Chains
  BY EncryptStateIs
<1>2. revived[x] \in BOOLEAN
  BY DEF SessionTypes
<1> QED
  BY <1>1, <1>2 DEF FromState, Outgoing, Stanza, Stanzas, EncryptKey

LEMMA NewStateIs ==
  ASSUME KeyInv, NEW x \in Parties, NEW o \in Nat
  PROVE  /\ NewPre(x, o) \in Pres /\ NewPre(x, o).base = fresh[x] /\ NewPre(x, o).opk = o
         /\ \A g : g = [fresh EXCEPT ![x] = @ + 4] => Usable(g, x, NewState(x, o))
         /\ NewState(x, o) \in States /\ Sound(NewState(x, o)) /\ CanEncrypt(NewState(x, o))
<1>1. Counters(fresh) /\ fresh[x] \in Nat
  BY DEF KeyInv, Keyed, Counters
<1>2. NewPre(x, o) \in Pres /\ NewPre(x, o).base = fresh[x] /\ NewPre(x, o).opk = o
  BY <1>1 DEF NewPre, Pres
<1>3. \A g : g = [fresh EXCEPT ![x] = @ + 4] => Usable(g, x, NewState(x, o))
  BY <1>1, <1>2, AliceUsable DEF NewState, NewAlice
<1> QED
  BY <1>2, <1>3 DEF Usable

LEMMA CoreSteps ==
  ASSUME SessionTypes, KeyInv, [Next]_vars
  PROVE  \/ QuietStep
         \/ \E x \in Parties : DropStep(x)
         \/ \E x \in Parties, m \in Stanzas : SendStep(x, m)
         \/ \E x \in Parties, o \in Nat, m \in Stanzas : OpenStep(x, o, m)
         \/ \E x \in Parties, m \in wire : ReadStep(x, m)
<1>1. CASE UNCHANGED vars
  BY <1>1 DEF vars, stores, ghosts, QuietStep
<1>2. ASSUME NEW x \in Parties, NEW i \in Ids(x), SendNow(x, i)
      PROVE  \E m \in Stanzas : SendStep(x, m)
  <2>1. PICK pre, m : /\ pre = (IF meta[x] = NoMeta THEN Confirmed ELSE meta[x])
                      /\ m = Outgoing(x, i, session[x], pre, heard[x])
    OBVIOUS
  <2>2. pre \in Pres /\ heard[x] \in BOOLEAN /\ i \in Nat
    BY <2>1, IdsAre DEF SessionTypes, Confirmed, NoPre, NoOpk, Pres
  <2>3. session[x] # NoSession /\ session[x] \in States /\ Sound(session[x]) /\ CanEncrypt(session[x])
    BY <1>2 DEF SendNow, HasSession, KeyInv, Keyed, Usable
  <2>4. FromState(x, session[x], m)
    BY <2>1, <2>2, <2>3, StanzaIs
  <2>5. m \in Stanzas
    BY <2>4 DEF FromState
  <2>6. SendStep(x, m)
    BY <1>2, <2>1, <2>3, <2>4 DEF SendNow, SendStep, Advanced, ghosts
  <2> QED
    BY <2>5, <2>6
<1>3. ASSUME NEW x \in Parties, NEW i \in Ids(x), Establish(x, i)
      PROVE  \E o \in Nat, m \in Stanzas : OpenStep(x, o, m)
  <2>1. PICK o, m : o = bundle[x][i] /\ m = Outgoing(x, i, NewState(x, o), NewPre(x, o), FALSE)
    OBVIOUS
  <2>2. o \in Nat /\ i \in Nat
    BY <2>1, IdsAre, PerMessageAt DEF SessionTypes
  <2>3. FromState(x, NewState(x, o), m)
    BY <2>1, <2>2, NewStateIs, StanzaIs
  <2>4. m \in Stanzas
    BY <2>3 DEF FromState
  <2>5. OpenStep(x, o, m)
    BY <1>3, <2>1, <2>2, <2>3 DEF Establish, OpenStep, Advanced
  <2> QED
    BY <2>2, <2>4, <2>5
<1>4. ASSUME NEW r \in receipts, RetryWithKeys(r)
      PROVE  r.to \in Parties /\ \E o \in Nat, m \in Stanzas : OpenStep(r.to, o, m)
  <2>1. PICK x, o, m : x = r.to /\ o = r.opk /\ m = Outgoing(x, r.id, NewState(x, o), NewPre(x, o), FALSE)
    OBVIOUS
  <2>2. x \in Parties /\ o \in Nat /\ r.id \in Nat
    BY <2>1 DEF SessionTypes, Receipts
  <2>3. FromState(x, NewState(x, o), m)
    BY <2>1, <2>2, NewStateIs, StanzaIs
  <2>4. m \in Stanzas
    BY <2>3 DEF FromState
  <2>5. OpenStep(x, o, m)
    BY <1>4, <2>1, <2>2, <2>3 DEF RetryWithKeys, OpenStep, Advanced
  <2> QED
    BY <2>1, <2>2, <2>4, <2>5
<1>5. ASSUME NEW x \in Parties, NEW m \in wire, Receive(x, m) PROVE ReadStep(x, m)
  BY <1>5 DEF Receive, ReadStep
<1>6. ASSUME NEW r \in receipts, RetryWithoutKeys(r) PROVE r.to \in Parties /\ DropStep(r.to)
  BY <1>6 DEF RetryWithoutKeys, DropStep, Dropped, SessionTypes, Receipts, ghosts
<1>7. ASSUME NEW x \in Parties, NEW i \in Ids(x), RetryOnce(x, i) PROVE QuietStep \/ DropStep(x)
  BY <1>7 DEF RetryOnce, QuietStep, DropStep, Dropped, ghosts
<1>8. ASSUME NEW x \in Parties, NEW i \in Ids(x),
             SendFetch(x, i) \/ AckArrives(x, i) \/ SendReturns(x, i) \/ AckTimeout(x, i)
             \/ \E o \in BundleOpks(Peer(x)) : FetchReply(x, i, o)
      PROVE  QuietStep
  BY <1>8 DEF SendFetch, AckArrives, SendReturns, AckTimeout, FetchReply, QuietStep, stores, ghosts
<1>9. ASSUME NEW x \in Parties,
             RetryAckTimeout(x) \/ Crash(x)
             \/ \E m \in wire, keys \in BOOLEAN, o \in BundleOpks(x) \cup {NoOpk} : ReceiveFails(x, m, keys, o)
      PROVE  QuietStep
  BY <1>9 DEF RetryAckTimeout, Crash, ReceiveFails, QuietStep, stores, ghosts
<1> QED
  BY <1>1, <1>2, <1>3, <1>4, <1>5, <1>6, <1>7, <1>8, <1>9 DEF Next, Sending, Receiving

-----------------------------------------------------------------------------
(***************************************************************************)
(* The sessions, the stanzas and the keys under the actions.               *)
(***************************************************************************)
LEMMA OpenSplits ==
  ASSUME KeyInv, NEW x \in Parties, NEW o \in Nat, NEW m \in Stanzas, OpenStep(x, o, m)
  PROVE  \E t, ts :
           /\ t = NewState(x, o) /\ ts = [session EXCEPT ![x] = t]
           /\ Usable(fresh', x, t) /\ Counters(fresh')
           /\ Keyed(ts, wire, fresh')
           /\ ts[x] = t /\ t # NoSession /\ FromState(x, ts[x], m)
           /\ session' = [ts EXCEPT ![x] = EncryptState(@)]
           /\ \A y \in Parties : fresh[y] <= fresh'[y]
           /\ fresh[x] < fresh'[x]
           /\ t.rk = Append(Secret(x, NewPre(x, o)), Dh(fresh[x] + 2, Spk(Peer(x))))
           /\ t.dhs = fresh[x] + 2 /\ t.dhr = Spk(Peer(x)) /\ t.ckr = NoChain /\ t.mkskipped = <<>>
           /\ t.nr = 0 /\ t.ns = 0 /\ t.pn = 0
<1>1. PICK g, t, ts, pre : /\ g = [fresh EXCEPT ![x] = @ + 4] /\ t = NewState(x, o)
                           /\ ts = [session EXCEPT ![x] = t] /\ pre = NewPre(x, o)
  OBVIOUS
<1>2. fresh' = g /\ pre \in Pres /\ Counters(fresh)
  BY <1>1, NewStateIs DEF OpenStep, KeyInv, Keyed
<1>3. t = RatchetInitAlice(Secret(x, pre), Spk(Peer(x)), fresh[x] + 2)
  BY <1>1 DEF NewState
<1>4. /\ Counters(g) /\ \A y \in Parties : fresh[y] <= g[y]
      /\ Usable(g, x, t) /\ t.dhs = fresh[x] + 2
      /\ t.rk = Append(Secret(x, pre), Dh(fresh[x] + 2, Spk(Peer(x))))
      /\ t.ckr = NoChain /\ t.mkskipped = <<>> /\ t.nr = 0 /\ t.ns = 0 /\ t.pn = 0
      /\ t.dhr = Spk(Peer(x))
  <2>1. PICK f : f = fresh
    OBVIOUS
  <2>2. Counters(f) /\ g = [f EXCEPT ![x] = @ + 4] /\ pre \in Pres
        /\ t = RatchetInitAlice(Secret(x, pre), Spk(Peer(x)), f[x] + 2)
    BY <1>1, <1>2, <1>3, <2>1
  <2>3. NewAlice(f, g, x, pre, t)
    BY ONLY <2>2, x \in Parties, AliceUsable
  <2> QED
    BY ONLY <2>1, <2>3, Zenon DEF NewAlice
<1>5. fresh[x] \in Nat /\ g[x] = fresh[x] + 4
  BY <1>1, <1>2 DEF Counters
<1>6. fresh[x] <= t.dhs /\ fresh[x] < g[x]
  BY ONLY <1>4, <1>5
<1>7. Secret(x, pre) \in Seq(Secrets) /\ t.dhs \in Dh(fresh[x] + 2, Spk(Peer(x)))
  BY <1>2, <1>4, SecretIs DEF Dh
<1>8. Keyed(ts, wire, g)
  BY <1>1, <1>2, <1>4, <1>6, <1>7, KeyedNew DEF KeyInv
<1>9. session \in [Parties -> States \cup {NoSession}] /\ t \in States /\ t.dhs \in Nat
  BY <1>4 DEF KeyInv, Keyed, Usable, States
<1>10. ts[x] = t /\ t # NoSession
  <2>1. t # NoSession
    BY <1>9 DEF NoSession
  <2> QED
    BY <1>1, <1>9, <2>1
<1>11. session' = [ts EXCEPT ![x] = EncryptState(@)]
  BY <1>1, <1>9 DEF OpenStep
<1>12. FromState(x, ts[x], m)
  BY <1>1, <1>10 DEF OpenStep
<1> QED
  BY ONLY <1>1, <1>2, <1>4, <1>6, <1>8, <1>10, <1>11, <1>12, Zenon

(* _decrypt_enc of a stanza: from the stored session or from a new state.  *)
ReadsFrom(x, m, s, t) ==
  /\ Reads(fresh, x, s, m, t)
  /\ session' = [session EXCEPT ![x] = t]
  /\ \/ /\ s = session[x] /\ s # NoSession /\ ident[x]
        /\ m.kind # "pkmsg" /\ opks' = opks
     \/ /\ m.mk.root = Append(Secret(m.from, m.pre), Dh(Spk(x), m.header.dh))
        /\ s.ckr = NoChain /\ s.mkskipped = <<>> /\ s.rk = Secret(m.from, m.pre) /\ s.dhs \in Nat /\ s.ns = 0
        /\ NewChain(s, m.header, m.mk, fresh[x], t)
        /\ m.kind = "pkmsg" /\ (m.pre.opk = NoOpk \/ m.pre.opk \in opks[x])
        /\ opks' = [opks EXCEPT ![x] = @ \ {m.pre.opk}]
  /\ \/ SameChain(s, m.mk, t) /\ s = session[x] /\ s # NoSession /\ fresh' = fresh
     \/ NewChain(s, m.header, m.mk, fresh[x], t) /\ fresh' = [fresh EXCEPT ![x] = @ + 2]

LEMMA ReadSplits ==
  ASSUME KeyInv, NEW x \in Parties, NEW m \in wire, ReadStep(x, m)
  PROVE  \E s, t : ReadsFrom(x, m, s, t)
<1>1. PICK r, t : r = Decryption(x, m) /\ t = r.state
  OBVIOUS
<1>2. /\ r.ok /\ m.from = Peer(x) /\ session' = [session EXCEPT ![x] = t] /\ opks' = Consumed(x, m)
      /\ fresh' = [fresh EXCEPT ![x] = IF t.dhs = @ THEN @ + 2 ELSE @]
  BY <1>1 DEF ReadStep
<1>3. Posted(fresh, m) /\ Counters(fresh) /\ fresh \in [Parties -> Nat]
  BY DEF KeyInv, Keyed, Counters
<1>4. CASE m.kind = "pkmsg"
  <2>1. PICK s, q : s = RatchetInitBob(Secret(m.from, m.pre), Spk(x)) /\ q = RatchetDecrypt(s, m.header, m.mk, fresh[x])
    OBVIOUS
  <2>2. r = [q EXCEPT !.ok = @ /\ OpkStored(x, m)]
    BY <1>1, <1>4, <2>1 DEF Decryption
  <2>3. \E ok, st0 : q = [ok |-> ok, state |-> st0]
    BY ONLY <2>1 DEF RatchetDecrypt
  <2>4. q.ok /\ OpkStored(x, m) /\ t = q.state
    BY <1>1, <1>2, <2>2, <2>3
  <2>5. /\ Reads(fresh, x, s, m, t) /\ NewChain(s, m.header, m.mk, fresh[x], t)
        /\ m.mk.root = Append(Secret(m.from, m.pre), Dh(Spk(x), m.header.dh))
        /\ s.mkskipped = <<>> /\ s.ckr = NoChain /\ s.rk = Secret(m.from, m.pre) /\ s.dhs \in Nat /\ s.ns = 0
    BY <1>2, <1>3, <2>1, <2>4, ReadsPreamble
  <2>6. fresh' = [fresh EXCEPT ![x] = @ + 2]
    BY <1>2, <1>3, <2>5 DEF NewChain
  <2>7. opks' = [opks EXCEPT ![x] = @ \ {m.pre.opk}]
    BY <1>2, <1>4 DEF Consumed
  <2>8. ReadsFrom(x, m, s, t)
    BY ONLY <1>2, <1>4, <2>4, <2>5, <2>6, <2>7, Zenon DEF ReadsFrom, OpkStored
  <2> QED
    BY <2>8
<1>5. CASE m.kind # "pkmsg"
  <2>1. PICK s : s = session[x]
    OBVIOUS
  <2>2. s # NoSession /\ ident[x] /\ r = RatchetDecrypt(s, m.header, m.mk, fresh[x])
    <3>1. ~(s = NoSession \/ ~ident[x])
      BY <1>1, <1>2, <1>5, <2>1 DEF Decryption
    <3> QED
      BY <1>1, <1>5, <2>1, <3>1 DEF Decryption
  <2>3. Reads(fresh, x, s, m, t)
    BY <1>1, <1>2, <2>1, <2>2, ReadsSession DEF KeyInv
  <2>4. opks' = opks
    BY <1>2, <1>5 DEF Consumed
  <2>5. CASE SameChain(s, m.mk, t)
    <3>1. t.dhs = s.dhs /\ s.dhs < fresh[x] /\ s.dhs \in Nat /\ fresh[x] \in Nat
      BY <1>3, <2>1, <2>2, <2>5 DEF SameChain, KeyInv, Keyed, Usable, States
    <3>2. t.dhs # fresh[x]
      BY <3>1
    <3>3. fresh' = fresh
      BY <1>2, <1>3, <3>2
    <3>4. ReadsFrom(x, m, s, t)
      BY ONLY <1>2, <1>5, <2>1, <2>2, <2>3, <2>4, <2>5, <3>3, Zenon DEF ReadsFrom
    <3> QED
      BY <3>4
  <2>6. CASE NewChain(s, m.header, m.mk, fresh[x], t)
    <3>1. fresh' = [fresh EXCEPT ![x] = @ + 2]
      BY <1>2, <1>3, <2>6 DEF NewChain
    <3>2. ReadsFrom(x, m, s, t)
      BY ONLY <1>2, <1>5, <2>1, <2>2, <2>3, <2>4, <2>6, <3>1, Zenon DEF ReadsFrom
    <3> QED
      BY <3>2
  <2> QED
    BY <2>3, <2>5, <2>6 DEF Reads
<1> QED
  BY <1>4, <1>5

LEMMA ReadKeyed ==
  ASSUME KeyInv, NEW x \in Parties, NEW m \in wire, m.from = Peer(x), wire' = wire, NEW s, NEW t, ReadsFrom(x, m, s, t)
  PROVE  KeyInv' /\ \A y \in Parties : fresh[y] <= fresh'[y]
<1>1. Reads(fresh, x, s, m, t) /\ session' = [session EXCEPT ![x] = t] /\ Posted(fresh, m) /\ Counters(fresh)
      /\ fresh \in [Parties -> Nat]
  BY DEF ReadsFrom, KeyInv, Keyed, Counters
<1>2. CASE SameChain(s, m.mk, t) /\ s = session[x] /\ s # NoSession /\ fresh' = fresh
  <2>1. t.dhs = s.dhs /\ t.dhr = s.dhr /\ t.rk = s.rk /\ t.cks = s.cks
    BY <1>2 DEF SameChain
  <2>2. Usable(fresh, x, t)
    <3>1. CASE NewChain(s, m.header, m.mk, fresh[x], t)
      <4>1. t.dhs = fresh[x] /\ s.dhs < fresh[x] /\ s.dhs \in Nat /\ fresh[x] \in Nat
        BY <1>1, <1>2, <3>1 DEF NewChain, KeyInv, Keyed, Usable, States
      <4> QED
        BY <2>1, <4>1
    <3> QED
      BY <1>1, <3>1 DEF Reads
  <2>3. Keyed(session', wire, fresh)
    BY <1>1, <1>2, <2>1, <2>2, KeyedSame DEF KeyInv
  <2>4. KeyInv'
    BY <1>2, <2>3 DEF KeyInv
  <2> QED
    BY <1>1, <1>2, <2>4
<1>3. CASE NewChain(s, m.header, m.mk, fresh[x], t) /\ fresh' = [fresh EXCEPT ![x] = @ + 2]
  <2>0. PICK g, d : g = [fresh EXCEPT ![x] = @ + 2] /\ d = Dh(fresh[x], m.header.dh)
    OBVIOUS
  <2>1. t.dhs = fresh[x] /\ t.rk = Append(m.mk.root, d) /\ t.dhs \in d
    BY <1>3, <2>0 DEF NewChain, KdfRk, Dh
  <2>2. Counters(g) /\ Usable(g, x, t)
    <3>1. CASE SameChain(s, m.mk, t) /\ Usable(fresh, x, t)
      <4>1. t.dhs < fresh[x] /\ t.dhs \in Nat /\ fresh[x] \in Nat
        BY <1>1, <3>1 DEF Usable, States
      <4> QED
        BY <2>1, <4>1
    <3> QED
      BY <1>1, <2>0, <3>1 DEF Reads
  <2>3. g \in [Parties -> Nat] /\ \A y \in Parties : fresh[y] <= g[y]
    BY <1>1, <2>0
  <2>4. m.mk.root \in Seq(Secrets) /\ fresh[x] \in Nat /\ fresh[x] <= t.dhs
    BY <1>1, <2>1 DEF Posted, MadeRoot
  <2>5. Keyed(session', wire, g)
    BY <1>1, <2>1, <2>2, <2>3, <2>4, KeyedNew DEF KeyInv
  <2>6. KeyInv'
    BY <1>3, <2>0, <2>5 DEF KeyInv
  <2> QED
    BY <1>3, <2>0, <2>3, <2>6
<1> QED
  BY <1>2, <1>3 DEF ReadsFrom

LEMMA KeyInvSteps ==
  ASSUME SessionTypes, KeyInv, [Next]_vars
  PROVE  KeyInv'
<1>1. CASE QuietStep
  BY <1>1 DEF QuietStep, KeyInv
<1>2. ASSUME NEW x \in Parties, DropStep(x) PROVE KeyInv'
  BY <1>2, KeyedDrop DEF DropStep, KeyInv
<1>3. ASSUME NEW x \in Parties, NEW m \in Stanzas, SendStep(x, m) PROVE KeyInv'
  <2>1. Keyed([session EXCEPT ![x] = EncryptState(@)], wire \cup {m}, fresh)
    BY <1>3, KeyedSend DEF SendStep, FromState, KeyInv
  <2> QED
    BY <1>3, <2>1 DEF SendStep, KeyInv
<1>4. ASSUME NEW x \in Parties, NEW o \in Nat, NEW m \in Stanzas, OpenStep(x, o, m) PROVE KeyInv'
  <2>1. PICK t, ts : /\ Keyed(ts, wire, fresh') /\ ts[x] = t /\ t # NoSession /\ FromState(x, ts[x], m)
                     /\ session' = [ts EXCEPT ![x] = EncryptState(@)]
    BY <1>4, OpenSplits
  <2>2. PICK g : g = fresh'
    OBVIOUS
  <2>3. Keyed([ts EXCEPT ![x] = EncryptState(@)], wire \cup {m}, g)
    BY <2>1, <2>2, KeyedSend DEF FromState
  <2> QED
    BY <1>4, <2>1, <2>2, <2>3 DEF OpenStep, KeyInv
<1>5. ASSUME NEW x \in Parties, NEW m \in wire, ReadStep(x, m) PROVE KeyInv'
  <2>1. wire' = wire /\ m.from = Peer(x)
    BY <1>5 DEF ReadStep
  <2> QED
    BY <1>5, <2>1, ReadSplits, ReadKeyed
<1> QED
  BY <1>1, <1>2, <1>3, <1>4, <1>5, CoreSteps

-----------------------------------------------------------------------------
(***************************************************************************)
(* The pending preamble: while a session is unconfirmed and not reloaded   *)
(* after a crash, meta holds its preamble.                                 *)
(***************************************************************************)
PreambleInv == \A x \in Parties :
  session[x] # NoSession /\ meta[x] \in {NoMeta, Confirmed} => heard[x] \/ revived[x]

(***************************************************************************)
(* How often a message may have gone out, given where its coroutine        *)
(* stands: once for the coroutine, once more after the server's retry, and *)
(* once for each retry receipt.                                            *)
(***************************************************************************)
Copies(w, x, i) == {m \in w : m.from = x /\ m.id = i}
Past(p) == IF p \in {"sent", "acked", "nacked", "cached", "failed"} THEN 1 ELSE 0
Twice(a) == IF a THEN 1 ELSE 0
ResendInv == \A x \in Parties : \A i \in Ids(x) :
  /\ retried[x][i] <= 2
  /\ Cardinality(Copies(wire, x, i)) <= Past(pc[x][i]) + Twice(again[x][i]) + retried[x][i]

SideInv == SessionTypes /\ PreambleInv /\ PreambleKeptInProcess /\ ResendInv

LEMMA CopiesFinite ==
  ASSUME NEW w, IsFiniteSet(w), NEW x, NEW i
  PROVE  IsFiniteSet(Copies(w, x, i)) /\ Cardinality(Copies(w, x, i)) \in Nat
<1>1. Copies(w, x, i) \in SUBSET w
  BY DEF Copies
<1> QED
  BY <1>1, FS_Subset, FS_CardinalityType

LEMMA CopiesOf ==
  ASSUME NEW w, IsFiniteSet(w), NEW m, NEW v, v = w \cup {m}
  PROVE  /\ IsFiniteSet(v)
         /\ \A x, i : /\ m.from # x \/ m.id # i => Copies(v, x, i) = Copies(w, x, i)
                      /\ Cardinality(Copies(v, x, i)) <= Cardinality(Copies(w, x, i)) + 1
<1>1. IsFiniteSet(v)
  BY FS_AddElement
<1>2. ASSUME NEW x, NEW i
      PROVE  /\ m.from # x \/ m.id # i => Copies(v, x, i) = Copies(w, x, i)
             /\ Cardinality(Copies(v, x, i)) <= Cardinality(Copies(w, x, i)) + 1
  <2>2. IsFiniteSet(Copies(w, x, i)) /\ Cardinality(Copies(w, x, i)) \in Nat
    BY CopiesFinite
  <2>3. m.from # x \/ m.id # i => Copies(v, x, i) = Copies(w, x, i)
    BY DEF Copies
  <2>4. CASE Copies(v, x, i) = Copies(w, x, i)
    BY <2>2, <2>3, <2>4
  <2>5. CASE Copies(v, x, i) # Copies(w, x, i)
    <3>1. Copies(v, x, i) = Copies(w, x, i) \cup {m}
      BY <2>5 DEF Copies
    <3>2. Cardinality(Copies(w, x, i) \cup {m}) = IF m \in Copies(w, x, i) THEN Cardinality(Copies(w, x, i))
                                                  ELSE Cardinality(Copies(w, x, i)) + 1
      BY <2>2, FS_AddElement
    <3>3. Cardinality(Copies(v, x, i)) \in {Cardinality(Copies(w, x, i)), Cardinality(Copies(w, x, i)) + 1}
      BY ONLY <3>1, <3>2, Zenon
    <3>4. PICK c, d : c = Cardinality(Copies(w, x, i)) /\ d = Cardinality(Copies(v, x, i))
      OBVIOUS
    <3>5. c \in Nat /\ d \in {c, c + 1}
      BY ONLY <2>2, <3>3, <3>4, Zenon
    <3>6. d <= c + 1
      BY ONLY <3>5
    <3> QED
      BY ONLY <2>3, <3>4, <3>6, Zenon
  <2> QED
    BY <2>2, <2>3, <2>4, <2>5
<1> QED
  BY <1>1, <1>2

LEMMA ResendType ==
  ASSUME SessionTypes, NEW x \in Parties, NEW i \in Ids(x)
  PROVE  /\ pc[x][i] \in Points /\ again[x][i] \in BOOLEAN /\ retried[x][i] \in Nat /\ bundle[x][i] \in Nat
         /\ Past(pc[x][i]) \in 0 .. 1 /\ Twice(again[x][i]) \in 0 .. 1
         /\ Cardinality(Copies(wire, x, i)) \in Nat
<1>1. pc[x][i] \in Points /\ again[x][i] \in BOOLEAN /\ retried[x][i] \in Nat /\ bundle[x][i] \in Nat
  BY PerMessageAt DEF SessionTypes
<1>2. IsFiniteSet(wire)
  BY DEF SessionTypes
<1> QED
  BY <1>1, <1>2, CopiesFinite DEF Past, Twice

(* A step that sends nothing, and lowers no allowance.                     *)
LEMMA ResendQuiet ==
  ASSUME SessionTypes, SessionTypes', ResendInv, wire' = wire,
         \A x \in Parties : \A i \in Ids(x) :
           /\ retried'[x][i] >= retried[x][i] /\ retried'[x][i] <= 2
           /\ Past(pc[x][i]) + Twice(again[x][i]) <= Past(pc'[x][i]) + Twice(again'[x][i])
  PROVE  ResendInv'
<1> SUFFICES ASSUME NEW x \in Parties, NEW i \in Ids(x)
             PROVE  /\ retried'[x][i] <= 2
                    /\ Cardinality(Copies(wire', x, i)) <= Past(pc'[x][i]) + Twice(again'[x][i]) + retried'[x][i]
  BY DEF ResendInv
<1>1. /\ Past(pc[x][i]) \in 0 .. 1 /\ Twice(again[x][i]) \in 0 .. 1 /\ retried[x][i] \in Nat
      /\ Cardinality(Copies(wire, x, i)) \in Nat
  BY ResendType
<1>2. Past(pc'[x][i]) \in 0 .. 1 /\ Twice(again'[x][i]) \in 0 .. 1 /\ retried'[x][i] \in Nat
  <2>1. pc'[x][i] \in Points /\ again'[x][i] \in BOOLEAN /\ retried'[x][i] \in Nat
    BY PerMessageAt DEF SessionTypes
  <2> QED
    BY <2>1 DEF Past, Twice
<1>3. Cardinality(Copies(wire, x, i)) <= Past(pc[x][i]) + Twice(again[x][i]) + retried[x][i]
  BY DEF ResendInv
<1> QED
  BY <1>1, <1>2, <1>3

(* A step that sends one stanza, on the allowance it adds.                 *)
LEMMA ResendOne ==
  ASSUME SessionTypes, SessionTypes', ResendInv, NEW x \in Parties, NEW i \in Ids(x), NEW m,
         m.from = x, m.id = i, wire' = wire \cup {m},
         \A y \in Parties : \A j \in Ids(y) :
           /\ retried'[y][j] <= 2
           /\ Past(pc[y][j]) + Twice(again[y][j]) + retried[y][j] + (IF y = x /\ j = i THEN 1 ELSE 0)
              <= Past(pc'[y][j]) + Twice(again'[y][j]) + retried'[y][j]
  PROVE  ResendInv'
<1> SUFFICES ASSUME NEW y \in Parties, NEW j \in Ids(y)
             PROVE  /\ retried'[y][j] <= 2
                    /\ Cardinality(Copies(wire', y, j)) <= Past(pc'[y][j]) + Twice(again'[y][j]) + retried'[y][j]
  BY DEF ResendInv
<1>1. /\ Past(pc[y][j]) \in 0 .. 1 /\ Twice(again[y][j]) \in 0 .. 1 /\ retried[y][j] \in Nat
      /\ Cardinality(Copies(wire, y, j)) \in Nat
  BY ResendType
<1>2. Past(pc'[y][j]) \in 0 .. 1 /\ Twice(again'[y][j]) \in 0 .. 1 /\ retried'[y][j] \in Nat
  <2>1. pc'[y][j] \in Points /\ again'[y][j] \in BOOLEAN /\ retried'[y][j] \in Nat
    BY PerMessageAt DEF SessionTypes
  <2> QED
    BY <2>1 DEF Past, Twice
<1>3. Cardinality(Copies(wire, y, j)) <= Past(pc[y][j]) + Twice(again[y][j]) + retried[y][j]
  BY DEF ResendInv
<1>4. PICK v : v = wire'
  OBVIOUS
<1>5. /\ m.from # y \/ m.id # j => Copies(v, y, j) = Copies(wire, y, j)
      /\ Cardinality(Copies(v, y, j)) <= Cardinality(Copies(wire, y, j)) + 1
      /\ IsFiniteSet(v)
  BY <1>4, CopiesOf DEF SessionTypes
<1>6. Cardinality(Copies(v, y, j)) \in Nat
  BY <1>5, CopiesFinite
<1>7. Cardinality(Copies(v, y, j)) <= Cardinality(Copies(wire, y, j)) + (IF y = x /\ j = i THEN 1 ELSE 0)
  BY <1>1, <1>5, <1>6
<1>8. PICK n, c, d : n = (IF y = x /\ j = i THEN 1 ELSE 0) /\ c = Cardinality(Copies(wire, y, j))
                     /\ d = Cardinality(Copies(v, y, j))
  OBVIOUS
<1>9. n \in 0 .. 1 /\ c \in Nat /\ d \in Nat /\ d <= c + n /\ c <= Past(pc[y][j]) + Twice(again[y][j]) + retried[y][j]
      /\ Past(pc[y][j]) + Twice(again[y][j]) + retried[y][j] + n <= Past(pc'[y][j]) + Twice(again'[y][j]) + retried'[y][j]
  BY <1>1, <1>3, <1>6, <1>7, <1>8
<1>10. d <= Past(pc'[y][j]) + Twice(again'[y][j]) + retried'[y][j]
  BY ONLY <1>1, <1>2, <1>9
<1> QED
  BY <1>4, <1>8, <1>10

LEMMA PcMoves ==
  ASSUME SessionTypes, NEW x \in Parties, NEW i \in Ids(x), NEW v \in Points,
         pc' = [pc EXCEPT ![x][i] = v]
  PROVE  /\ pc' \in PerMessage(Points)
         /\ \A y \in Parties : \A j \in Ids(y) : pc'[y][j] = IF y = x /\ j = i THEN v ELSE pc[y][j]
<1>1. PICK f, g : f = pc /\ g = pc'
  OBVIOUS
<1>2. f \in PerMessage(Points) /\ g = [f EXCEPT ![x][i] = v]
  BY <1>1 DEF SessionTypes
<1>3. g \in PerMessage(Points) /\ SetAt(f, g, x, i, v)
  BY ONLY <1>2, PerMessageSet, x \in Parties, i \in Ids(x), v \in Points
<1> QED
  BY <1>1, <1>3 DEF SetAt

LEMMA PastIs ==
  /\ \A p \in Points : Past(p) \in 0 .. 1
  /\ \A p \in {"sent", "acked", "nacked", "cached", "failed"} : Past(p) = 1
  /\ \A p \in {"idle", "fetching", "fetched", "again"} : Past(p) = 0
  /\ Twice(TRUE) = 1 /\ Twice(FALSE) = 0
BY DEF Past, Twice, Points

(* The coroutine of a message moves on and sends nothing.                  *)
LEMMA MoveSide ==
  ASSUME SideInv, NEW x \in Parties, NEW i \in Ids(x), NEW v \in Points,
         pc' = [pc EXCEPT ![x][i] = v], Past(pc[x][i]) <= Past(v),
         SessionTypes', UNCHANGED <<session, meta, again, retried, wire, heard, revived>>
  PROVE  SideInv'
<1>1. \A y \in Parties : \A j \in Ids(y) : pc'[y][j] = IF y = x /\ j = i THEN v ELSE pc[y][j]
  BY PcMoves DEF SideInv
<1>2. PreambleInv' /\ PreambleKeptInProcess'
  BY DEF SideInv, PreambleInv, PreambleKeptInProcess
<1>3. ASSUME NEW y \in Parties, NEW j \in Ids(y)
      PROVE  /\ retried'[y][j] >= retried[y][j] /\ retried'[y][j] <= 2
             /\ Past(pc[y][j]) + Twice(again[y][j]) <= Past(pc'[y][j]) + Twice(again'[y][j])
  <2>1. Past(pc[y][j]) \in 0 .. 1 /\ Twice(again[y][j]) \in 0 .. 1 /\ retried[y][j] \in Nat /\ retried[y][j] <= 2
    BY ResendType DEF SideInv, ResendInv
  <2>2. Past(v) \in 0 .. 1
    BY PastIs
  <2>3. Past(pc[y][j]) <= Past(pc'[y][j])
    BY <1>1, <2>1, <2>2
  <2>4. Past(pc'[y][j]) \in 0 .. 1
    BY <1>1, <2>1, <2>2
  <2> QED
    BY <2>1, <2>3, <2>4
<1>4. ResendInv'
  BY <1>3, ResendQuiet DEF SideInv
<1> QED
  BY <1>2, <1>4 DEF SideInv

LEMMA SendFetchSide ==
  ASSUME SideInv, NEW x \in Parties, NEW i \in Ids(x), SendFetch(x, i)
  PROVE  SideInv'
<1>1. "fetching" \in Points /\ pc' = [pc EXCEPT ![x][i] = "fetching"] /\ pc[x][i] \in {"idle", "again"}
  BY DEF SendFetch, Called, Points
<1>2. SessionTypes
  BY DEF SideInv
<1>3. pc' \in PerMessage(Points)
  BY <1>1, <1>2, PcMoves
<1>4. SessionTypes'
  BY <1>2, <1>3 DEF SessionTypes, SendFetch, stores, ghosts
<1>5. Past(pc[x][i]) <= Past("fetching")
  BY <1>1, PastIs
<1> QED
  BY <1>1, <1>4, <1>5, MoveSide DEF SendFetch, stores, ghosts

LEMMA FetchReplySide ==
  ASSUME SideInv, NEW x \in Parties, NEW i \in Ids(x), NEW o \in BundleOpks(Peer(x)), FetchReply(x, i, o)
  PROVE  SideInv'
<1>1. "fetched" \in Points /\ pc' = [pc EXCEPT ![x][i] = "fetched"] /\ pc[x][i] = "fetching"
      /\ bundle' = [bundle EXCEPT ![x][i] = o] /\ pool' = [pool EXCEPT ![Peer(x)] = @ \ {o}]
  BY DEF FetchReply, Points
<1>2. SessionTypes /\ Peer(x) \in Parties
  BY PeerIs DEF SideInv
<1>3. pc' \in PerMessage(Points)
  BY <1>1, <1>2, PcMoves
<1>4. bundle' \in PerMessage(Nat)
  <2>1. o \in Nat
    BY <1>2, BundleIs
  <2>2. PICK f, g : f = bundle /\ g = bundle'
    OBVIOUS
  <2>3. f \in PerMessage(Nat) /\ g = [f EXCEPT ![x][i] = o]
    BY <1>1, <1>2, <2>2 DEF SessionTypes
  <2>4. g \in PerMessage(Nat)
    BY ONLY <2>1, <2>3, PerMessageSet, x \in Parties, i \in Ids(x)
  <2> QED
    BY <2>2, <2>4
<1>5. pool' \in [Parties -> SUBSET Nat]
  BY <1>1, <1>2 DEF SessionTypes
<1>6. SessionTypes'
  BY <1>2, <1>3, <1>4, <1>5 DEF SessionTypes, FetchReply, ghosts
<1>7. Past(pc[x][i]) <= Past("fetched")
  BY <1>1, PastIs
<1> QED
  BY <1>1, <1>6, <1>7, MoveSide DEF FetchReply, ghosts

LEMMA MovesOn ==
  ASSUME SideInv, NEW x \in Parties, NEW i \in Ids(x), NEW v \in Points, Past(v) = 1,
         pc' = [pc EXCEPT ![x][i] = v],
         UNCHANGED <<stores, bundle, again, retried, rx, wire, receipts, fresh, ghosts>>
  PROVE  SideInv'
<1>1. SessionTypes /\ pc[x][i] \in Points
  BY ResendType DEF SideInv
<1>2. pc' \in PerMessage(Points)
  BY <1>1, PcMoves
<1>3. SessionTypes'
  BY <1>1, <1>2 DEF SessionTypes, stores, ghosts
<1>4. Past(pc[x][i]) <= Past(v)
  BY <1>1, PastIs
<1> QED
  BY <1>3, <1>4, MoveSide DEF stores, ghosts

LEMMA AckSide ==
  ASSUME SideInv, NEW x \in Parties, NEW i \in Ids(x),
         AckArrives(x, i) \/ SendReturns(x, i) \/ AckTimeout(x, i)
  PROVE  SideInv'
<1>1. PICK v \in {"acked", "nacked", "cached", "failed"} : pc' = [pc EXCEPT ![x][i] = v]
  BY DEF AckArrives, SendReturns, AckTimeout
<1>2. UNCHANGED <<stores, bundle, again, retried, rx, wire, receipts, fresh, ghosts>>
  BY DEF AckArrives, SendReturns, AckTimeout
<1>3. v \in Points /\ Past(v) = 1
  BY <1>1, PastIs DEF Points
<1> QED
  BY <1>1, <1>2, <1>3, MovesOn

(* A message goes out in the coroutine of send_message.                    *)
LEMMA SentSide ==
  ASSUME SideInv, SessionTypes', PreambleInv', NEW x \in Parties, NEW i \in Ids(x), NEW m,
         pc' = [pc EXCEPT ![x][i] = "sent"], Past(pc[x][i]) = 0, wire' = wire \cup {m},
         m.from = x, m.id = i, m.kind = "msg" => m.heard \/ m.revived, UNCHANGED <<again, retried>>
  PROVE  SideInv'
<1>1. \A y \in Parties : \A j \in Ids(y) : pc'[y][j] = IF y = x /\ j = i THEN "sent" ELSE pc[y][j]
  BY PcMoves DEF SideInv, Points
<1>2. PreambleKeptInProcess'
  BY DEF SideInv, PreambleKeptInProcess
<1>3. ASSUME NEW y \in Parties, NEW j \in Ids(y)
      PROVE  /\ retried'[y][j] <= 2
             /\ Past(pc[y][j]) + Twice(again[y][j]) + retried[y][j] + (IF y = x /\ j = i THEN 1 ELSE 0)
                <= Past(pc'[y][j]) + Twice(again'[y][j]) + retried'[y][j]
  <2>1. Past(pc[y][j]) \in 0 .. 1 /\ Twice(again[y][j]) \in 0 .. 1 /\ retried[y][j] \in Nat /\ retried[y][j] <= 2
    BY ResendType DEF SideInv, ResendInv
  <2>2. CASE y = x /\ j = i
    BY <1>1, <2>1, <2>2, PastIs
  <2>3. CASE ~(y = x /\ j = i)
    BY <1>1, <2>1, <2>3
  <2> QED
    BY <2>2, <2>3
<1>4. ResendInv'
  BY <1>3, ResendOne DEF SideInv
<1> QED
  BY <1>2, <1>4 DEF SideInv

LEMMA SendNowSide ==
  ASSUME SideInv, KeyInv, NEW x \in Parties, NEW i \in Ids(x), SendNow(x, i)
  PROVE  SideInv'
<1>1. PICK pre, m : /\ pre = (IF meta[x] = NoMeta THEN Confirmed ELSE meta[x])
                    /\ m = Outgoing(x, i, session[x], pre, heard[x])
  OBVIOUS
<1>2. SessionTypes /\ pre \in Pres
  BY <1>1 DEF SideInv, SessionTypes, Confirmed, NoPre, NoOpk, Pres
<1>3. /\ meta' = [meta EXCEPT ![x] = pre] /\ wire' = wire \cup {m} /\ pc' = [pc EXCEPT ![x][i] = "sent"]
      /\ session[x] # NoSession
      /\ session' = [session EXCEPT ![x] = EncryptState(@)]
      /\ pc[x][i] \in {"idle", "again"}
      /\ UNCHANGED <<ident, opks, pool, bundle, again, retried, receipts, heard, revived, opened>>
  BY <1>1 DEF SendNow, HasSession, Called, ghosts, Advanced
<1>4. pc' \in PerMessage(Points)
  BY <1>2, <1>3, PcMoves DEF Points
<1>5. IsFiniteSet(wire')
  BY <1>2, <1>3, FS_AddElement DEF SessionTypes
<1>8. m.from = x /\ m.id = i /\ m.heard = heard[x] /\ m.revived = revived[x] /\ (m.kind = "msg" => pre = NoPre)
  BY <1>1 DEF Outgoing, Stanza
<1>6. SessionTypes'
  BY <1>2, <1>3, <1>4, <1>5, <1>8 DEF SessionTypes
<1>7. PreambleInv'
  <2> SUFFICES ASSUME NEW y \in Parties, session'[y] # NoSession, meta'[y] \in {NoMeta, Confirmed}
               PROVE  heard'[y] \/ revived'[y]
    BY DEF PreambleInv
  <2>1. session \in [Parties -> States \cup {NoSession}] /\ meta \in [Parties -> Pres]
    BY <1>2 DEF KeyInv, Keyed, SessionTypes
  <2>2. session[y] # NoSession /\ meta[y] \in {NoMeta, Confirmed}
    BY <1>1, <1>3, <2>1
  <2> QED
    BY <1>3, <2>2 DEF SideInv, PreambleInv
<1>9. m.kind = "msg" => m.heard \/ m.revived
  BY <1>1, <1>3, <1>8 DEF SideInv, PreambleInv, Confirmed
<1>10. Past(pc[x][i]) = 0
  BY <1>3, PastIs
<1> QED
  BY <1>3, <1>6, <1>7, <1>8, <1>9, <1>10, SentSide

LEMMA EstablishSide ==
  ASSUME SideInv, KeyInv, NEW x \in Parties, NEW i \in Ids(x), Establish(x, i)
  PROVE  SideInv'
<1>1. PICK o, pre, m : /\ o = bundle[x][i] /\ pre = NewPre(x, o)
                       /\ m = Outgoing(x, i, NewState(x, o), pre, FALSE)
  OBVIOUS
<1>2. SessionTypes /\ o \in Nat
  BY <1>1, ResendType DEF SideInv
<1>3. pre \in Pres /\ pre.base = fresh[x] /\ fresh[x] > 2 /\ fresh[x] \in Nat
  BY <1>1, <1>2, NewStateIs DEF KeyInv, Keyed, Counters
<1>4. pre # NoPre /\ pre # NoMeta /\ pre # Confirmed
  BY <1>3 DEF NoPre, NoMeta, Confirmed
<1>5. /\ meta' = [meta EXCEPT ![x] = pre] /\ wire' = wire \cup {m} /\ pc' = [pc EXCEPT ![x][i] = "sent"]
      /\ pc[x][i] = "fetched" /\ ident' = [ident EXCEPT ![x] = TRUE] /\ bundle' = [bundle EXCEPT ![x][i] = NoOpk]
      /\ heard' = [heard EXCEPT ![x] = FALSE] /\ revived' = [revived EXCEPT ![x] = FALSE]
      /\ \A y \in Parties : y # x => session'[y] = session[y]
      /\ UNCHANGED <<opks, pool, again, retried, receipts, opened>>
  BY <1>1 DEF Establish, KeyInv, Keyed
<1>6. pc' \in PerMessage(Points)
  BY <1>2, <1>5, PcMoves DEF Points
<1>7. bundle' \in PerMessage(Nat)
  <2>1. PICK f, g : f = bundle /\ g = bundle'
    OBVIOUS
  <2>2. f \in PerMessage(Nat) /\ g = [f EXCEPT ![x][i] = NoOpk] /\ NoOpk \in Nat
    BY <1>2, <1>5, <2>1 DEF SessionTypes, NoOpk
  <2>3. g \in PerMessage(Nat)
    BY ONLY <2>2, PerMessageSet, x \in Parties, i \in Ids(x)
  <2> QED
    BY <2>1, <2>3
<1>8. IsFiniteSet(wire')
  BY <1>2, <1>5, FS_AddElement DEF SessionTypes
<1>11. m.from = x /\ m.id = i /\ m.kind = "pkmsg"
  BY <1>1, <1>4 DEF Outgoing, Stanza
<1>9. SessionTypes'
  BY <1>2, <1>3, <1>5, <1>6, <1>7, <1>8, <1>11 DEF SessionTypes
<1>10. PreambleInv'
  <2> SUFFICES ASSUME NEW y \in Parties, session'[y] # NoSession, meta'[y] \in {NoMeta, Confirmed}
               PROVE  heard'[y] \/ revived'[y]
    BY DEF PreambleInv
  <2>1. meta \in [Parties -> Pres] /\ heard \in [Parties -> BOOLEAN] /\ revived \in [Parties -> BOOLEAN]
    BY <1>2 DEF SessionTypes
  <2>2. y # x
    BY <1>4, <1>5, <2>1
  <2>3. session'[y] = session[y] /\ meta'[y] = meta[y] /\ heard'[y] = heard[y] /\ revived'[y] = revived[y]
    BY <1>5, <2>1, <2>2
  <2> QED
    BY <2>3 DEF SideInv, PreambleInv
<1>12. Past(pc[x][i]) = 0
  BY <1>5, PastIs
<1> QED
  BY <1>5, <1>9, <1>10, <1>11, <1>12, SentSide

LEMMA RetryOnceSide ==
  ASSUME SideInv, KeyInv, NEW x \in Parties, NEW i \in Ids(x), RetryOnce(x, i)
  PROVE  SideInv'
<1>1. SessionTypes /\ pc[x][i] = "nacked" /\ again[x][i] \in BOOLEAN
  BY ResendType DEF SideInv, RetryOnce
<1>2. CASE again[x][i]
  <2>1. UNCHANGED <<stores, bundle, again, retried, rx, wire, receipts, fresh, ghosts>>
    BY <1>2 DEF RetryOnce, stores
  <2>2. pc' = [pc EXCEPT ![x][i] = "failed"]
    BY <1>2 DEF RetryOnce
  <2>3. "failed" \in Points /\ Past("failed") = 1
    BY PastIs DEF Points
  <2> QED
    BY <2>1, <2>2, <2>3, MovesOn
<1>3. CASE ~again[x][i]
  <2>1. /\ pc' = [pc EXCEPT ![x][i] = "again"] /\ again' = [again EXCEPT ![x][i] = TRUE]
        /\ session' = [session EXCEPT ![x] = NoSession] /\ ident' = [ident EXCEPT ![x] = FALSE]
        /\ meta' = [meta EXCEPT ![x] = NoMeta]
        /\ UNCHANGED <<opks, pool, bundle, retried, wire, receipts, heard, revived, opened>>
    BY <1>3 DEF RetryOnce, Dropped, ghosts
  <2>2. /\ pc' \in PerMessage(Points)
        /\ \A y \in Parties : \A j \in Ids(y) : pc'[y][j] = IF y = x /\ j = i THEN "again" ELSE pc[y][j]
    <3>1. "again" \in Points
      BY DEF Points
    <3> QED
      BY <1>1, <2>1, <3>1, PcMoves
  <2>3. PICK f, g : f = again /\ g = again'
    OBVIOUS
  <2>4. f \in PerMessage(BOOLEAN) /\ g = [f EXCEPT ![x][i] = TRUE] /\ TRUE \in BOOLEAN
    BY <1>1, <2>1, <2>3 DEF SessionTypes
  <2>5. g \in PerMessage(BOOLEAN) /\ SetAt(f, g, x, i, TRUE)
    BY ONLY <2>4, PerMessageSet, x \in Parties, i \in Ids(x)
  <2>6. NoMeta \in Pres
    BY DEF NoMeta, Pres, NoOpk
  <2>7. SessionTypes'
    BY <1>1, <2>1, <2>2, <2>3, <2>5, <2>6 DEF SessionTypes
  <2>8. PreambleInv' /\ PreambleKeptInProcess'
    BY <1>1, <2>1 DEF SideInv, PreambleInv, PreambleKeptInProcess, KeyInv, Keyed, SessionTypes
  <2>9. ASSUME NEW y \in Parties, NEW j \in Ids(y)
        PROVE  /\ retried'[y][j] >= retried[y][j] /\ retried'[y][j] <= 2
               /\ Past(pc[y][j]) + Twice(again[y][j]) <= Past(pc'[y][j]) + Twice(again'[y][j])
    <3>1. Past(pc[y][j]) \in 0 .. 1 /\ Twice(again[y][j]) \in 0 .. 1 /\ retried[y][j] \in Nat /\ retried[y][j] <= 2
      BY ResendType DEF SideInv, ResendInv
    <3>2. retried'[y][j] >= retried[y][j] /\ retried'[y][j] <= 2
      BY <2>1, <3>1
    <3>3. CASE y = x /\ j = i
      <4>1. pc'[y][j] = "again" /\ again'[y][j] = TRUE /\ pc[y][j] = "nacked" /\ again[y][j] = FALSE
        BY <1>1, <1>3, <2>2, <2>3, <2>5, <3>3 DEF SetAt
      <4>2. Past("again") = 0 /\ Twice(TRUE) = 1 /\ Past("nacked") = 1 /\ Twice(FALSE) = 0
        BY PastIs
      <4>3. Past(pc[y][j]) = 1 /\ Twice(again[y][j]) = 0 /\ Past(pc'[y][j]) = 0 /\ Twice(again'[y][j]) = 1
        BY ONLY <4>1, <4>2, Zenon
      <4> QED
        BY ONLY <3>2, <4>3
    <3>4. CASE ~(y = x /\ j = i)
      <4>1. pc'[y][j] = pc[y][j] /\ again'[y][j] = again[y][j]
        BY <2>2, <2>3, <2>5, <3>4 DEF SetAt
      <4> QED
        BY <3>1, <3>2, <4>1
    <3> QED
      BY <3>3, <3>4
  <2>10. ResendInv'
    BY <2>1, <2>7, <2>9, ResendQuiet DEF SideInv
  <2> QED
    BY <2>7, <2>8, <2>10 DEF SideInv
<1> QED
  BY <1>1, <1>2, <1>3

(* A step that leaves the coroutines and the wire alone.                   *)
LEMMA RestSide ==
  ASSUME SideInv, SessionTypes', PreambleInv', UNCHANGED <<pc, again, retried, wire>>
  PROVE  SideInv'
<1>1. PreambleKeptInProcess' /\ ResendInv'
  BY DEF SideInv, PreambleKeptInProcess, ResendInv
<1> QED
  BY <1>1 DEF SideInv

LEMMA ReceiveSide ==
  ASSUME SideInv, KeyInv, NEW x \in Parties, NEW m \in wire, Receive(x, m)
  PROVE  SideInv'
<1>1. SessionTypes /\ m.mk \in Chains /\ m.pre \in Pres
  BY DEF SideInv, KeyInv, Keyed, Posted, Stanzas
<1>2. /\ ident' = [ident EXCEPT ![x] = TRUE] /\ opks' = Consumed(x, m)
      /\ meta' = [meta EXCEPT ![x] = IF @ = NoMeta THEN NoMeta ELSE Confirmed]
      /\ heard' = [heard EXCEPT ![x] = TRUE] /\ opened' = opened \cup {m.mk}
      /\ \A y \in Parties : y # x => session'[y] = session[y]
      /\ UNCHANGED <<pool, pc, bundle, again, retried, wire, receipts, revived>>
  BY DEF Receive, tasks, KeyInv, Keyed
<1>3. Confirmed \in Pres /\ NoMeta \in Pres
  BY DEF NoMeta, Confirmed, NoPre, Pres, NoOpk
<1>4. opks' \in [Parties -> SUBSET Nat]
  BY <1>1, <1>2 DEF Consumed, SessionTypes
<1>5. SessionTypes'
  BY <1>1, <1>2, <1>3, <1>4 DEF SessionTypes
<1>6. PreambleInv'
  BY <1>1, <1>2 DEF SideInv, PreambleInv, SessionTypes
<1> QED
  BY <1>2, <1>5, <1>6, RestSide

LEMMA ReceiveFailsSide ==
  ASSUME SideInv, KeyInv, NEW x \in Parties, NEW m \in wire, NEW keys \in BOOLEAN,
         NEW o \in BundleOpks(x) \cup {NoOpk}, ReceiveFails(x, m, keys, o)
  PROVE  SideInv'
<1>1. SessionTypes /\ m.from \in Parties /\ m.id \in Nat /\ m.id \in Ids(m.from)
  BY DEF SideInv, SessionTypes, KeyInv, Keyed, Posted, Stanzas
<1>2. o \in Nat
  BY <1>1, BundleIs DEF NoOpk
<1>3. PICK r : r = [to |-> m.from, id |-> m.id, keys |-> keys, opk |-> o]
  OBVIOUS
<1>4. r \in Receipts /\ r.id \in Ids(r.to)
  BY <1>1, <1>2, <1>3 DEF Receipts
<1>5. /\ receipts' = receipts \cup {r} /\ pool' = [pool EXCEPT ![x] = @ \ {o}]
      /\ UNCHANGED <<session, ident, opks, meta, pc, bundle, again, retried, wire, heard, revived, opened>>
  BY <1>3 DEF ReceiveFails, tasks, ghosts
<1>6. SessionTypes'
  BY <1>1, <1>4, <1>5 DEF SessionTypes
<1>7. PreambleInv'
  BY <1>5 DEF SideInv, PreambleInv
<1> QED
  BY <1>5, <1>6, <1>7, RestSide

LEMMA RetriedMoves ==
  ASSUME SideInv, NEW x \in Parties, NEW i \in Ids(x), retried[x][i] < 2,
         retried' = [retried EXCEPT ![x][i] = @ + 1]
  PROVE  /\ retried' \in PerMessage(Nat)
         /\ \A y \in Parties : \A j \in Ids(y) :
              retried'[y][j] = IF y = x /\ j = i THEN retried[y][j] + 1 ELSE retried[y][j]
<1>1. PICK f, g, v : f = retried /\ g = retried' /\ v = retried[x][i] + 1
  OBVIOUS
<1>2. f \in PerMessage(Nat) /\ f[x][i] \in Nat
  BY <1>1, PerMessageAt DEF SideInv, SessionTypes
<1>3. g = [f EXCEPT ![x][i] = v] /\ v \in Nat
  BY <1>1, <1>2
<1>4. g \in PerMessage(Nat) /\ SetAt(f, g, x, i, v)
  BY ONLY <1>2, <1>3, PerMessageSet, x \in Parties, i \in Ids(x)
<1> QED
  BY <1>1, <1>4 DEF SetAt

LEMMA RetryWithoutKeysSide ==
  ASSUME SideInv, KeyInv, NEW r \in receipts, RetryWithoutKeys(r)
  PROVE  SideInv'
<1>1. PICK x, i : x = r.to /\ i = r.id
  OBVIOUS
<1>2. SessionTypes /\ x \in Parties /\ i \in Ids(x)
  BY <1>1 DEF SideInv, SessionTypes, Receipts
<1>3. /\ retried[x][i] < 2 /\ retried' = [retried EXCEPT ![x][i] = @ + 1]
      /\ session' = [session EXCEPT ![x] = NoSession] /\ ident' = [ident EXCEPT ![x] = FALSE]
      /\ meta' = [meta EXCEPT ![x] = NoMeta]
      /\ UNCHANGED <<opks, pool, pc, bundle, again, wire, receipts, heard, revived, opened>>
  BY <1>1 DEF RetryWithoutKeys, Wanted, Dropped, ghosts
<1>4. /\ retried' \in PerMessage(Nat)
      /\ \A y \in Parties : \A j \in Ids(y) :
           retried'[y][j] = IF y = x /\ j = i THEN retried[y][j] + 1 ELSE retried[y][j]
  BY <1>2, <1>3, RetriedMoves
<1>5. NoMeta \in Pres
  BY DEF NoMeta, Pres, NoOpk
<1>6. SessionTypes'
  BY <1>2, <1>3, <1>4, <1>5 DEF SessionTypes
<1>7. PreambleInv' /\ PreambleKeptInProcess'
  BY <1>2, <1>3 DEF SideInv, PreambleInv, PreambleKeptInProcess, KeyInv, Keyed, SessionTypes
<1>8. ASSUME NEW y \in Parties, NEW j \in Ids(y)
      PROVE  /\ retried'[y][j] >= retried[y][j] /\ retried'[y][j] <= 2
             /\ Past(pc[y][j]) + Twice(again[y][j]) <= Past(pc'[y][j]) + Twice(again'[y][j])
  <2>1. Past(pc[y][j]) \in 0 .. 1 /\ Twice(again[y][j]) \in 0 .. 1 /\ retried[y][j] \in Nat /\ retried[y][j] <= 2
    BY ResendType DEF SideInv, ResendInv
  <2> QED
    BY <1>3, <1>4, <2>1
<1>9. ResendInv'
  BY <1>3, <1>6, <1>8, ResendQuiet DEF SideInv
<1> QED
  BY <1>6, <1>7, <1>9 DEF SideInv

LEMMA RetryWithKeysSide ==
  ASSUME SideInv, KeyInv, NEW r \in receipts, RetryWithKeys(r)
  PROVE  SideInv'
<1>1. PICK x, i, o, pre, m : /\ x = r.to /\ i = r.id /\ o = r.opk /\ pre = NewPre(x, o)
                             /\ m = Outgoing(x, i, NewState(x, o), pre, FALSE)
  OBVIOUS
<1>2. SessionTypes /\ x \in Parties /\ i \in Ids(x) /\ o \in Nat
  BY <1>1 DEF SideInv, SessionTypes, Receipts
<1>3. pre \in Pres /\ pre.base = fresh[x] /\ fresh[x] > 2 /\ fresh[x] \in Nat
  BY <1>1, <1>2, NewStateIs DEF KeyInv, Keyed, Counters
<1>4. pre # NoPre /\ pre # NoMeta /\ pre # Confirmed
  BY <1>3 DEF NoPre, NoMeta, Confirmed
<1>5. /\ retried[x][i] < 2 /\ retried' = [retried EXCEPT ![x][i] = @ + 1]
      /\ meta' = [meta EXCEPT ![x] = pre] /\ wire' = wire \cup {m} /\ ident' = [ident EXCEPT ![x] = FALSE]
      /\ heard' = [heard EXCEPT ![x] = FALSE] /\ revived' = [revived EXCEPT ![x] = FALSE]
      /\ \A y \in Parties : y # x => session'[y] = session[y]
      /\ UNCHANGED <<opks, pool, pc, bundle, again, receipts, opened>>
  BY <1>1 DEF RetryWithKeys, Wanted, Dropped, KeyInv, Keyed
<1>6. /\ retried' \in PerMessage(Nat)
      /\ \A y \in Parties : \A j \in Ids(y) :
           retried'[y][j] = IF y = x /\ j = i THEN retried[y][j] + 1 ELSE retried[y][j]
  BY <1>2, <1>5, RetriedMoves
<1>7. IsFiniteSet(wire')
  BY <1>2, <1>5, FS_AddElement DEF SessionTypes
<1>10. m.from = x /\ m.id = i /\ m.kind = "pkmsg"
  BY <1>1, <1>4 DEF Outgoing, Stanza
<1>8. SessionTypes'
  BY <1>2, <1>3, <1>5, <1>6, <1>7, <1>10 DEF SessionTypes
<1>9. PreambleInv'
  <2> SUFFICES ASSUME NEW y \in Parties, session'[y] # NoSession, meta'[y] \in {NoMeta, Confirmed}
               PROVE  heard'[y] \/ revived'[y]
    BY DEF PreambleInv
  <2>1. meta \in [Parties -> Pres] /\ heard \in [Parties -> BOOLEAN] /\ revived \in [Parties -> BOOLEAN]
    BY <1>2 DEF SessionTypes
  <2>2. y # x
    BY <1>4, <1>5, <2>1
  <2>3. session'[y] = session[y] /\ meta'[y] = meta[y] /\ heard'[y] = heard[y] /\ revived'[y] = revived[y]
    BY <1>5, <2>1, <2>2
  <2> QED
    BY <2>3 DEF SideInv, PreambleInv
<1>11. PreambleKeptInProcess'
  BY <1>5, <1>10 DEF SideInv, PreambleKeptInProcess
<1>12. ASSUME NEW y \in Parties, NEW j \in Ids(y)
      PROVE  /\ retried'[y][j] <= 2
             /\ Past(pc[y][j]) + Twice(again[y][j]) + retried[y][j] + (IF y = x /\ j = i THEN 1 ELSE 0)
                <= Past(pc'[y][j]) + Twice(again'[y][j]) + retried'[y][j]
  <2>1. Past(pc[y][j]) \in 0 .. 1 /\ Twice(again[y][j]) \in 0 .. 1 /\ retried[y][j] \in Nat /\ retried[y][j] <= 2
    BY ResendType DEF SideInv, ResendInv
  <2>2. CASE y = x /\ j = i
    BY <1>5, <1>6, <2>1, <2>2
  <2>3. CASE ~(y = x /\ j = i)
    BY <1>5, <1>6, <2>1, <2>3
  <2> QED
    BY <2>2, <2>3
<1>13. ResendInv'
  BY <1>2, <1>5, <1>8, <1>10, <1>12, ResendOne DEF SideInv
<1> QED
  BY <1>8, <1>9, <1>11, <1>13 DEF SideInv

LEMMA CrashSide ==
  ASSUME SideInv, NEW x \in Parties, Crash(x)
  PROVE  SideInv'
<1>1. SessionTypes
  BY DEF SideInv
<1>2. PICK row : row = [i \in Ids(x) |-> IF pc[x][i] = "idle" THEN "idle" ELSE "failed"]
  OBVIOUS
<1>3. /\ meta' = [meta EXCEPT ![x] = NoMeta] /\ pc' = [pc EXCEPT ![x] = row]
      /\ revived' = [revived EXCEPT ![x] = @ \/ session[x] # NoSession]
      /\ UNCHANGED <<session, ident, opks, pool, bundle, again, retried, wire, receipts, heard, opened>>
  BY <1>2 DEF Crash
<1>4. row \in [Ids(x) -> Points] /\ \A i \in Ids(x) : row[i] = IF pc[x][i] = "idle" THEN "idle" ELSE "failed"
  BY <1>2 DEF Points
<1>5. PICK f, g : f = pc /\ g = pc'
  OBVIOUS
<1>6. f \in [Parties -> UNION {[Ids(y) -> Points] : y \in Parties}] /\ \A y \in Parties : f[y] \in [Ids(y) -> Points]
  BY <1>1, <1>5 DEF SessionTypes, PerMessage
<1>7. g = [y \in Parties |-> IF y = x THEN row ELSE f[y]]
  BY <1>3, <1>5, <1>6
<1>8. g = [y \in Parties |-> g[y]] /\ \A y \in Parties : g[y] \in [Ids(y) -> Points]
  BY <1>4, <1>6, <1>7
<1>9. g \in PerMessage(Points)
  BY ONLY <1>8, PerMessageIs
<1>10. NoMeta \in Pres
  BY DEF NoMeta, Pres, NoOpk
<1>11. SessionTypes'
  BY <1>1, <1>3, <1>5, <1>9, <1>10 DEF SessionTypes
<1>12. PreambleInv' /\ PreambleKeptInProcess'
  BY <1>1, <1>3 DEF SideInv, PreambleInv, PreambleKeptInProcess, SessionTypes
<1>13. ASSUME NEW y \in Parties, NEW j \in Ids(y)
      PROVE  /\ retried'[y][j] >= retried[y][j] /\ retried'[y][j] <= 2
             /\ Past(pc[y][j]) + Twice(again[y][j]) <= Past(pc'[y][j]) + Twice(again'[y][j])
  <2>1. /\ Past(pc[y][j]) \in 0 .. 1 /\ Twice(again[y][j]) \in 0 .. 1 /\ retried[y][j] \in Nat /\ retried[y][j] <= 2
        /\ pc[y][j] \in Points
    BY <1>1, ResendType DEF SideInv, ResendInv
  <2>2. pc'[y][j] = pc[y][j] \/ pc'[y][j] = "failed"
    BY <1>4, <1>5, <1>7
  <2>3. Past(pc[y][j]) <= Past(pc'[y][j]) /\ Past(pc'[y][j]) \in 0 .. 1
    BY <2>1, <2>2, PastIs
  <2> QED
    BY <1>3, <2>1, <2>3
<1>14. ResendInv'
  BY <1>1, <1>3, <1>11, <1>13, ResendQuiet DEF SideInv
<1> QED
  BY <1>11, <1>12, <1>14 DEF SideInv

LEMMA SideSteps ==
  ASSUME SideInv, KeyInv, [Next]_vars
  PROVE  SideInv'
<1>1. CASE UNCHANGED vars
  <2>1. UNCHANGED <<session, opks, pool, meta, ident, pc, bundle, again, retried, receipts, heard, revived, opened, wire>>
    BY <1>1 DEF vars, stores, tasks, ghosts
  <2>2. SessionTypes' /\ PreambleInv'
    BY <2>1 DEF SideInv, SessionTypes, PreambleInv
  <2> QED
    BY <2>1, <2>2, RestSide
<1>2. ASSUME NEW x \in Parties, NEW i \in Ids(x), Sending(x, i) PROVE SideInv'
  <2>1. CASE \E o \in BundleOpks(Peer(x)) : FetchReply(x, i, o)
    BY <2>1, FetchReplySide
  <2> QED
    BY <1>2, <2>1, SendNowSide, SendFetchSide, EstablishSide, AckSide, RetryOnceSide DEF Sending
<1>3. ASSUME NEW x \in Parties, Receiving(x) PROVE SideInv'
  <2>1. CASE RetryAckTimeout(x)
    <3>1. UNCHANGED <<session, opks, pool, meta, ident, pc, bundle, again, retried, receipts, heard, revived, opened, wire>>
      BY <2>1 DEF RetryAckTimeout, stores, ghosts
    <3>2. SessionTypes' /\ PreambleInv'
      BY <3>1 DEF SideInv, SessionTypes, PreambleInv
    <3> QED
      BY <3>1, <3>2, RestSide
  <2> QED
    BY <1>3, <2>1, ReceiveSide, ReceiveFailsSide DEF Receiving
<1>4. ASSUME NEW x \in Parties, Crash(x) PROVE SideInv'
  BY <1>4, CrashSide
<1>5. ASSUME NEW r \in receipts, RetryWithKeys(r) \/ RetryWithoutKeys(r) PROVE SideInv'
  BY <1>5, RetryWithKeysSide, RetryWithoutKeysSide
<1> QED
  BY <1>1, <1>2, <1>3, <1>4, <1>5 DEF Next

LEMMA SessionInit == Init => SideInv /\ KeyInv
<1> SUFFICES ASSUME Init PROVE SideInv /\ KeyInv
  OBVIOUS
<1>1. Opks \in [Parties -> SUBSET Nat] /\ NoMeta \in Pres /\ NoOpk \in Nat
  BY SessionAssumption DEF NoMeta, Pres, NoOpk
<1>2. ASSUME NEW T, NEW v \in T, NEW f, f = [x \in Parties |-> [i \in Ids(x) |-> v]]
      PROVE  f \in PerMessage(T) /\ \A x \in Parties : \A i \in Ids(x) : f[x][i] = v
  <2>1. f = [x \in Parties |-> f[x]] /\ \A x \in Parties : f[x] \in [Ids(x) -> T]
    BY <1>2
  <2> QED
    BY <1>2, <2>1, PerMessageIs
<1>3. "idle" \in Points
  BY DEF Points
<1>4. pc \in PerMessage(Points) /\ bundle \in PerMessage(Nat) /\ again \in PerMessage(BOOLEAN) /\ retried \in PerMessage(Nat)
      /\ \A x \in Parties : \A i \in Ids(x) : pc[x][i] = "idle" /\ again[x][i] = FALSE /\ retried[x][i] = 0
  <2>1. PICK p, b, a, r : p = pc /\ b = bundle /\ a = again /\ r = retried
    OBVIOUS
  <2>2. /\ p = [x \in Parties |-> [i \in Ids(x) |-> "idle"]]
        /\ b = [x \in Parties |-> [i \in Ids(x) |-> NoOpk]]
        /\ a = [x \in Parties |-> [i \in Ids(x) |-> FALSE]]
        /\ r = [x \in Parties |-> [i \in Ids(x) |-> 0]]
    BY <2>1 DEF Init
  <2>3. p \in PerMessage(Points) /\ \A x \in Parties : \A i \in Ids(x) : p[x][i] = "idle"
    BY ONLY <1>2, <1>3, <2>2
  <2>4. b \in PerMessage(Nat)
    BY ONLY <1>1, <1>2, <2>2
  <2>5. a \in PerMessage(BOOLEAN) /\ \A x \in Parties : \A i \in Ids(x) : a[x][i] = FALSE
    <3>1. FALSE \in BOOLEAN
      OBVIOUS
    <3> QED
      BY ONLY <1>2, <2>2, <3>1
  <2>6. r \in PerMessage(Nat) /\ \A x \in Parties : \A i \in Ids(x) : r[x][i] = 0
    <3>1. 0 \in Nat
      OBVIOUS
    <3> QED
      BY ONLY <1>2, <2>2, <3>1
  <2> QED
    BY ONLY <2>1, <2>3, <2>4, <2>5, <2>6
<1>5. IsFiniteSet(wire) /\ wire = {}
  BY FS_EmptySet DEF Init
<1>6. SessionTypes
  BY <1>1, <1>4, <1>5 DEF SessionTypes, Init
<1>7. PreambleInv /\ PreambleKeptInProcess
  BY DEF Init, PreambleInv, PreambleKeptInProcess
<1>8. ResendInv
  <2>1. \A x, i : Copies(wire, x, i) = {}
    BY <1>5 DEF Copies
  <2>2. Past("idle") = 0 /\ Twice(FALSE) = 0
    BY PastIs
  <2>3. Cardinality({}) = 0
    BY FS_EmptySet
  <2> SUFFICES ASSUME NEW x \in Parties, NEW i \in Ids(x)
               PROVE  /\ retried[x][i] <= 2
                      /\ Cardinality(Copies(wire, x, i)) <= Past(pc[x][i]) + Twice(again[x][i]) + retried[x][i]
    BY DEF ResendInv
  <2>4. Copies(wire, x, i) = {} /\ pc[x][i] = "idle" /\ again[x][i] = FALSE /\ retried[x][i] = 0
    BY <1>4, <2>1
  <2>5. Cardinality(Copies(wire, x, i)) = 0 /\ Past(pc[x][i]) = 0 /\ Twice(again[x][i]) = 0
    BY ONLY <2>2, <2>3, <2>4
  <2>6. PICK c, p, t, r : /\ c = Cardinality(Copies(wire, x, i)) /\ p = Past(pc[x][i])
                          /\ t = Twice(again[x][i]) /\ r = retried[x][i]
    OBVIOUS
  <2>7. c = 0 /\ p = 0 /\ t = 0 /\ r = 0
    BY ONLY <2>4, <2>5, <2>6
  <2>8. r <= 2 /\ c <= p + t + r
    BY ONLY <2>7
  <2> QED
    BY ONLY <2>6, <2>8
<1>9. Counters(fresh)
  <2>1. \A x \in Parties : Spk(x) \in Nat /\ Spk(x) > 0 /\ Owns(x, Spk(x) + 2)
    BY SpkIs, OwnsMore
  <2> QED
    BY <2>1 DEF Init, Counters
<1>10. KeyInv
  <2>1. session \in [Parties -> States \cup {NoSession}] /\ \A x \in Parties : session[x] = NoSession
    BY DEF Init
  <2> QED
    BY <1>5, <1>9, <2>1 DEF KeyInv, Keyed
<1> QED
  BY <1>6, <1>7, <1>8, <1>10 DEF SideInv

LEMMA SessionInvariance == Spec => [](SideInv /\ KeyInv)
<1>1. SideInv /\ KeyInv /\ [Next]_vars => SideInv' /\ KeyInv'
  BY SideSteps, KeyInvSteps DEF SideInv
<1> QED
  BY <1>1, SessionInit, PTL DEF Spec

(***************************************************************************)
(* _encrypt_for_peer never uses a message key for two stanzas, by one      *)
(* account or by both: whatever sends race for a session, replace it after *)
(* a retry, drop it, or find it in the sessions table after a crash.       *)
(***************************************************************************)
THEOREM NoKeyReuseHolds == Spec => []NoKeyReuse
<1>1. KeyInv => NoKeyReuse
  BY DEF KeyInv, Keyed, NoKeyReuse
<1> QED
  BY <1>1, SessionInvariance, PTL

(***************************************************************************)
(* As note_incoming_decrypted says, every stanza carries the pkmsg         *)
(* preamble until the peer was heard, unless _peer_meta was lost with the  *)
(* process; for any number of sends, retries and replaced sessions.        *)
(***************************************************************************)
THEOREM PreambleKeptInProcessHolds == Spec => []PreambleKeptInProcess
<1>1. SideInv => PreambleKeptInProcess
  BY DEF SideInv
<1> QED
  BY <1>1, SessionInvariance, PTL

(***************************************************************************)
(* The retry caps of _send_once and handle_retry_receipt bound the copies  *)
(* of one message by four, for any number of receipts, acks and crashes.   *)
(***************************************************************************)
THEOREM ResendsBoundedHolds == Spec => []ResendsBounded
<1>1. SideInv => ResendsBounded
  <2> SUFFICES ASSUME SideInv, NEW x \in Parties, NEW i \in Ids(x)
               PROVE  Cardinality({m \in wire : m.from = x /\ m.id = i}) <= 4
    BY DEF ResendsBounded
  <2>1. /\ Past(pc[x][i]) \in 0 .. 1 /\ Twice(again[x][i]) \in 0 .. 1 /\ retried[x][i] \in Nat
        /\ Cardinality(Copies(wire, x, i)) \in Nat
    BY ResendType DEF SideInv
  <2>2. /\ retried[x][i] <= 2
        /\ Cardinality(Copies(wire, x, i)) <= Past(pc[x][i]) + Twice(again[x][i]) + retried[x][i]
    BY DEF SideInv, ResendInv
  <2>3. Cardinality(Copies(wire, x, i)) <= 4
    BY ONLY <2>1, <2>2
  <2> QED
    BY <2>3 DEF Copies
<1> QED
  BY <1>1, SessionInvariance, PTL

-----------------------------------------------------------------------------
(***************************************************************************)
(* Replay.  Everything an account holds of a session comes from one X3DH   *)
(* secret, an initiator's secret is younger than those before it, and an   *)
(* OPK whose session a responder has taken part in is no longer stored.    *)
(* So a key that opened a stanza of such a session is behind the chain and *)
(* out of the dict for as long as the session lives.                       *)
(***************************************************************************)
Rooted(s) ==
  /\ s.ckr # NoChain => s.ckr.root[1] = s.rk[1]
  /\ \A k \in Chains : Held(s, k) => k.root[1] = s.rk[1]

Based(f, a) == a \in X3dhSecrets /\ a.base < f[a.init]
Burnt(o, a) == a.opk # NoOpk => a.opk \notin o[Peer(a.init)]

SpentAt(x, s, w, op) == \A n \in w :
  n.from = Peer(x) /\ n.mk \in op /\ n.mk.root[1] = s.rk[1] /\ n.mk.root[1].opk # NoOpk
    => Behind(s, n.mk) /\ ~Held(s, n.mk)

LiveAt(x, s, f, o) ==
  Rooted(s) /\ Based(f, s.rk[1]) /\ (s.rk[1].init = Peer(x) => Burnt(o, s.rk[1]))

WireAt(m, f, o) ==
  Based(f, m.mk.root[1]) /\ (m.mk.root[1].init = Peer(m.from) => Burnt(o, m.mk.root[1]))

Replay(ss, w, f, o, op) ==
  /\ \A k \in op : Burnt(o, k.root[1]) /\ \E m \in w : m.mk = k
  /\ \A m \in w : WireAt(m, f, o)
  /\ \A x \in Parties : ss[x] # NoSession => LiveAt(x, ss[x], f, o) /\ SpentAt(x, ss[x], w, op)

LEMMA FirstOf ==
  ASSUME NEW r \in Seq(Secrets), Len(r) > 0, NEW d \in Secrets
  PROVE  Append(r, d)[1] = r[1] /\ Append(r, d) \in Seq(Secrets) /\ Len(Append(r, d)) > 0
OBVIOUS

(* A stanza that a state decrypts comes from the state's secret.           *)
LEMMA ReadsRooted ==
  ASSUME NEW f, NEW x \in Parties, NEW s, NEW m \in Stanzas, NEW t, Reads(f, x, s, m, t), f[x] \in Nat,
         s.rk \in Seq(Secrets), Len(s.rk) > 0, s.dhs \in Nat, Rooted(s)
  PROVE  m.mk.root[1] = s.rk[1] /\ t.rk[1] = s.rk[1] /\ Rooted(t)
<1>1. UsesUp(s, m.mk, t) /\ DecryptKeeps(s, m.header, m.mk, t)
  BY DEF Reads
<1>2. m.mk \in Chains /\ m.header \in Headers /\ m.header.dh \in Nat
  BY DEF Stanzas, Headers
<1>3. \A k \in Chains : Held(t, k) =>
        \/ Held(s, k) \/ k.root = m.mk.root
        \/ t.dhr # s.dhr /\ s.ckr # NoChain /\ k.root = s.ckr.root
  BY <1>1 DEF DecryptKeeps
<1>4. CASE SameChain(s, m.mk, t)
  <2>1. t.ckr.root = s.ckr.root /\ t.rk = s.rk /\ s.ckr # NoChain /\ t.dhr = s.dhr
    BY <1>4 DEF SameChain
  <2>2. m.mk.root[1] = s.rk[1]
    <3>1. CASE Held(s, m.mk)
      BY <1>2, <3>1 DEF Rooted
    <3>2. CASE ~Behind(s, m.mk)
      BY <1>1, <2>1, <3>2 DEF UsesUp, Behind, Rooted
    <3> QED
      BY <1>1, <3>1, <3>2 DEF UsesUp, Unused
  <2> QED
    BY <1>3, <2>1, <2>2 DEF Rooted
<1>5. CASE NewChain(s, m.header, m.mk, f[x], t)
  <2>1. PICK d, e : d = Dh(s.dhs, m.header.dh) /\ e = Dh(f[x], m.header.dh)
    OBVIOUS
  <2>2. d \in Secrets /\ e \in Secrets
    BY <1>2, <2>1, DhType
  <2>3. m.mk.root = Append(s.rk, d) /\ t.ckr.root = m.mk.root /\ t.rk = Append(m.mk.root, e)
    BY <1>5, <2>1 DEF NewChain, KdfRk
  <2>4. m.mk.root \in Seq(Secrets) /\ Len(m.mk.root) > 0 /\ m.mk.root[1] = s.rk[1]
    BY <2>2, <2>3, FirstOf
  <2>5. t.rk[1] = s.rk[1]
    BY <2>2, <2>3, <2>4, FirstOf
  <2> QED
    BY <1>3, <2>3, <2>4, <2>5 DEF Rooted
<1> QED
  BY <1>4, <1>5 DEF Reads

LEMMA BurntStays ==
  ASSUME NEW o, NEW p, \A y \in Parties : p[y] \subseteq o[y], NEW a \in X3dhSecrets, Burnt(o, a)
  PROVE  Burnt(p, a)
BY PeerIs DEF Burnt, X3dhSecrets

LEMMA BasedGrows ==
  ASSUME NEW f, NEW g, f \in [Parties -> Nat], g \in [Parties -> Nat], \A y \in Parties : f[y] <= g[y],
         NEW a, Based(f, a)
  PROVE  Based(g, a) /\ a \in X3dhSecrets
<1>1. a.base \in Int /\ a.init \in Parties
  BY DEF Based, X3dhSecrets
<1>2. f[a.init] \in Nat /\ g[a.init] \in Nat /\ f[a.init] <= g[a.init] /\ a.base < f[a.init]
  BY <1>1 DEF Based
<1> QED
  BY <1>1, <1>2 DEF Based

LEMMA ReplayGrows ==
  ASSUME NEW f, NEW g, f \in [Parties -> Nat], g \in [Parties -> Nat], \A y \in Parties : f[y] <= g[y],
         NEW o, NEW p, \A y \in Parties : p[y] \subseteq o[y], NEW x \in Parties
  PROVE  /\ \A s : LiveAt(x, s, f, o) => LiveAt(x, s, g, p)
         /\ \A m : WireAt(m, f, o) => WireAt(m, g, p)
<1>1. ASSUME NEW a, Based(f, a) PROVE Based(g, a) /\ (Burnt(o, a) => Burnt(p, a))
  BY <1>1, BasedGrows, BurntStays
<1> QED
  BY <1>1 DEF LiveAt, WireAt

(* An account encrypts a stanza with its session.                          *)
LEMMA ReplaySend ==
  ASSUME NEW ss, NEW w, NEW f, NEW o, NEW op, Replay(ss, w, f, o, op), Keyed(ss, w, f),
         NEW x \in Parties, ss[x] # NoSession, NEW m, FromState(x, ss[x], m)
  PROVE  Replay([ss EXCEPT ![x] = EncryptState(@)], w \cup {m}, f, o, op)
<1>1. PICK y, s, t, ts, v : /\ y = Peer(x) /\ s = ss[x] /\ t = EncryptState(s)
                            /\ ts = [ss EXCEPT ![x] = t] /\ v = w \cup {m}
  OBVIOUS
<1>2. y \in Parties /\ y # x /\ Peer(y) = x /\ \A z \in Parties : z = x \/ z = y
  BY <1>1, PeerIs
<1>3. ss \in [Parties -> States \cup {NoSession}] /\ s \in States /\ Sound(s) /\ CanEncrypt(s)
  BY <1>1 DEF Keyed, Usable
<1>4. /\ t \in States /\ t.rk = s.rk /\ t.ckr = s.ckr /\ t.mkskipped = s.mkskipped
      /\ s.cks.root = s.rk
  BY ONLY <1>1, <1>3, EncryptStateIs
<1>5. ts[x] = t /\ ts[y] = ss[y]
  BY <1>1, <1>2, <1>3
<1>6. m \in Stanzas /\ m.from = x /\ m.mk.root = s.rk
  BY <1>1, <1>4 DEF FromState, EncryptKey
<1>7. m.mk \notin op
  <2>1. \A n \in w : n.mk # m.mk
    BY KeyedSend DEF FromState
  <2> QED
    BY <2>1 DEF Replay
<1>8. \A k : (Held(t, k) <=> Held(s, k)) /\ (Behind(t, k) <=> Behind(s, k))
  BY ONLY <1>4, Zenon DEF Held, Behind
<1>9. LiveAt(x, s, f, o) /\ SpentAt(x, s, w, op)
  BY <1>1 DEF Replay
<1>10. LiveAt(x, t, f, o)
  BY ONLY <1>4, <1>8, <1>9 DEF LiveAt, Rooted
<1>11. SpentAt(x, t, v, op)
  BY ONLY <1>1, <1>4, <1>7, <1>8, <1>9 DEF SpentAt
<1>12. WireAt(m, f, o)
  BY <1>6, <1>9 DEF LiveAt, WireAt
<1>13. ss[y] # NoSession => LiveAt(y, ss[y], f, o) /\ SpentAt(y, ss[y], v, op)
  BY <1>1, <1>2, <1>7 DEF Replay, SpentAt
<1>14. \A z \in Parties : ts[z] # NoSession => LiveAt(z, ts[z], f, o) /\ SpentAt(z, ts[z], v, op)
  BY ONLY <1>2, <1>5, <1>10, <1>11, <1>13
<1>15. Replay(ts, v, f, o, op)
  BY ONLY <1>1, <1>12, <1>14, Replay(ss, w, f, o, op) DEF Replay
<1>16. ts = [ss EXCEPT ![x] = EncryptState(@)]
  BY <1>1
<1> QED
  BY ONLY <1>1, <1>15, <1>16, Zenon

(* An account replaces its session, or moves it on.                        *)
OpensMore(x, w, p, op, q) ==
  \A k \in q : k \in op \/ /\ Burnt(p, k.root[1])
                           /\ \E m \in w : m.mk = k
                           /\ \A n \in w : n.mk = k => n.from = Peer(x)

LEMMA ReplaySet ==
  ASSUME NEW ss, NEW w, NEW f, NEW o, NEW op, Replay(ss, w, f, o, op),
         ss \in [Parties -> States \cup {NoSession}], NEW x \in Parties, NEW t, NEW g, NEW p, NEW q,
         f \in [Parties -> Nat], g \in [Parties -> Nat], \A y \in Parties : f[y] <= g[y],
         \A y \in Parties : p[y] \subseteq o[y],
         LiveAt(x, t, g, p), SpentAt(x, t, w, q),
         OpensMore(x, w, p, op, q)
  PROVE  Replay([ss EXCEPT ![x] = t], w, g, p, q)
<1>1. PICK y, ts : y = Peer(x) /\ ts = [ss EXCEPT ![x] = t]
  OBVIOUS
<1>2. y \in Parties /\ y # x /\ Peer(y) = x /\ \A z \in Parties : z = x \/ z = y
  BY <1>1, PeerIs
<1>3. ts[x] = t /\ ts[y] = ss[y]
  BY <1>1, <1>2
<1>4. \A k \in op : Burnt(p, k.root[1])
  <2> SUFFICES ASSUME NEW k \in op PROVE Burnt(p, k.root[1])
    OBVIOUS
  <2>1. PICK m \in w : m.mk = k
    BY DEF Replay
  <2>2. k.root[1] \in X3dhSecrets /\ Burnt(o, k.root[1])
    BY <2>1 DEF Replay, WireAt, Based
  <2>3. PICK a : a = k.root[1]
    OBVIOUS
  <2>4. a \in X3dhSecrets /\ Burnt(o, a)
    BY ONLY <2>2, <2>3, Zenon
  <2>5. Burnt(p, a)
    BY ONLY <2>4, \A z \in Parties : p[z] \subseteq o[z], BurntStays
  <2> QED
    BY ONLY <2>3, <2>5, Zenon
<1>5. \A k \in q : Burnt(p, k.root[1]) /\ \E m \in w : m.mk = k
  BY <1>4 DEF Replay, OpensMore
<1>6. \A m \in w : WireAt(m, g, p)
  BY ReplayGrows DEF Replay
<1>7. ASSUME ss[y] # NoSession PROVE LiveAt(y, ss[y], g, p) /\ SpentAt(y, ss[y], w, q)
  <2>1. LiveAt(y, ss[y], f, o) /\ SpentAt(y, ss[y], w, op)
    BY <1>2, <1>7 DEF Replay
  <2>2. LiveAt(y, ss[y], g, p)
    BY <1>2, <2>1, ReplayGrows
  <2>3. \A n \in w : n.from = Peer(y) /\ n.mk \in q => n.mk \in op
    BY <1>1, <1>2 DEF OpensMore
  <2> QED
    BY ONLY <2>1, <2>2, <2>3 DEF SpentAt
<1>8. \A z \in Parties : ts[z] # NoSession => LiveAt(z, ts[z], g, p) /\ SpentAt(z, ts[z], w, q)
  BY ONLY <1>2, <1>3, <1>7, LiveAt(x, t, g, p), SpentAt(x, t, w, q)
<1>9. Replay(ts, w, g, p, q)
  BY ONLY <1>5, <1>6, <1>8 DEF Replay
<1> QED
  BY ONLY <1>1, <1>9, Zenon

ReplayInv == Replay(session, wire, fresh, opks, opened) /\ OpkSessionsReplayProof

(* A new initiator session has a secret no stanza was made from.           *)
LEMMA OpenReplay ==
  ASSUME SessionTypes, KeyInv, ReplayInv, NEW x \in Parties, NEW o \in Nat, NEW m \in Stanzas, OpenStep(x, o, m)
  PROVE  ReplayInv'
<1>1. PICK t, ts :
        /\ ts = [session EXCEPT ![x] = t]
        /\ Usable(fresh', x, t) /\ Counters(fresh') /\ Keyed(ts, wire, fresh')
        /\ ts[x] = t /\ t # NoSession /\ FromState(x, ts[x], m)
        /\ session' = [ts EXCEPT ![x] = EncryptState(@)]
        /\ \A y \in Parties : fresh[y] <= fresh'[y]
        /\ fresh[x] < fresh'[x]
        /\ t.rk = Append(Secret(x, NewPre(x, o)), Dh(fresh[x] + 2, Spk(Peer(x))))
        /\ t.ckr = NoChain /\ t.mkskipped = <<>>
  <2>1. PICK t, ts :
           /\ t = NewState(x, o) /\ ts = [session EXCEPT ![x] = t]
           /\ Usable(fresh', x, t) /\ Counters(fresh')
           /\ Keyed(ts, wire, fresh')
           /\ ts[x] = t /\ t # NoSession /\ FromState(x, ts[x], m)
           /\ session' = [ts EXCEPT ![x] = EncryptState(@)]
           /\ \A y \in Parties : fresh[y] <= fresh'[y]
           /\ fresh[x] < fresh'[x]
           /\ t.rk = Append(Secret(x, NewPre(x, o)), Dh(fresh[x] + 2, Spk(Peer(x))))
           /\ t.dhs = fresh[x] + 2 /\ t.dhr = Spk(Peer(x)) /\ t.ckr = NoChain /\ t.mkskipped = <<>>
           /\ t.nr = 0 /\ t.ns = 0 /\ t.pn = 0
    BY OpenSplits
  <2> QED
    BY ONLY <2>1, Zenon
<1>2. PICK f, g, ss, w, os, op, a : /\ f = fresh /\ g = fresh' /\ ss = session /\ w = wire /\ os = opks /\ op = opened
                                    /\ a = [init |-> x, base |-> f[x], opk |-> o]
  OBVIOUS
<1>3. f \in [Parties -> Nat] /\ g \in [Parties -> Nat] /\ ss \in [Parties -> States \cup {NoSession}] /\ f[x] \in Nat
  BY <1>1, <1>2 DEF KeyInv, Keyed, Counters
<1>4. t.rk[1] = a /\ a \in X3dhSecrets
  <2>1. PICK sk, d : sk = Secret(x, NewPre(x, o)) /\ d = Dh(fresh[x] + 2, Spk(Peer(x)))
    OBVIOUS
  <2>2. NewPre(x, o) \in Pres /\ NewPre(x, o).base = fresh[x] /\ NewPre(x, o).opk = o
    BY NewStateIs
  <2>3. sk \in Seq(Secrets) /\ Len(sk) = 1 /\ sk[1] = a /\ sk[1] \in X3dhSecrets
    BY <1>2, <2>1, <2>2, SecretIs
  <2>4. d \in Secrets
    <3>1. fresh[x] + 2 \in Nat /\ Spk(Peer(x)) \in Nat
      BY <1>2, <1>3, PeerIs, SpkIs
    <3> QED
      BY <2>1, <3>1, DhType
  <2>5. t.rk = Append(sk, d)
    BY <1>1, <2>1
  <2> QED
    BY ONLY <2>3, <2>4, <2>5, FirstOf
<1>5. a.init = x /\ a.base = f[x] /\ f[x] < g[x] /\ Peer(x) # x
  BY <1>1, <1>2, PeerIs
<1>6. Rooted(t)
  <2>1. \A k : ~Held(t, k)
    BY <1>1 DEF Held
  <2> QED
    BY <1>1, <2>1 DEF Rooted
<1>7. LiveAt(x, t, g, os)
  BY ONLY <1>4, <1>5, <1>6 DEF LiveAt, Based
<1>8. Replay(ss, w, f, os, op)
  BY <1>2 DEF ReplayInv
<1>9. SpentAt(x, t, w, op)
  <2>1. ASSUME NEW n \in w PROVE n.mk.root[1] # a
    <3>1. Based(f, n.mk.root[1])
      BY <1>8 DEF Replay, WireAt
    <3> QED
      BY ONLY <1>3, <1>5, <3>1 DEF Based
  <2> QED
    BY <1>4, <2>1 DEF SpentAt
<1>10. Replay(ts, w, g, os, op)
  <2>1. \A y \in Parties : os[y] \subseteq os[y] /\ f[y] <= g[y]
    BY <1>1, <1>2
  <2>2. ts = [ss EXCEPT ![x] = t]
    BY <1>1, <1>2
  <2>3. Replay([ss EXCEPT ![x] = t], w, g, os, op)
    <3>1. OpensMore(x, w, os, op, op)
      BY DEF OpensMore
    <3> QED
      BY ONLY <1>3, <1>7, <1>8, <1>9, <2>1, <3>1, x \in Parties, ReplaySet
  <2> QED
    BY ONLY <2>2, <2>3, Zenon
<1>11. Replay([ts EXCEPT ![x] = EncryptState(@)], w \cup {m}, g, os, op)
  <2>1. Keyed(ts, w, g) /\ ts[x] # NoSession /\ FromState(x, ts[x], m)
    BY <1>1, <1>2
  <2> QED
    BY ONLY <1>10, <2>1, x \in Parties, ReplaySend
<1>12. session' = [ts EXCEPT ![x] = EncryptState(@)] /\ wire' = w \cup {m} /\ fresh' = g /\ opks' = os /\ opened' = op
       /\ reopened' = reopened
  BY <1>1, <1>2 DEF OpenStep
<1>13. Replay(session, wire, fresh, opks, opened)'
  BY <1>11, <1>12
<1> QED
  BY <1>12, <1>13 DEF ReplayInv, OpkSessionsReplayProof

(* A stanza an account reads is from the secret of the state it is read    *)
(* with, the stored one or the one its preamble starts.                    *)
LEMMA ReadSecret ==
  ASSUME KeyInv, ReplayInv, NEW x \in Parties, NEW m \in wire, NEW s, NEW t, ReadsFrom(x, m, s, t)
  PROVE  /\ s.rk[1] = m.mk.root[1] /\ t.rk[1] = m.mk.root[1] /\ Rooted(t)
         /\ \/ s = session[x] /\ s # NoSession /\ opks' = opks
            \/ /\ m.mk.root[1] = [init |-> m.from, base |-> m.pre.base, opk |-> m.pre.opk]
               /\ (m.pre.opk = NoOpk \/ m.pre.opk \in opks[x])
               /\ opks' = [opks EXCEPT ![x] = @ \ {m.pre.opk}]
               /\ NewChain(s, m.header, m.mk, fresh[x], t) /\ s.ns = 0
<1>1. m \in Stanzas /\ Reads(fresh, x, s, m, t) /\ fresh[x] \in Nat
  BY DEF KeyInv, Keyed, Posted, Counters, ReadsFrom
<1>2. CASE s = session[x] /\ s # NoSession /\ opks' = opks
  <2>1. s \in States /\ MadeRoot(fresh, s.rk) /\ LiveAt(x, s, fresh, opks)
    BY <1>2 DEF ReplayInv, Replay, KeyInv, Keyed, Usable
  <2>2. s.rk \in Seq(Secrets) /\ Len(s.rk) > 0 /\ s.dhs \in Nat /\ Rooted(s)
    BY <2>1 DEF MadeRoot, States, LiveAt
  <2>3. m.mk.root[1] = s.rk[1] /\ t.rk[1] = s.rk[1] /\ Rooted(t)
    BY <1>1, <2>2, ReadsRooted
  <2> QED
    BY <1>2, <2>3
<1>3. CASE /\ s.ckr = NoChain /\ s.mkskipped = <<>> /\ s.rk = Secret(m.from, m.pre) /\ s.dhs \in Nat /\ s.ns = 0
           /\ (m.pre.opk = NoOpk \/ m.pre.opk \in opks[x])
           /\ opks' = [opks EXCEPT ![x] = @ \ {m.pre.opk}]
           /\ NewChain(s, m.header, m.mk, fresh[x], t)
  <2>1. m.pre \in Pres /\ m.from \in Parties
    BY <1>1 DEF Stanzas
  <2>2. s.rk \in Seq(Secrets) /\ Len(s.rk) > 0 /\ s.rk[1] = [init |-> m.from, base |-> m.pre.base, opk |-> m.pre.opk]
    <3>1. PICK sk : sk = Secret(m.from, m.pre)
      OBVIOUS
    <3>2. sk \in Seq(Secrets) /\ Len(sk) = 1 /\ sk[1] = [init |-> m.from, base |-> m.pre.base, opk |-> m.pre.opk]
      BY <2>1, <3>1, SecretIs
    <3>3. s.rk = sk
      BY <1>3, <3>1
    <3>4. Len(sk) > 0
      BY ONLY <3>2
    <3> QED
      BY ONLY <3>2, <3>3, <3>4, Zenon
  <2>3. Rooted(s)
    <3>1. \A k : ~Held(s, k)
      BY <1>3 DEF Held
    <3> QED
      BY <1>3, <3>1 DEF Rooted
  <2>4. m.mk.root[1] = s.rk[1] /\ t.rk[1] = s.rk[1] /\ Rooted(t)
    BY <1>1, <1>3, <2>2, <2>3, ReadsRooted
  <2>5. m.mk.root[1] = [init |-> m.from, base |-> m.pre.base, opk |-> m.pre.opk]
    BY ONLY <2>2, <2>4, Zenon
  <2> QED
    BY ONLY <1>3, <2>4, <2>5, Zenon
<1> QED
  BY <1>2, <1>3 DEF ReadsFrom

LEMMA ReadReplay ==
  ASSUME SessionTypes, KeyInv, ReplayInv, NEW x \in Parties, NEW m \in wire, ReadStep(x, m)
  PROVE  ReplayInv'
<1>1. PICK s, t : ReadsFrom(x, m, s, t)
  BY ReadSplits
<1>2. PICK f, g, ss, w, o, p, op, q, a : /\ f = fresh /\ g = fresh' /\ ss = session /\ w = wire /\ o = opks /\ p = opks'
                                         /\ op = opened /\ q = opened' /\ a = m.mk.root[1]
  OBVIOUS
<1>3. /\ m.from = Peer(x) /\ wire' = wire /\ q = op \cup {m.mk}
      /\ reopened' = IF m.mk \in op THEN reopened \cup {m.mk} ELSE reopened
  BY <1>2 DEF ReadStep
<1>4. KeyInv' /\ \A y \in Parties : f[y] <= g[y]
  BY <1>1, <1>2, <1>3, ReadKeyed
<1>5. /\ f \in [Parties -> Nat] /\ g \in [Parties -> Nat] /\ ss \in [Parties -> States \cup {NoSession}] /\ f[x] \in Nat
      /\ Posted(f, m) /\ m \in Stanzas /\ \A n \in w : n \in Stanzas /\ (n.mk = m.mk => n = m)
  BY <1>2, <1>4 DEF KeyInv, Keyed, Counters, Posted
<1>6. Replay(ss, w, f, o, op) /\ o \in [Parties -> SUBSET Nat] /\ m \in w
  BY <1>2 DEF ReplayInv, SessionTypes
<1>7. /\ Reads(f, x, s, m, t) /\ session' = [ss EXCEPT ![x] = t]
      /\ a = s.rk[1] /\ t.rk[1] = a /\ Rooted(t)
      /\ \/ s = ss[x] /\ s # NoSession /\ p = o
         \/ /\ a = [init |-> m.from, base |-> m.pre.base, opk |-> m.pre.opk]
            /\ (m.pre.opk = NoOpk \/ m.pre.opk \in o[x])
            /\ p = [o EXCEPT ![x] = @ \ {m.pre.opk}]
  <2>1. /\ s.rk[1] = m.mk.root[1] /\ t.rk[1] = m.mk.root[1] /\ Rooted(t)
        /\ \/ s = session[x] /\ s # NoSession /\ opks' = opks
           \/ /\ m.mk.root[1] = [init |-> m.from, base |-> m.pre.base, opk |-> m.pre.opk]
              /\ (m.pre.opk = NoOpk \/ m.pre.opk \in opks[x])
              /\ opks' = [opks EXCEPT ![x] = @ \ {m.pre.opk}]
    BY <1>1, ReadSecret
  <2>2. Reads(fresh, x, s, m, t) /\ session' = [session EXCEPT ![x] = t]
    BY <1>1 DEF ReadsFrom
  <2> QED
    BY ONLY <1>2, <2>1, <2>2, Zenon
<1>8. Based(f, a) /\ (a.init = x => Burnt(o, a))
  <2>1. WireAt(m, f, o)
    BY <1>6 DEF Replay
  <2> QED
    BY <1>2, <1>3, <2>1, PeerIs DEF WireAt
<1>9. /\ a = s.rk[1] /\ t.rk[1] = a /\ Rooted(t) /\ Burnt(p, a) /\ \A y \in Parties : p[y] \subseteq o[y]
      /\ \A n \in w : n.from = Peer(x) /\ n.mk \in op /\ n.mk.root[1] = a /\ a.opk # NoOpk => Behind(s, n.mk) /\ ~Held(s, n.mk)
  <2>1. CASE s = ss[x] /\ s # NoSession /\ p = o
    <3>1. LiveAt(x, s, f, o) /\ SpentAt(x, s, w, op)
      BY <1>6, <2>1 DEF Replay
    <3>2. Burnt(o, a)
      <4>1. a.init \in Parties /\ (a.init = x \/ a.init = Peer(x))
        BY <1>8, PeerIs DEF Based, X3dhSecrets
      <4> QED
        BY <1>7, <1>8, <3>1, <4>1 DEF LiveAt
    <3> QED
      BY ONLY <1>7, <2>1, <3>1, <3>2 DEF SpentAt
  <2>2. CASE /\ a = [init |-> m.from, base |-> m.pre.base, opk |-> m.pre.opk]
             /\ (m.pre.opk = NoOpk \/ m.pre.opk \in o[x])
             /\ p = [o EXCEPT ![x] = @ \ {m.pre.opk}]
    <3>1. a.init = Peer(x) /\ a.opk = m.pre.opk /\ Peer(Peer(x)) = x
      BY <1>3, <2>2, PeerIs
    <3>2. p[x] = o[x] \ {m.pre.opk} /\ \A y \in Parties : p[y] \subseteq o[y]
      BY <1>6, <2>2
    <3>3. Burnt(p, a)
      BY <3>1, <3>2 DEF Burnt
    <3>4. ASSUME NEW n \in w, n.mk \in op, n.mk.root[1] = a, a.opk # NoOpk PROVE FALSE
      <4>1. Burnt(o, a)
        BY <1>6, <3>4 DEF Replay
      <4> QED
        BY <2>2, <3>1, <3>4, <4>1 DEF Burnt
    <3> QED
      BY ONLY <1>7, <3>2, <3>3, <3>4
  <2> QED
    BY <1>7, <2>1, <2>2
<1>10. UsesUp(s, m.mk, t)
  BY <1>7 DEF Reads
<1>11. SpentAt(x, t, w, q)
  <2> SUFFICES ASSUME NEW n \in w, n.from = Peer(x), n.mk \in q, n.mk.root[1] = t.rk[1], n.mk.root[1].opk # NoOpk
               PROVE  Behind(t, n.mk) /\ ~Held(t, n.mk)
    BY DEF SpentAt
  <2>1. n.mk \in Chains
    BY <1>5 DEF Stanzas
  <2>2. CASE n.mk = m.mk
    BY <1>10, <2>2 DEF UsesUp
  <2>3. CASE n.mk \in op
    <3>1. Behind(s, n.mk) /\ ~Held(s, n.mk)
      BY <1>9, <2>3
    <3> QED
      BY ONLY <1>10, <2>1, <3>1, Zenon DEF UsesUp
  <2> QED
    BY <1>3, <2>2, <2>3
<1>12. LiveAt(x, t, g, p)
  BY <1>4, <1>5, <1>8, <1>9, BasedGrows DEF LiveAt
<1>13. OpensMore(x, w, p, op, q)
  BY <1>2, <1>3, <1>5, <1>6, <1>9 DEF OpensMore
<1>14. Replay([ss EXCEPT ![x] = t], w, g, p, q)
  <2>1. \A y \in Parties : f[y] <= g[y]
    BY <1>4
  <2>2. \A y \in Parties : p[y] \subseteq o[y]
    BY <1>9
  <2> QED
    BY ONLY <1>5, <1>6, <1>11, <1>12, <1>13, <2>1, <2>2, x \in Parties, ReplaySet
<1>15. Replay(session, wire, fresh, opks, opened)'
  BY <1>2, <1>3, <1>7, <1>14
<1>16. ASSUME m.mk \in op PROVE a.opk = NoOpk
  <2> SUFFICES ASSUME a.opk # NoOpk PROVE FALSE
    OBVIOUS
  <2>1. Behind(s, m.mk) /\ ~Held(s, m.mk)
    BY <1>2, <1>3, <1>6, <1>9, <1>16
  <2> QED
    BY <1>10, <2>1 DEF UsesUp, Unused
<1>17. OpkSessionsReplayProof'
  BY <1>2, <1>3, <1>16 DEF ReplayInv, OpkSessionsReplayProof, SecretOf
<1> QED
  BY <1>15, <1>17 DEF ReplayInv

LEMMA ReplaySteps ==
  ASSUME SessionTypes, KeyInv, ReplayInv, [Next]_vars
  PROVE  ReplayInv'
<1>1. CASE QuietStep
  BY <1>1 DEF QuietStep, ReplayInv, OpkSessionsReplayProof
<1>2. ASSUME NEW x \in Parties, DropStep(x) PROVE ReplayInv'
  <2>1. session \in [Parties -> States \cup {NoSession}]
    BY DEF KeyInv, Keyed
  <2>2. \A z \in Parties : session'[z] # NoSession => session'[z] = session[z]
    BY <1>2, <2>1 DEF DropStep
  <2>3. UNCHANGED <<wire, fresh, opks, opened, reopened>>
    BY <1>2 DEF DropStep
  <2>4. Replay(session, wire, fresh, opks, opened)'
    BY <2>2, <2>3 DEF ReplayInv, Replay
  <2> QED
    BY <2>3, <2>4 DEF ReplayInv, OpkSessionsReplayProof
<1>3. ASSUME NEW x \in Parties, NEW m \in Stanzas, SendStep(x, m) PROVE ReplayInv'
  <2>1. Replay([session EXCEPT ![x] = EncryptState(@)], wire \cup {m}, fresh, opks, opened)
    BY <1>3, ReplaySend DEF SendStep, KeyInv, ReplayInv
  <2> QED
    BY <1>3, <2>1 DEF SendStep, ReplayInv, OpkSessionsReplayProof
<1> QED
  BY <1>1, <1>2, <1>3, OpenReplay, ReadReplay, CoreSteps

(***************************************************************************)
(* _decrypt_enc opens no ciphertext of a session with an OPK twice,        *)
(* although a repeated pkmsg makes a new responder state: the OPK it names *)
(* has been deleted in the transaction that stored the session.            *)
(***************************************************************************)
THEOREM OpkSessionsReplayProofHolds == Spec => []OpkSessionsReplayProof
<1>1. Init => ReplayInv
  BY DEF Init, ReplayInv, Replay, OpkSessionsReplayProof
<1>2. SideInv /\ KeyInv /\ ReplayInv /\ [Next]_vars => ReplayInv'
  BY ReplaySteps DEF SideInv
<1>3. ReplayInv => OpkSessionsReplayProof
  BY DEF ReplayInv
<1> QED
  BY <1>1, <1>2, <1>3, SessionInvariance, PTL DEF Spec

-----------------------------------------------------------------------------
(***************************************************************************)
(* Chains.  A key pair sends on one chain, a chain is sent without a gap,  *)
(* and a stanza's header tells the place of its key in it.                 *)
(***************************************************************************)
Sent(w, x, r, k) == \E n \in w : n.from = x /\ n.mk.root = r /\ n.mk.n = k

Tagged(w, m) ==
  /\ m.header.n = m.mk.n /\ Named(m.from, m.header.dh, m.mk.root)
  /\ \A k \in Nat : k < m.mk.n => Sent(w, m.from, m.mk.root, k)

Shaped(x, s) ==
  /\ Named(x, s.dhs, s.rk) /\ AllNamed(Peer(x), s)
  /\ s.ckr # NoChain => s.rk = Append(s.ckr.root, Dh(s.dhs, s.dhr)) /\ Named(Peer(x), s.dhr, s.ckr.root)
  /\ s.ckr = NoChain => Len(s.rk) = 2 /\ s.rk[1].init = x

Follows(x, s, w) ==
  /\ \A m \in w : m.from = x /\ m.header.dh = s.dhs => m.mk.root = s.rk
  /\ \A k \in Nat : k < s.cks.n => Sent(w, x, s.rk, k)

Chained(ss, w) ==
  /\ \A m \in w : Tagged(w, m)
  /\ \A m, n \in w : m.from = n.from /\ m.header.dh = n.header.dh => m.mk.root = n.mk.root
  /\ \A x \in Parties : ss[x] # NoSession => Shaped(x, ss[x]) /\ Follows(x, ss[x], w)

LEMMA NotBoth ==
  ASSUME NEW x \in Parties, NEW d, NEW e, Owns(x, d), Owns(Peer(x), e)
  PROVE  d # e
<1>1. Spk(x) \in 1 .. 2 /\ Spk(Peer(x)) \in 1 .. 2 /\ Spk(x) # Spk(Peer(x))
  BY SpkIs, PeerIs
<1>2. PICK i \in Nat, j \in Nat : d = 2 * i + Spk(x) /\ e = 2 * j + Spk(Peer(x))
  BY DEF Owns
<1> QED
  BY ONLY <1>1, <1>2

LEMMA NameIsOne ==
  ASSUME NEW x \in Parties, NEW r, NEW d, NEW e, Named(x, d, r), Named(x, e, r)
  PROVE  d = e
<1>1. PICK a \in Nat, b \in Nat : /\ Owns(Peer(x), a) /\ Owns(Peer(x), b)
                                  /\ Dh(d, a) = Dh(e, b) /\ Owns(x, d) /\ Owns(x, e)
  BY DEF Named
<1>2. d # b
  BY <1>1, NotBoth
<1>3. d \in Dh(e, b)
  BY <1>1 DEF Dh
<1> QED
  BY <1>2, <1>3 DEF Dh

LEMMA NameOfNew ==
  ASSUME NEW x \in Parties, NEW r \in Seq(Secrets), NEW d \in Nat, NEW e \in Nat, Owns(x, d), Owns(Peer(x), e)
  PROVE  Named(x, d, Append(r, Dh(d, e)))
<1>1. Append(r, Dh(d, e))[Len(Append(r, Dh(d, e)))] = Dh(d, e)
  OBVIOUS
<1> QED
  BY <1>1 DEF Named

LEMMA SentStays ==
  ASSUME NEW w, NEW m, NEW x, NEW r, NEW k, Sent(w, x, r, k)
  PROVE  Sent(w \cup {m}, x, r, k)
BY DEF Sent

LEMMA ChainedSend ==
  ASSUME NEW ss, NEW w, NEW f, Keyed(ss, w, f), Chained(ss, w), NEW x \in Parties, ss[x] # NoSession,
         NEW m, FromState(x, ss[x], m)
  PROVE  Chained([ss EXCEPT ![x] = EncryptState(@)], w \cup {m})
<1>1. PICK y, s, t, ts, v : /\ y = Peer(x) /\ s = ss[x] /\ t = EncryptState(s)
                            /\ ts = [ss EXCEPT ![x] = t] /\ v = w \cup {m}
  OBVIOUS
<1>2. y \in Parties /\ y # x /\ Peer(y) = x /\ \A z \in Parties : z = x \/ z = y
  BY <1>1, PeerIs
<1>3. ss \in [Parties -> States \cup {NoSession}] /\ s \in States /\ Sound(s) /\ CanEncrypt(s)
  BY <1>1 DEF Keyed, Usable
<1>4. /\ t \in States /\ t.dhs = s.dhs /\ t.dhr = s.dhr /\ t.rk = s.rk /\ t.ckr = s.ckr
      /\ t.mkskipped = s.mkskipped /\ t.cks.n = s.ns + 1
      /\ s.cks.root = s.rk /\ s.cks.n = s.ns
  BY ONLY <1>1, <1>3, EncryptStateIs
<1>5. ts[x] = t /\ ts[y] = ss[y]
  BY <1>1, <1>2, <1>3
<1>6. /\ m \in Stanzas /\ m.from = x /\ m.mk.root = s.rk /\ m.mk.n = s.ns /\ m.header.dh = s.dhs
      /\ m.header.n = s.ns /\ s.ns \in Nat
  BY <1>1, <1>3, <1>4 DEF FromState, EncryptKey, EncryptHeader, States
<1>7. Shaped(x, s) /\ Follows(x, s, w)
  BY <1>1 DEF Chained
<1>8. \A n \in w : Tagged(w, n)
  BY DEF Chained
<1>9. \A z, r, k : Sent(w, z, r, k) => Sent(v, z, r, k)
  BY <1>1, SentStays
<1>10. \A n \in w : Tagged(v, n)
  BY ONLY <1>8, <1>9 DEF Tagged
<1>11. Tagged(v, m)
  BY ONLY <1>4, <1>6, <1>7, <1>9 DEF Tagged, Shaped, Follows
<1>12. \A n \in w : n.from = x /\ n.header.dh = s.dhs => n.mk.root = s.rk
  BY ONLY <1>7 DEF Follows
<1>13. \A n, k \in v : n.from = k.from /\ n.header.dh = k.header.dh => n.mk.root = k.mk.root
  <2>1. \A n, k \in w : n.from = k.from /\ n.header.dh = k.header.dh => n.mk.root = k.mk.root
    BY DEF Chained
  <2> QED
    BY ONLY <1>1, <1>6, <1>12, <2>1
<1>14. Shaped(x, t)
  BY ONLY <1>4, <1>7 DEF Shaped, AllNamed
<1>15. Follows(x, t, v)
  <2>1. \A n \in v : n.from = x /\ n.header.dh = t.dhs => n.mk.root = t.rk
    BY ONLY <1>1, <1>4, <1>6, <1>12
  <2>2. ASSUME NEW k \in Nat, k < t.cks.n PROVE Sent(v, x, t.rk, k)
    <3>1. k < s.ns \/ k = s.ns
      BY <1>4, <1>6, <2>2
    <3>2. CASE k < s.ns
      BY ONLY <1>4, <1>7, <1>9, <3>2, k \in Nat DEF Follows
    <3>3. CASE k = s.ns
      BY ONLY <1>1, <1>4, <1>6, <3>3 DEF Sent
    <3> QED
      BY <3>1, <3>2, <3>3
  <2> QED
    BY ONLY <2>1, <2>2 DEF Follows
<1>16. ASSUME ss[y] # NoSession PROVE Shaped(y, ss[y]) /\ Follows(y, ss[y], v)
  <2>1. Shaped(y, ss[y]) /\ Follows(y, ss[y], w)
    BY <1>2, <1>16 DEF Chained
  <2> QED
    BY ONLY <1>1, <1>2, <1>6, <1>9, <2>1 DEF Follows
<1>17. \A z \in Parties : ts[z] # NoSession => Shaped(z, ts[z]) /\ Follows(z, ts[z], v)
  BY ONLY <1>2, <1>5, <1>14, <1>15, <1>16
<1>18. \A n \in v : Tagged(v, n)
  BY ONLY <1>1, <1>10, <1>11
<1>19. Chained(ts, v)
  BY ONLY <1>13, <1>17, <1>18 DEF Chained
<1>20. ts = [ss EXCEPT ![x] = EncryptState(@)]
  BY <1>1
<1> QED
  BY ONLY <1>1, <1>19, <1>20, Zenon

LEMMA ChainedSet ==
  ASSUME NEW ss, NEW w, Chained(ss, w), ss \in [Parties -> States \cup {NoSession}], NEW x \in Parties, NEW t,
         Shaped(x, t), Follows(x, t, w)
  PROVE  Chained([ss EXCEPT ![x] = t], w)
<1>1. PICK ts : ts = [ss EXCEPT ![x] = t]
  OBVIOUS
<1>2. \A z \in Parties : ts[z] = IF z = x THEN t ELSE ss[z]
  BY <1>1
<1>3. \A z \in Parties : ts[z] # NoSession => Shaped(z, ts[z]) /\ Follows(z, ts[z], w)
  BY <1>2 DEF Chained
<1>4. Chained(ts, w)
  BY ONLY <1>3, Chained(ss, w) DEF Chained
<1> QED
  BY ONLY <1>1, <1>4, Zenon

LEMMA FollowsNew ==
  ASSUME NEW f, NEW w, \A m \in w : Posted(f, m), f \in [Parties -> Nat], NEW x \in Parties, NEW t,
         t.dhs \in Nat, f[x] <= t.dhs, t.cks.n = 0
  PROVE  Follows(x, t, w)
<1>1. ASSUME NEW m \in w, m.from = x, m.header.dh = t.dhs PROVE FALSE
  <2>1. m.header.dh < f[x] /\ f[x] \in Nat
    BY <1>1 DEF Posted
  <2> QED
    BY <1>1, <2>1
<1>2. \A k \in Nat : ~(k < t.cks.n)
  OBVIOUS
<1> QED
  BY <1>1, <1>2 DEF Follows

ChainInv == Chained(session, wire)

OpensWith(x, o, m, t, ts) ==
  /\ t = NewState(x, o) /\ ts = [session EXCEPT ![x] = t]
  /\ Usable(fresh', x, t) /\ Counters(fresh')
  /\ Keyed(ts, wire, fresh')
  /\ ts[x] = t /\ t # NoSession /\ FromState(x, ts[x], m)
  /\ session' = [ts EXCEPT ![x] = EncryptState(@)]
  /\ \A y \in Parties : fresh[y] <= fresh'[y]
  /\ fresh[x] < fresh'[x]
  /\ t.rk = Append(Secret(x, NewPre(x, o)), Dh(fresh[x] + 2, Spk(Peer(x))))
  /\ t.dhs = fresh[x] + 2 /\ t.dhr = Spk(Peer(x)) /\ t.ckr = NoChain /\ t.mkskipped = <<>>
  /\ t.nr = 0 /\ t.ns = 0 /\ t.pn = 0

(* The state of a new initiator: its secret has the account's fresh key.   *)
LEMMA OpenShape ==
  ASSUME KeyInv, NEW x \in Parties, NEW o \in Nat, NEW m, NEW t, NEW ts, OpensWith(x, o, m, t, ts)
  PROVE  /\ Shaped(x, t) /\ Follows(x, t, wire) /\ t.cks.n = 0 /\ Len(t.rk) = 2
         /\ t.rk[1] = [init |-> x, base |-> fresh[x], opk |-> o]
<1>1. PICK f, d, sk, k, p : f = fresh /\ k = fresh[x] + 2 /\ p = Spk(Peer(x)) /\ d = Dh(k, p) /\ sk = Secret(x, NewPre(x, o))
  OBVIOUS
<1>2. f \in [Parties -> Nat] /\ f[x] \in Nat /\ Owns(x, f[x]) /\ \A n \in wire : Posted(f, n)
  BY <1>1 DEF KeyInv, Keyed, Counters
<1>3. k \in Nat /\ Owns(x, k) /\ p \in Nat /\ Owns(Peer(x), p) /\ f[x] <= k
  BY <1>1, <1>2, OwnsMore, SpkIs, PeerIs
<1>4. sk \in Seq(Secrets) /\ Len(sk) = 1 /\ sk[1] = [init |-> x, base |-> f[x], opk |-> o]
  <2>1. NewPre(x, o) \in Pres /\ NewPre(x, o).base = fresh[x] /\ NewPre(x, o).opk = o
    BY NewStateIs
  <2> QED
    BY <1>1, <2>1, SecretIs
<1>5. /\ t.rk = Append(sk, d) /\ t.dhs = k /\ t.dhr = p /\ t.ckr = NoChain /\ t.mkskipped = <<>> /\ t.ns = 0
      /\ Sound(t) /\ CanEncrypt(t)
  BY <1>1 DEF OpensWith, Usable
<1>6. d \in Secrets
  BY <1>1, <1>3, DhType
<1>7. Len(t.rk) = 2 /\ t.rk[1] = sk[1]
  <2>1. PICK r : r = t.rk
    OBVIOUS
  <2>2. r = Append(sk, d)
    BY <1>5, <2>1
  <2>3. sk \in Seq(Secrets) /\ Len(sk) = 1 /\ Len(sk) > 0
    BY <1>4
  <2>4. Len(r) = Len(sk) + 1
    BY ONLY <1>6, <2>2, <2>3, AppendRoot DEF KdfRk
  <2>5. Len(r) = 2
    BY ONLY <2>3, <2>4
  <2>6. r[1] = sk[1]
    BY ONLY <1>6, <2>2, <2>3, FirstOf
  <2> QED
    BY ONLY <2>1, <2>5, <2>6, Zenon
<1>8. t.rk[1].init = x
  BY <1>4, <1>7
<1>9. Named(x, t.dhs, t.rk)
  BY <1>1, <1>3, <1>4, <1>5, NameOfNew
<1>10. AllNamed(Peer(x), t)
  BY <1>5 DEF AllNamed
<1>11. Shaped(x, t)
  BY ONLY <1>5, <1>7, <1>8, <1>9, <1>10 DEF Shaped
<1>12. t.cks.n = 0
  BY <1>5 DEF Sound, CanEncrypt
<1>13. Follows(x, t, wire)
  BY ONLY <1>2, <1>3, <1>5, <1>12, x \in Parties, FollowsNew
<1> QED
  BY <1>1, <1>4, <1>7, <1>11, <1>12, <1>13

LEMMA ReadShape ==
  ASSUME KeyInv, ChainInv, NEW x \in Parties, NEW m \in wire, m.from = Peer(x), NEW s, NEW t, ReadsFrom(x, m, s, t)
  PROVE  Shaped(x, t) /\ Follows(x, t, wire)
<1>1. PICK f, y, h, r : f = fresh /\ y = Peer(x) /\ h = m.header /\ r = m.mk.root
  OBVIOUS
<1>2. y \in Parties /\ y # x /\ Peer(y) = x
  BY <1>1, PeerIs
<1>3. /\ f \in [Parties -> Nat] /\ f[x] \in Nat /\ Owns(x, f[x]) /\ (\A n \in wire : Posted(f, n)) /\ m \in Stanzas
  BY <1>1 DEF KeyInv, Keyed, Counters, Posted
<1>4. Named(y, h.dh, r) /\ h.dh \in Nat /\ r \in Seq(Secrets)
  BY <1>1, <1>3 DEF ChainInv, Chained, Tagged, Stanzas, Headers, Chains
<1>5. Reads(f, x, s, m, t) /\ NamesKept(y, s, h, m.mk, t)
  BY <1>1 DEF ReadsFrom, Reads
<1>6. ASSUME s = session[x], s # NoSession PROVE Shaped(x, s) /\ Follows(x, s, wire)
  BY <1>6 DEF ChainInv, Chained
<1>7. AllNamed(y, t)
  <2>1. AllNamed(y, s) /\ (s.ckr # NoChain => Named(y, s.dhr, s.ckr.root))
    <3>1. CASE s = session[x] /\ s # NoSession
      BY <1>1, <1>6, <3>1 DEF Shaped
    <3>2. CASE s.ckr = NoChain /\ s.mkskipped = <<>>
      BY <3>2 DEF AllNamed
    <3> QED
      BY <3>1, <3>2 DEF ReadsFrom
  <2> QED
    BY ONLY <1>1, <1>4, <1>5, <2>1 DEF NamesKept
<1>8. CASE SameChain(s, m.mk, t) /\ s = session[x] /\ s # NoSession
  <2>1. Shaped(x, s) /\ Follows(x, s, wire)
    BY <1>6, <1>8
  <2>2. t.dhs = s.dhs /\ t.dhr = s.dhr /\ t.rk = s.rk /\ t.cks = s.cks /\ t.ckr.root = s.ckr.root /\ t.ckr # NoChain /\ s.ckr # NoChain
    BY <1>8 DEF SameChain
  <2> QED
    BY ONLY <1>1, <1>7, <2>1, <2>2 DEF Shaped, Follows
<1>9. CASE NewChain(s, m.header, m.mk, fresh[x], t)
  <2>1. /\ t.dhs = f[x] /\ t.dhr = h.dh /\ t.ckr # NoChain /\ t.ckr.root = r
        /\ t.rk = Append(r, Dh(f[x], h.dh)) /\ t.cks = ChainOf(t.rk)
    BY <1>1, <1>9 DEF NewChain, KdfRk
  <2>2. Owns(Peer(x), h.dh)
    BY <1>1, <1>4 DEF Named
  <2>3. Named(x, t.dhs, t.rk)
    BY ONLY <1>3, <1>4, <2>1, <2>2, x \in Parties, NameOfNew
  <2>4. t.cks.n = 0
    BY <2>1 DEF ChainOf
  <2>5. Follows(x, t, wire)
    <3>1. t.dhs \in Nat /\ f[x] <= t.dhs
      BY ONLY <1>3, <2>1
    <3> QED
      BY ONLY <1>3, <2>4, <3>1, x \in Parties, FollowsNew
  <2>6. Shaped(x, t)
    BY ONLY <1>1, <1>4, <1>7, <2>1, <2>3 DEF Shaped
  <2> QED
    BY <2>5, <2>6
<1> QED
  BY <1>8, <1>9 DEF ReadsFrom

LEMMA ChainSteps ==
  ASSUME SessionTypes, KeyInv, ChainInv, [Next]_vars
  PROVE  ChainInv'
<1>0. session \in [Parties -> States \cup {NoSession}]
  BY DEF KeyInv, Keyed
<1>1. CASE QuietStep
  BY <1>1 DEF QuietStep, ChainInv
<1>2. ASSUME NEW x \in Parties, DropStep(x) PROVE ChainInv'
  <2>1. \A z \in Parties : session'[z] # NoSession => session'[z] = session[z]
    BY <1>0, <1>2 DEF DropStep
  <2> QED
    BY <1>2, <2>1 DEF DropStep, ChainInv, Chained
<1>3. ASSUME NEW x \in Parties, NEW m \in Stanzas, SendStep(x, m) PROVE ChainInv'
  <2>1. Chained([session EXCEPT ![x] = EncryptState(@)], wire \cup {m})
    BY <1>3, ChainedSend DEF SendStep, KeyInv, ChainInv
  <2> QED
    BY <1>3, <2>1 DEF SendStep, ChainInv
<1>4. ASSUME NEW x \in Parties, NEW o \in Nat, NEW m \in Stanzas, OpenStep(x, o, m) PROVE ChainInv'
  <2>1. PICK t, ts : OpensWith(x, o, m, t, ts)
    BY <1>4, OpenSplits DEF OpensWith
  <2>2. Shaped(x, t) /\ Follows(x, t, wire)
    BY <2>1, OpenShape
  <2>3. Chained([session EXCEPT ![x] = t], wire)
    BY <1>0, <2>2, ChainedSet DEF ChainInv
  <2>4. PICK g : g = fresh'
    OBVIOUS
  <2>5. /\ Chained(ts, wire) /\ Keyed(ts, wire, g) /\ ts[x] # NoSession /\ FromState(x, ts[x], m)
        /\ session' = [ts EXCEPT ![x] = EncryptState(@)]
    BY <2>1, <2>3, <2>4 DEF OpensWith
  <2>6. Chained([ts EXCEPT ![x] = EncryptState(@)], wire \cup {m})
    BY <2>5, ChainedSend
  <2>7. wire' = wire \cup {m}
    BY <1>4 DEF OpenStep
  <2> QED
    BY <2>5, <2>6, <2>7 DEF ChainInv
<1>5. ASSUME NEW x \in Parties, NEW m \in wire, ReadStep(x, m) PROVE ChainInv'
  <2>1. wire' = wire /\ m.from = Peer(x)
    BY <1>5 DEF ReadStep
  <2>2. PICK s, t : ReadsFrom(x, m, s, t)
    BY <1>5, ReadSplits
  <2>3. Shaped(x, t) /\ Follows(x, t, wire) /\ session' = [session EXCEPT ![x] = t]
    BY <2>1, <2>2, ReadShape DEF ReadsFrom
  <2>4. Chained([session EXCEPT ![x] = t], wire)
    BY <1>0, <2>3, ChainedSet DEF ChainInv
  <2> QED
    BY <2>1, <2>3, <2>4 DEF ChainInv
<1> QED
  BY <1>1, <1>2, <1>3, <1>4, <1>5, CoreSteps

-----------------------------------------------------------------------------
(***************************************************************************)
(* The two ends of a session with an OPK.  Its chains have one root per    *)
(* length (Paced), a stanza of it stands in line with what a session of    *)
(* the same secret sends and receives on (Line), and two such sessions are *)
(* one DH step apart (Lock).  As long as the responder still stores the    *)
(* OPK, only the initiator's first chain exists.                           *)
(***************************************************************************)
Single(a) == a.opk # NoOpk
Of(m) == m.mk.root[1]
Stocked(o, a) == a.opk \in o[Peer(a.init)]

Before(w, x, a, l, k) == \E n \in w : n.from = x /\ Of(n) = a /\ Len(n.mk.root) + 2 = l /\ n.mk.n = k

Line(x, s, m) ==
  /\ m.from = x => m.mk.root = s.rk \/ Len(m.mk.root) < Len(s.rk)
  /\ m.from = Peer(x) =>
       \/ m.mk.root = Append(s.rk, Dh(s.dhs, m.header.dh))
       \/ s.ckr # NoChain /\ (m.mk.root = s.ckr.root \/ Len(m.mk.root) < Len(s.ckr.root))

Staged(x, s, w, o) == Single(s.rk[1]) =>
  /\ \A n \in w : Of(n) = s.rk[1] => Line(x, s, n)
  /\ \A k \in Nat : k < s.pn => Before(w, x, s.rk[1], Len(s.rk), k)
  /\ \A n \in w : n.from = x /\ Of(n) = s.rk[1] /\ Len(n.mk.root) + 2 = Len(s.rk) => n.mk.n < s.pn
  /\ Stocked(o, s.rk[1]) => s.ckr = NoChain

Lock(s, t) == Single(s.rk[1]) /\ t.rk[1] = s.rk[1] =>
  t.rk = Append(s.rk, Dh(s.dhs, t.dhs)) \/ s.rk = Append(t.rk, Dh(t.dhs, s.dhs))

Alone(w) == \A m, n \in w :
  Single(Of(m)) /\ Of(n) = Of(m) /\ Len(n.mk.root) = Len(m.mk.root) => n.mk.root = m.mk.root

Paced(w, o) ==
  /\ Alone(w)
  /\ \A m \in w : Single(Of(m)) =>
       /\ \A k \in Nat : k < m.header.pn => Before(w, m.from, Of(m), Len(m.mk.root), k)
       /\ \A n \in w : n.from = m.from /\ Of(n) = Of(m) /\ Len(n.mk.root) + 2 = Len(m.mk.root)
                         => n.mk.n < m.header.pn
       /\ Stocked(o, Of(m)) => Len(m.mk.root) = 2

Locked(ss, w, o) ==
  /\ Paced(w, o)
  /\ \A x \in Parties : ss[x] # NoSession => Staged(x, ss[x], w, o)
  /\ \A x \in Parties : ss[x] # NoSession /\ ss[Peer(x)] # NoSession => Lock(ss[x], ss[Peer(x)])

LEMMA LockTurns == \A s, t : Lock(s, t) => Lock(t, s)
BY DEF Lock, Single

LEMMA BeforeStays ==
  ASSUME NEW w, NEW m, NEW x, NEW a, NEW l, NEW k, Before(w, x, a, l, k)
  PROVE  Before(w \cup {m}, x, a, l, k)
BY DEF Before

WireRoots(w) == \A n \in w : n \in Stanzas /\ n.mk.root \in Seq(Secrets) /\ Len(n.mk.root) \in Nat /\ Len(n.mk.root) > 1

LEMMA RootTypes ==
  ASSUME NEW ss, NEW w, NEW f, Keyed(ss, w, f)
  PROVE  WireRoots(w)
<1> SUFFICES ASSUME NEW n \in w
             PROVE  n \in Stanzas /\ n.mk.root \in Seq(Secrets) /\ Len(n.mk.root) \in Nat /\ Len(n.mk.root) > 1
  BY DEF WireRoots
<1>1. n \in Stanzas /\ MadeRoot(f, n.mk.root)
  BY DEF Keyed, Posted
<1>2. PICK r : r = n.mk.root
  OBVIOUS
<1>3. r \in Seq(Secrets) /\ Len(r) > 1
  BY <1>1, <1>2 DEF MadeRoot
<1>4. Len(r) \in Nat
  BY <1>3
<1> QED
  BY ONLY <1>1, <1>2, <1>3, <1>4, Zenon

(* Where a stanza stands, seen from the length of its root.                *)
LEMMA InLine ==
  ASSUME NEW x \in Parties, NEW s \in States, Sound(s), NEW n \in Stanzas, n.mk.root \in Seq(Secrets),
         Len(n.mk.root) \in Nat, Line(x, s, n)
  PROVE  /\ Len(s.rk) \in Nat
         /\ Len(n.mk.root) <= Len(s.rk) + 1
         /\ n.from = x => n.mk.root = s.rk \/ Len(n.mk.root) < Len(s.rk)
         /\ n.from = Peer(x) => Len(n.mk.root) = Len(s.rk) + 1 \/ Len(n.mk.root) < Len(s.rk)
<1>1. PICK r, q, c, d, l : r = n.mk.root /\ q = s.rk /\ c = s.ckr /\ d = Dh(s.dhs, n.header.dh) /\ l = c.root
  OBVIOUS
<1>2. q \in Seq(Secrets) /\ Len(q) \in Nat /\ c \in Chains /\ s.dhs \in Nat /\ n.header.dh \in Nat
  BY <1>1 DEF States, Stanzas, Headers
<1>3. d \in Secrets /\ Append(q, d) = KdfRk(q, d)
  BY <1>1, <1>2, DhType DEF KdfRk
<1>4. Len(Append(q, d)) = Len(q) + 1
  BY ONLY <1>2, <1>3, AppendRoot
<1>5. c # NoChain => Len(l) + 1 = Len(q)
  BY <1>1 DEF Sound
<1>6. Len(l) \in Nat
  BY <1>1, <1>2 DEF Chains
<1>7. n.from = x => r = q \/ Len(r) < Len(q)
  BY <1>1 DEF Line
<1>8. n.from = Peer(x) => r = Append(q, d) \/ (c # NoChain /\ (r = l \/ Len(r) < Len(l)))
  BY <1>1 DEF Line
<1>9. Len(r) \in Nat
  BY <1>1
<1>10. n.from = x \/ n.from = Peer(x)
  BY PeerIs DEF Stanzas
<1>11. n.from = Peer(x) => Len(r) = Len(q) + 1 \/ Len(r) < Len(q)
  BY ONLY <1>2, <1>4, <1>5, <1>6, <1>8, <1>9
<1>12. Len(r) <= Len(q) + 1
  BY ONLY <1>2, <1>7, <1>9, <1>10, <1>11
<1> QED
  BY ONLY <1>1, <1>2, <1>7, <1>11, <1>12, Zenon

(* What a sender's stanza is, in terms of its session.                     *)
Leaves(x, s, m) ==
  /\ m \in Stanzas /\ m.from = x /\ m.mk.root = s.rk /\ m.header.dh = s.dhs /\ m.header.pn = s.pn

LEMMA PacedSend ==
  ASSUME NEW w, NEW o, Paced(w, o), WireRoots(w), NEW x \in Parties, NEW s \in States, Sound(s), Staged(x, s, w, o),
         s.ckr = NoChain => Len(s.rk) = 2, Len(s.rk) > 1, NEW m, Leaves(x, s, m)
  PROVE  Paced(w \cup {m}, o)
<1>1. PICK v, a : v = w \cup {m} /\ a = s.rk[1]
  OBVIOUS
<1>2. m \in Stanzas /\ m.from = x /\ m.mk.root = s.rk /\ m.header.pn = s.pn /\ Of(m) = a
  BY <1>1 DEF Leaves, Of
<1>3. s.rk \in Seq(Secrets) /\ Len(s.rk) \in Nat
  BY DEF States
<1>4. \A n \in w : n \in Stanzas /\ n.mk.root \in Seq(Secrets) /\ Len(n.mk.root) \in Nat /\ (n.from = x \/ n.from = Peer(x))
  BY PeerIs DEF WireRoots, Stanzas
<1>5. ASSUME NEW n \in w, Of(n) = a, Single(a)
      PROVE  /\ Len(n.mk.root) <= Len(s.rk) + 1
             /\ n.from = x => n.mk.root = s.rk \/ Len(n.mk.root) < Len(s.rk)
             /\ n.from = Peer(x) => Len(n.mk.root) = Len(s.rk) + 1 \/ Len(n.mk.root) < Len(s.rk)
  <2>1. Line(x, s, n)
    BY <1>1, <1>5 DEF Staged
  <2> QED
    BY <1>4, <2>1, InLine
<1>6. Alone(v)
  <2>1. ASSUME NEW n \in w, Of(n) = a, Single(a), Len(n.mk.root) = Len(s.rk) PROVE n.mk.root = s.rk
    BY <1>3, <1>4, <1>5, <2>1
  <2>2. Alone(w)
    BY DEF Paced
  <2> QED
    BY ONLY <1>1, <1>2, <2>1, <2>2 DEF Alone
<1>7. \A z, b, l, k : Before(w, z, b, l, k) => Before(v, z, b, l, k)
  BY <1>1, BeforeStays
<1>8. ASSUME NEW n \in v, Single(Of(n)), NEW k \in Nat, k < n.header.pn PROVE Before(v, n.from, Of(n), Len(n.mk.root), k)
  <2>1. CASE n \in w
    BY <1>7, <1>8, <2>1 DEF Paced
  <2>2. CASE n = m
    <3>1. Before(w, x, a, Len(s.rk), k)
      BY <1>1, <1>2, <1>8, <2>2 DEF Staged
    <3> QED
      BY <1>2, <1>7, <2>2, <3>1
  <2> QED
    BY <1>1, <2>1, <2>2
<1>9. ASSUME NEW n \in v, Single(Of(n)), NEW k \in v, k.from = n.from, Of(k) = Of(n), Len(k.mk.root) + 2 = Len(n.mk.root)
      PROVE  k.mk.n < n.header.pn
  <2>1. CASE n \in w /\ k \in w
    BY <1>9, <2>1 DEF Paced
  <2>2. CASE n = m /\ k \in w
    BY <1>1, <1>2, <1>9, <2>2 DEF Staged
  <2>3. CASE n \in w /\ k = m
    <3>1. Len(n.mk.root) <= Len(s.rk) + 1 /\ Len(s.rk) + 2 = Len(n.mk.root)
      BY <1>2, <1>5, <1>9, <2>3
    <3>2. Len(n.mk.root) \in Nat
      BY <1>4, <2>3
    <3> QED
      BY ONLY <1>3, <3>1, <3>2
  <2>4. CASE n = m /\ k = m
    BY <1>2, <1>3, <1>9, <2>4
  <2> QED
    BY <1>1, <2>1, <2>2, <2>3, <2>4
<1>10. ASSUME NEW n \in v, Single(Of(n)), Stocked(o, Of(n)) PROVE Len(n.mk.root) = 2
  <2>1. CASE n \in w
    BY <1>10, <2>1 DEF Paced
  <2>2. CASE n = m
    BY <1>1, <1>2, <1>10, <2>2 DEF Staged
  <2> QED
    BY <1>1, <2>1, <2>2
<1>11. Paced(v, o)
  BY ONLY <1>6, <1>8, <1>9, <1>10 DEF Paced
<1> QED
  BY ONLY <1>1, <1>11, Zenon

(* A sent stanza stands in line with a session of the receiver.            *)
LEMMA LineAcross ==
  ASSUME NEW x \in Parties, NEW s \in States, NEW u \in States, Len(s.rk) > 1,
         u.ckr # NoChain => u.rk = Append(u.ckr.root, Dh(u.dhs, u.dhr)),
         u.ckr = NoChain => Len(u.rk) = 2,
         Lock(s, u), Single(s.rk[1]), u.rk[1] = s.rk[1], NEW m, Leaves(x, s, m)
  PROVE  Line(Peer(x), u, m)
<1>1. PICK y : y = Peer(x)
  OBVIOUS
<1>2. y \in Parties /\ y # x /\ Peer(y) = x
  BY <1>1, PeerIs
<1>3. m.from = x /\ m.mk.root = s.rk /\ m.header.dh = s.dhs
  BY DEF Leaves
<1>4. CASE s.rk = Append(u.rk, Dh(u.dhs, s.dhs))
  BY ONLY <1>1, <1>2, <1>3, <1>4 DEF Line
<1>5. CASE u.rk = Append(s.rk, Dh(s.dhs, u.dhs))
  <2>1. s.rk \in Seq(Secrets) /\ u.rk \in Seq(Secrets) /\ u.ckr.root \in Seq(Secrets) /\ Len(s.rk) \in Nat
        /\ Dh(s.dhs, u.dhs) \in Secrets /\ Dh(u.dhs, u.dhr) \in Secrets
    <3>1. s.dhs \in Nat /\ u.dhs \in Nat /\ u.dhr \in Nat
      BY DEF States
    <3>2. Dh(s.dhs, u.dhs) \in Secrets /\ Dh(u.dhs, u.dhr) \in Secrets
      BY ONLY <3>1, DhType
    <3>3. s.rk \in Seq(Secrets) /\ u.rk \in Seq(Secrets) /\ u.ckr \in Chains
      BY DEF States
    <3>4. u.ckr.root \in Seq(Secrets) /\ Len(s.rk) \in Nat
      BY ONLY <3>3 DEF Chains
    <3> QED
      BY ONLY <3>2, <3>3, <3>4, Zenon
  <2>2. Len(u.rk) = Len(s.rk) + 1
    BY ONLY <1>5, <2>1, AppendRoot DEF KdfRk
  <2>3. u.ckr # NoChain
    BY ONLY <2>1, <2>2, Len(s.rk) > 1, u.ckr = NoChain => Len(u.rk) = 2
  <2>4. u.rk = Append(u.ckr.root, Dh(u.dhs, u.dhr))
    BY <2>3
  <2>5. PICK q, d, e : q = u.ckr.root /\ d = Dh(s.dhs, u.dhs) /\ e = Dh(u.dhs, u.dhr)
    OBVIOUS
  <2>6. Append(s.rk, d) = Append(q, e) /\ q \in Seq(Secrets) /\ d \in Secrets /\ e \in Secrets
    BY ONLY <1>5, <2>1, <2>4, <2>5, Zenon
  <2>7. s.rk = q
    BY ONLY <2>1, <2>6, AppendInjective
  <2> QED
    BY ONLY <1>1, <1>2, <1>3, <2>3, <2>5, <2>7 DEF Line
<1> QED
  BY <1>4, <1>5 DEF Lock

LEMMA StagedSend ==
  ASSUME NEW w, NEW o, NEW x \in Parties, NEW s, NEW t, Staged(x, s, w, o), s.rk \in Seq(Secrets), Len(s.rk) \in Nat,
         t.rk = s.rk /\ t.ckr = s.ckr /\ t.pn = s.pn /\ t.dhs = s.dhs,
         NEW m, m \in Stanzas, Len(m.mk.root) \in Nat,
         Single(s.rk[1]) /\ Of(m) = s.rk[1] => Line(x, s, m) /\ (m.from = x => m.mk.root = s.rk)
  PROVE  Staged(x, t, w \cup {m}, o)
<1>1. PICK v, a : v = w \cup {m} /\ a = s.rk[1]
  OBVIOUS
<1> SUFFICES ASSUME Single(a) PROVE Staged(x, t, v, o)
  BY <1>1 DEF Staged
<1>2. /\ \A n \in w : Of(n) = a => Line(x, s, n)
      /\ \A k \in Nat : k < s.pn => Before(w, x, a, Len(s.rk), k)
      /\ \A n \in w : n.from = x /\ Of(n) = a /\ Len(n.mk.root) + 2 = Len(s.rk) => n.mk.n < s.pn
      /\ Stocked(o, a) => s.ckr = NoChain
  BY <1>1 DEF Staged
<1>3. Of(m) = a => Line(x, s, m) /\ (m.from = x => m.mk.root = s.rk)
  BY <1>1
<1>4. \A n : Line(x, s, n) => Line(x, t, n)
  BY DEF Line
<1>5. \A n \in v : Of(n) = a => Line(x, t, n)
  BY <1>1, <1>2, <1>3, <1>4
<1>6. \A k \in Nat : k < s.pn => Before(v, x, a, Len(s.rk), k)
  BY <1>1, <1>2, BeforeStays
<1>7. \A n \in v : n.from = x /\ Of(n) = a /\ Len(n.mk.root) + 2 = Len(s.rk) => n.mk.n < s.pn
  <2>1. ~(m.from = x /\ Of(m) = a /\ Len(m.mk.root) + 2 = Len(s.rk))
    BY <1>3
  <2> QED
    BY <1>1, <1>2, <2>1
<1>8. t.rk[1] = a /\ Len(t.rk) = Len(s.rk) /\ t.pn = s.pn /\ t.ckr = s.ckr
  BY <1>1
<1> QED
  BY ONLY <1>2, <1>5, <1>6, <1>7, <1>8 DEF Staged

LEMMA LockedSend ==
  ASSUME NEW ss, NEW w, NEW f, NEW o, Keyed(ss, w, f), Chained(ss, w), Locked(ss, w, o),
         NEW x \in Parties, ss[x] # NoSession, NEW m, FromState(x, ss[x], m)
  PROVE  Locked([ss EXCEPT ![x] = EncryptState(@)], w \cup {m}, o)
<1>1. PICK y, s, t, ts, v, u : /\ y = Peer(x) /\ s = ss[x] /\ t = EncryptState(s) /\ u = ss[y]
                               /\ ts = [ss EXCEPT ![x] = t] /\ v = w \cup {m}
  OBVIOUS
<1>2. y \in Parties /\ y # x /\ Peer(y) = x /\ \A z \in Parties : z = x \/ z = y
  BY <1>1, PeerIs
<1>3. ss \in [Parties -> States \cup {NoSession}] /\ s \in States /\ Sound(s) /\ CanEncrypt(s) /\ MadeRoot(f, s.rk)
      /\ Shaped(x, s) /\ Staged(x, s, w, o) /\ WireRoots(w) /\ Paced(w, o)
  BY <1>1, RootTypes DEF Keyed, Usable, Chained, Locked
<1>4. /\ t \in States /\ t.dhs = s.dhs /\ t.rk = s.rk /\ t.ckr = s.ckr /\ t.pn = s.pn /\ s.cks.root = s.rk
  BY ONLY <1>1, <1>3, EncryptStateIs
<1>5. ts[x] = t /\ ts[y] = u /\ t # NoSession
  BY <1>1, <1>2, <1>3, <1>4 DEF States, NoSession
<1>6. Leaves(x, s, m)
  BY <1>1, <1>4 DEF FromState, EncryptKey, EncryptHeader, Leaves
<1>7. s.rk \in Seq(Secrets) /\ Len(s.rk) \in Nat /\ Len(s.rk) > 1 /\ (s.ckr = NoChain => Len(s.rk) = 2)
  BY <1>3 DEF MadeRoot, Shaped, States
<1>8. m \in Stanzas /\ m.from = x /\ m.mk.root = s.rk /\ Len(m.mk.root) \in Nat
  BY <1>6, <1>7 DEF Leaves
<1>9. Paced(v, o)
  <2>1. Paced(w \cup {m}, o)
    BY ONLY <1>3, <1>6, <1>7, x \in Parties, PacedSend
  <2> QED
    BY ONLY <1>1, <2>1, Zenon
<1>10. Staged(x, t, v, o)
  <2>1. Line(x, s, m)
    BY ONLY <1>1, <1>2, <1>8 DEF Line
  <2>2. Staged(x, t, w \cup {m}, o)
    BY ONLY <1>3, <1>4, <1>7, <1>8, <2>1, x \in Parties, StagedSend
  <2> QED
    BY ONLY <1>1, <2>2, Zenon
<1>11. ASSUME u # NoSession PROVE Staged(y, u, v, o) /\ Lock(t, u) /\ Lock(u, t)
  <2>1. Staged(y, u, w, o) /\ Lock(s, u) /\ Shaped(y, u) /\ u \in States
    BY <1>1, <1>2, <1>3, <1>11 DEF Locked, Chained
  <2>2. ASSUME Single(u.rk[1]), Of(m) = u.rk[1] PROVE Line(y, u, m)
    <3>1. Of(m) = s.rk[1]
      BY <1>8 DEF Of
    <3>2. u.ckr # NoChain => u.rk = Append(u.ckr.root, Dh(u.dhs, u.dhr))
      BY <2>1 DEF Shaped
    <3>3. u.ckr = NoChain => Len(u.rk) = 2
      BY <2>1 DEF Shaped
    <3>4. Single(s.rk[1]) /\ u.rk[1] = s.rk[1]
      BY <2>2, <3>1
    <3>5. Line(Peer(x), u, m)
      BY ONLY <1>3, <1>6, <1>7, <2>1, <3>2, <3>3, <3>4, x \in Parties, LineAcross
    <3> QED
      BY <1>1, <3>5
  <2>3. u.rk \in Seq(Secrets) /\ Len(u.rk) \in Nat
    BY <2>1 DEF States
  <2>4. m.from # y
    BY <1>2, <1>8
  <2>5. Staged(y, u, w \cup {m}, o)
    BY ONLY <1>2, <1>8, <2>1, <2>2, <2>3, <2>4, StagedSend
  <2>6. Lock(t, u)
    BY ONLY <1>4, <2>1 DEF Lock
  <2> QED
    BY <1>1, <2>5, <2>6, LockTurns
<1>12. \A z \in Parties : ts[z] # NoSession => Staged(z, ts[z], v, o)
  BY ONLY <1>2, <1>5, <1>10, <1>11
<1>13. \A z \in Parties : ts[z] # NoSession /\ ts[Peer(z)] # NoSession => Lock(ts[z], ts[Peer(z)])
  BY ONLY <1>1, <1>2, <1>5, <1>11
<1>14. Locked(ts, v, o)
  BY ONLY <1>9, <1>12, <1>13 DEF Locked
<1>15. ts = [ss EXCEPT ![x] = EncryptState(@)]
  BY <1>1
<1> QED
  BY ONLY <1>1, <1>14, <1>15, Zenon

LEMMA StockShrinks ==
  ASSUME NEW o, NEW p, \A y \in Parties : p[y] \subseteq o[y], NEW a, Stocked(p, a)
  PROVE  Stocked(o, a)
<1>1. Peer(a.init) \in Parties
  BY DEF Peer, Parties
<1> QED
  BY <1>1 DEF Stocked

LEMMA LockedSet ==
  ASSUME NEW ss, NEW w, NEW o, NEW p, Locked(ss, w, o), ss \in [Parties -> States \cup {NoSession}],
         \A y \in Parties : p[y] \subseteq o[y], NEW x \in Parties, NEW t, Staged(x, t, w, p),
         ss[Peer(x)] # NoSession => Lock(t, ss[Peer(x)])
  PROVE  Locked([ss EXCEPT ![x] = t], w, p)
<1>1. PICK ts, y, u : ts = [ss EXCEPT ![x] = t] /\ y = Peer(x) /\ u = ss[y]
  OBVIOUS
<1>2. y \in Parties /\ y # x /\ Peer(y) = x /\ \A z \in Parties : z = x \/ z = y
  BY <1>1, PeerIs
<1>3. ts[x] = t /\ ts[y] = u
  BY <1>1, <1>2
<1>4. \A a : Stocked(p, a) => Stocked(o, a)
  BY StockShrinks
<1>5. Paced(w, p)
  <2>1. Paced(w, o)
    BY DEF Locked
  <2> QED
    BY ONLY <1>4, <2>1 DEF Paced
<1>6. u # NoSession => Staged(y, u, w, p)
  <2>1. u # NoSession => Staged(y, u, w, o)
    BY <1>1, <1>2 DEF Locked
  <2> QED
    BY ONLY <1>4, <2>1 DEF Staged
<1>7. u # NoSession => Lock(t, u) /\ Lock(u, t)
  BY <1>1, LockTurns
<1>8. \A z \in Parties : ts[z] # NoSession => Staged(z, ts[z], w, p)
  BY ONLY <1>2, <1>3, <1>6, Staged(x, t, w, p)
<1>9. \A z \in Parties : ts[z] # NoSession /\ ts[Peer(z)] # NoSession => Lock(ts[z], ts[Peer(z)])
  BY ONLY <1>1, <1>2, <1>3, <1>7
<1>10. Locked(ts, w, p)
  BY ONLY <1>5, <1>8, <1>9 DEF Locked
<1> QED
  BY ONLY <1>1, <1>10, Zenon

LockInv == Locked(session, wire, opks)

(* A new initiator session: nothing of its secret exists yet.              *)
LEMMA OpenLocked ==
  ASSUME KeyInv, ReplayInv, LockInv, NEW x \in Parties, NEW o \in Nat, NEW m, NEW t, NEW ts, OpensWith(x, o, m, t, ts)
  PROVE  Locked([session EXCEPT ![x] = t], wire, opks)
<1>1. t.rk[1] = [init |-> x, base |-> fresh[x], opk |-> o]
  BY OpenShape
<1>2. t.pn = 0 /\ t.ckr = NoChain
  BY DEF OpensWith
<1>3. fresh \in [Parties -> Nat] /\ session \in [Parties -> States \cup {NoSession}]
  BY DEF KeyInv, Keyed, Counters
<1>4. ~Based(fresh, t.rk[1])
  BY <1>1, <1>3 DEF Based
<1>5. \A n \in wire : Of(n) # t.rk[1]
  BY <1>4 DEF ReplayInv, Replay, WireAt, Of
<1>6. Staged(x, t, wire, opks)
  BY <1>2, <1>5 DEF Staged
<1>7. ASSUME session[Peer(x)] # NoSession PROVE Lock(t, session[Peer(x)])
  <2>1. LiveAt(Peer(x), session[Peer(x)], fresh, opks)
    BY <1>7, PeerIs DEF ReplayInv, Replay
  <2> QED
    BY <1>4, <2>1 DEF LiveAt, Lock
<1> QED
  BY <1>3, <1>6, <1>7, LockedSet DEF LockInv

LEMMA OpenLocks ==
  ASSUME KeyInv, ChainInv, ReplayInv, LockInv, NEW x \in Parties, NEW o \in Nat, NEW m \in Stanzas, OpenStep(x, o, m)
  PROVE  LockInv'
<1>1. PICK t, ts : OpensWith(x, o, m, t, ts)
  BY OpenSplits DEF OpensWith
<1>2. Shaped(x, t) /\ Follows(x, t, wire)
  BY <1>1, OpenShape
<1>3. session \in [Parties -> States \cup {NoSession}]
  BY DEF KeyInv, Keyed
<1>4. Locked([session EXCEPT ![x] = t], wire, opks)
  BY <1>1, OpenLocked
<1>5. Chained([session EXCEPT ![x] = t], wire)
  BY <1>2, <1>3, ChainedSet DEF ChainInv
<1>6. PICK g, w, p : g = fresh' /\ w = wire /\ p = opks
  OBVIOUS
<1>7. /\ Keyed(ts, w, g) /\ Chained(ts, w) /\ Locked(ts, w, p) /\ ts[x] # NoSession /\ FromState(x, ts[x], m)
       /\ session' = [ts EXCEPT ![x] = EncryptState(@)]
  BY <1>1, <1>4, <1>5, <1>6 DEF OpensWith
<1>8. Locked([ts EXCEPT ![x] = EncryptState(@)], w \cup {m}, p)
  BY ONLY <1>7, x \in Parties, LockedSend
<1>9. wire' = w \cup {m} /\ opks' = p
  BY <1>6 DEF OpenStep
<1> QED
  BY <1>7, <1>8, <1>9 DEF LockInv

(* After a turn the receiver is one step ahead of the sender.              *)
LEMMA TurnLocks ==
  ASSUME NEW x \in Parties, NEW m, NEW u, NEW t, NEW k,
         Named(Peer(x), u.dhs, u.rk), Named(Peer(x), m.header.dh, m.mk.root), m.mk.root = u.rk,
         t.dhs = k, t.rk = Append(m.mk.root, Dh(k, m.header.dh))
  PROVE  Lock(t, u)
<1>1. u.dhs = m.header.dh
  BY PeerIs, NameIsOne
<1>2. Dh(k, m.header.dh) = Dh(u.dhs, t.dhs)
  BY <1>1 DEF Dh
<1> QED
  BY <1>2 DEF Lock

(* What a turn from s means for the roots.                                 *)
TurnedTo(s, m, t) ==
  /\ m.mk.root = Append(s.rk, Dh(s.dhs, m.header.dh)) /\ t.ckr # NoChain /\ t.ckr.root = m.mk.root
  /\ t.rk = Append(m.mk.root, Dh(t.dhs, m.header.dh)) /\ t.pn = s.ns
  /\ Len(m.mk.root) = Len(s.rk) + 1 /\ Len(t.rk) = Len(s.rk) + 2 /\ Len(s.rk) \in Nat
  /\ s.rk[1] = Of(m) /\ t.rk[1] = Of(m)

LEMMA TurnStages ==
  ASSUME NEW x \in Parties, NEW s \in States, Sound(s), CanEncrypt(s), NEW w, NEW o, WireRoots(w), Alone(w),
         Staged(x, s, w, o), NEW m \in w, Single(Of(m)), NEW t, TurnedTo(s, m, t), Follows(x, s, w),
         \A n \in w : Fits(x, s, n), NEW p, ~Stocked(p, Of(m))
  PROVE  Staged(x, t, w, p)
<1>1. PICK a, y : a = Of(m) /\ y = Peer(x)
  OBVIOUS
<1>2. /\ s.rk[1] = a /\ t.rk[1] = a /\ t.ckr # NoChain /\ t.ckr.root = m.mk.root /\ t.pn = s.ns
      /\ Len(m.mk.root) = Len(s.rk) + 1 /\ Len(t.rk) = Len(s.rk) + 2 /\ Len(s.rk) \in Nat
  BY <1>1 DEF TurnedTo
<1>3. s.cks.n = s.ns /\ s.cks.root = s.rk /\ s.ns \in Nat
  BY DEF Sound, CanEncrypt, States
<1>4. ASSUME NEW n \in w, Of(n) = a
      PROVE  /\ n.from = x => n.mk.root = s.rk \/ Len(n.mk.root) < Len(s.rk)
             /\ n.from = y => Len(n.mk.root) = Len(s.rk) + 1 \/ Len(n.mk.root) < Len(s.rk)
             /\ Len(n.mk.root) \in Nat
  <2>1. Line(x, s, n)
    BY <1>1, <1>2, <1>4 DEF Staged
  <2>2. n \in Stanzas /\ n.mk.root \in Seq(Secrets) /\ Len(n.mk.root) \in Nat
    BY DEF WireRoots
  <2> QED
    BY <1>1, <2>1, <2>2, InLine
<1>5. ASSUME NEW n \in w, Of(n) = a PROVE Line(x, t, n)
  <2>1. Len(n.mk.root) = Len(s.rk) + 1 => n.mk.root = m.mk.root
    BY <1>1, <1>2, <1>5 DEF Alone
  <2>2. n.from = x => Len(n.mk.root) < Len(t.rk)
    BY <1>2, <1>4, <1>5
  <2>3. n.from = y => n.mk.root = t.ckr.root \/ Len(n.mk.root) < Len(t.ckr.root)
    BY <1>2, <1>4, <1>5, <2>1
  <2> QED
    BY ONLY <1>1, <1>2, <2>2, <2>3 DEF Line
<1>6. ASSUME NEW k \in Nat, k < t.pn PROVE Before(w, x, a, Len(t.rk), k)
  <2>1. PICK n \in w : n.from = x /\ n.mk.root = s.rk /\ n.mk.n = k
    BY <1>2, <1>3, <1>6 DEF Follows, Sent
  <2>2. Of(n) = a /\ Len(n.mk.root) + 2 = Len(t.rk)
    BY <1>2, <2>1 DEF Of
  <2> QED
    BY <2>1, <2>2 DEF Before
<1>7. ASSUME NEW n \in w, n.from = x, Of(n) = a, Len(n.mk.root) + 2 = Len(t.rk) PROVE n.mk.n < t.pn
  <2>1. n.mk.root = s.rk
    BY <1>2, <1>4, <1>7
  <2> QED
    BY <1>2, <1>3, <2>1 DEF Fits
<1> QED
  BY ONLY <1>1, <1>2, <1>5, <1>6, <1>7, ~Stocked(p, Of(m)) DEF Staged

LEMMA TurnsTo ==
  ASSUME NEW s, s.rk \in Seq(Secrets), Len(s.rk) > 0, s.dhs \in Nat, NEW m \in Stanzas, NEW dh \in Nat, NEW t,
         NewChain(s, m.header, m.mk, dh, t)
  PROVE  TurnedTo(s, m, t)
<1>1. PICK q, r, d, e, h : /\ q = s.rk /\ r = m.mk.root /\ h = m.header.dh /\ d = Dh(s.dhs, h) /\ e = Dh(dh, h)
  OBVIOUS
<1>2. h \in Nat
  BY <1>1 DEF Stanzas, Headers
<1>3. q \in Seq(Secrets) /\ Len(q) > 0 /\ d \in Secrets /\ e \in Secrets /\ Len(q) \in Nat
  BY <1>1, <1>2, DhType
<1>4. /\ r = Append(q, d) /\ t.rk = Append(r, e) /\ t.dhs = dh /\ t.pn = s.ns /\ t.ckr # NoChain /\ t.ckr.root = r
  BY <1>1 DEF NewChain, KdfRk
<1>5. r[1] = q[1] /\ r \in Seq(Secrets) /\ Len(r) > 0
  BY ONLY <1>3, <1>4, FirstOf
<1>6. Len(r) = Len(q) + 1
  BY ONLY <1>3, <1>4, AppendRoot DEF KdfRk
<1>7. PICK l : l = t.rk
  OBVIOUS
<1>8. l = Append(r, e)
  BY <1>4, <1>7
<1>9. l[1] = r[1]
  BY ONLY <1>3, <1>5, <1>8, FirstOf
<1>10. Len(l) = Len(r) + 1 /\ Len(r) \in Nat
  BY ONLY <1>3, <1>5, <1>8, AppendRoot DEF KdfRk
<1>11. Len(l) = Len(q) + 2
  BY ONLY <1>3, <1>6, <1>10
<1>12. Of(m) = r[1]
  BY <1>1 DEF Of
<1>13. /\ m.mk.root = Append(s.rk, Dh(s.dhs, m.header.dh)) /\ t.rk = Append(m.mk.root, Dh(t.dhs, m.header.dh))
  BY ONLY <1>1, <1>4, Zenon
<1> QED
  BY ONLY <1>1, <1>3, <1>4, <1>5, <1>6, <1>7, <1>9, <1>11, <1>12, <1>13 DEF TurnedTo

(* A responder's first state: nothing but the initiator's first chain.     *)
LEMMA StartStages ==
  ASSUME NEW x \in Parties, NEW s, NEW w, NEW o, NEW p, WireRoots(w), Paced(w, o), NEW m \in w, Single(Of(m)),
         Stocked(o, Of(m)), ~Stocked(p, Of(m)), NEW t, TurnedTo(s, m, t), s.ns = 0
  PROVE  Staged(x, t, w, p)
<1>1. PICK a : a = Of(m)
  OBVIOUS
<1>2. /\ t.rk[1] = a /\ t.ckr # NoChain /\ t.ckr.root = m.mk.root /\ t.pn = 0
      /\ Len(t.rk) = Len(m.mk.root) + 1
  BY <1>1 DEF TurnedTo
<1>3. Len(m.mk.root) = 2
  BY DEF Paced
<1>4. ASSUME NEW n \in w, Of(n) = a PROVE n.mk.root = m.mk.root /\ Len(n.mk.root) = 2
  <2>1. Len(n.mk.root) = 2
    BY <1>1, <1>4 DEF Paced
  <2> QED
    BY <1>1, <1>3, <1>4, <2>1 DEF Paced, Alone
<1>5. Len(t.rk) = 3
  BY <1>2, <1>3
<1>6. \A n \in w : Of(n) = a => Line(x, t, n)
  BY <1>2, <1>4, <1>5 DEF Line
<1>7. \A n \in w : ~(Of(n) = a /\ Len(n.mk.root) + 2 = Len(t.rk))
  BY <1>4, <1>5
<1>8. \A k \in Nat : ~(k < t.pn)
  BY <1>2
<1> QED
  BY ONLY <1>1, <1>2, <1>6, <1>7, <1>8, ~Stocked(p, Of(m)) DEF Staged

(* The chain a session turns to is the one its peer sends on.              *)
LEMMA TurnMeets ==
  ASSUME NEW y \in Parties, NEW u \in States, Sound(u), NEW m \in Stanzas, m.from = y, Line(y, u, m),
         m.mk.root \in Seq(Secrets), Len(m.mk.root) \in Nat, Len(u.rk) <= Len(m.mk.root)
  PROVE  m.mk.root = u.rk
<1>1. Len(u.rk) \in Nat /\ (m.mk.root = u.rk \/ Len(m.mk.root) < Len(u.rk))
  BY InLine
<1> QED
  BY <1>1

LEMMA SameStages ==
  ASSUME NEW x, NEW s, NEW t, NEW mk, SameChain(s, mk, t), NEW w, NEW o, NEW p, Staged(x, s, w, o),
         \A a : Stocked(p, a) => Stocked(o, a)
  PROVE  Staged(x, t, w, p) /\ \A u : Lock(s, u) => Lock(t, u)
<1>1. t.dhs = s.dhs /\ t.rk = s.rk /\ t.pn = s.pn /\ t.ckr.root = s.ckr.root /\ t.ckr # NoChain /\ s.ckr # NoChain
  BY DEF SameChain
<1>2. \A n : Line(x, s, n) => Line(x, t, n)
  BY ONLY <1>1 DEF Line
<1>3. Staged(x, t, w, p)
  BY ONLY <1>1, <1>2, Staged(x, s, w, o), \A a : Stocked(p, a) => Stocked(o, a) DEF Staged
<1>4. \A u : Lock(s, u) => Lock(t, u)
  BY ONLY <1>1 DEF Lock
<1> QED
  BY <1>3, <1>4

LEMMA ReadLocks ==
  ASSUME SessionTypes, KeyInv, ChainInv, ReplayInv, LockInv, NEW x \in Parties, NEW m \in wire, ReadStep(x, m)
  PROVE  LockInv'
<1>1. PICK s, t : ReadsFrom(x, m, s, t)
  BY ReadSplits
<1>2. PICK y, ss, w, o, p, f, a, u : /\ y = Peer(x) /\ ss = session /\ w = wire /\ o = opks /\ p = opks' /\ f = fresh
                                     /\ a = Of(m) /\ u = ss[y]
  OBVIOUS
<1>3. m.from = y /\ wire' = w /\ session' = [ss EXCEPT ![x] = t] /\ m \in w
  BY <1>1, <1>2 DEF ReadStep, ReadsFrom
<1>4. y \in Parties /\ y # x /\ Peer(y) = x
  BY <1>2, PeerIs
<1>5. /\ s.rk[1] = a /\ t.rk[1] = a
      /\ \/ s = ss[x] /\ s # NoSession /\ p = o
         \/ /\ a = [init |-> y, base |-> m.pre.base, opk |-> m.pre.opk]
            /\ (m.pre.opk = NoOpk \/ m.pre.opk \in o[x])
            /\ p = [o EXCEPT ![x] = @ \ {m.pre.opk}]
            /\ NewChain(s, m.header, m.mk, f[x], t) /\ s.ns = 0
  BY <1>1, <1>2, <1>3, ReadSecret DEF Of
<1>6. /\ Keyed(ss, w, f) /\ Chained(ss, w) /\ Locked(ss, w, o) /\ WireRoots(w) /\ o \in [Parties -> SUBSET Nat]
      /\ ss \in [Parties -> States \cup {NoSession}] /\ f[x] \in Nat
  BY <1>2, RootTypes DEF KeyInv, ChainInv, LockInv, SessionTypes, Keyed, Counters
<1>7. \A z \in Parties : p[z] \subseteq o[z]
  BY <1>5, <1>6
<1>8. \A b : Stocked(p, b) => Stocked(o, b)
  BY <1>7, StockShrinks
<1>9. Paced(w, o) /\ m \in Stanzas /\ m.mk.root \in Seq(Secrets) /\ Len(m.mk.root) \in Nat
  BY <1>3, <1>6 DEF Locked, WireRoots
<1>10. u # NoSession => /\ Staged(y, u, w, o) /\ u \in States /\ Sound(u) /\ Shaped(y, u)
                        /\ (ss[x] # NoSession => Lock(ss[x], u))
  BY <1>2, <1>4, <1>6 DEF Locked, Keyed, Usable, Chained
<1>11. Named(y, m.header.dh, m.mk.root)
  BY <1>3, <1>6 DEF Chained, Tagged
<1>12. s.rk \in Seq(Secrets) /\ Len(s.rk) > 0 /\ s.dhs \in Nat
  <2>1. CASE s = session[x] /\ s # NoSession
    <3>1. s \in States /\ MadeRoot(f, s.rk)
      BY <1>2, <1>6, <2>1 DEF Keyed, Usable
    <3> QED
      BY <3>1 DEF MadeRoot, States
  <2>2. CASE s.rk = Secret(m.from, m.pre) /\ s.dhs \in Nat
    <3>1. m.pre \in Pres /\ m.from \in Parties
      BY <1>9 DEF Stanzas
    <3>2. Secret(m.from, m.pre) \in Seq(Secrets) /\ Len(Secret(m.from, m.pre)) = 1
      BY <3>1, SecretIs
    <3> QED
      BY <2>2, <3>2
  <2> QED
    BY <1>1, <2>1, <2>2 DEF ReadsFrom
<1>13. ASSUME NewChain(s, m.header, m.mk, f[x], t) PROVE TurnedTo(s, m, t)
  BY ONLY <1>6, <1>9, <1>12, <1>13, TurnsTo
<1>14. ASSUME TurnedTo(s, m, t), u # NoSession, u.rk[1] = a, Single(a), Len(u.rk) <= Len(m.mk.root) PROVE Lock(t, u)
  <2>1. Line(y, u, m)
    BY <1>2, <1>3, <1>10, <1>14 DEF Staged
  <2>2. m.mk.root = u.rk
    BY ONLY <1>3, <1>4, <1>9, <1>10, <1>14, <2>1, TurnMeets
  <2>3. Named(y, u.dhs, u.rk)
    BY <1>10, <1>14 DEF Shaped
  <2>4. t.rk = Append(m.mk.root, Dh(t.dhs, m.header.dh))
    BY <1>14 DEF TurnedTo
  <2>5. Named(Peer(x), u.dhs, u.rk) /\ Named(Peer(x), m.header.dh, m.mk.root)
    BY <1>2, <1>11, <2>3
  <2> QED
    BY ONLY <2>2, <2>4, <2>5, x \in Parties, TurnLocks
<1>15. Staged(x, t, w, p) /\ (u # NoSession => Lock(t, u))
  <2>1. CASE ~Single(a)
    BY <1>5, <2>1 DEF Staged, Lock
  <2>2. CASE SameChain(s, m.mk, t) /\ s = ss[x] /\ s # NoSession
    <3>1. Staged(x, s, w, o) /\ (u # NoSession => Lock(s, u))
      BY <1>6, <1>10, <2>2 DEF Locked
    <3> QED
      BY ONLY <1>8, <2>2, <3>1, SameStages
  <2>3. CASE Single(a) /\ NewChain(s, m.header, m.mk, f[x], t) /\ s = ss[x] /\ s # NoSession /\ p = o
    <3>1. TurnedTo(s, m, t)
      BY <1>13, <2>3
    <3>2. /\ s \in States /\ Sound(s) /\ CanEncrypt(s) /\ Len(s.rk) > 1 /\ Staged(x, s, w, o) /\ Follows(x, s, w)
          /\ (\A n \in w : Fits(x, s, n)) /\ (u # NoSession => Lock(s, u))
      BY <1>6, <1>10, <2>3 DEF Keyed, Usable, MadeRoot, Locked, Chained
    <3>3. Len(m.mk.root) = Len(s.rk) + 1 /\ Len(s.rk) \in Nat
      BY <3>1 DEF TurnedTo
    <3>4. ~Stocked(p, a)
      <4>1. Stocked(o, a) => Len(m.mk.root) = 2
        BY <1>2, <1>3, <1>9, <2>3 DEF Paced
      <4> QED
        BY <2>3, <3>2, <3>3, <4>1
    <3>5. Staged(x, t, w, p)
      <4>1. Alone(w)
        BY <1>9 DEF Paced
      <4>2. Single(Of(m)) /\ ~Stocked(p, Of(m))
        BY <1>2, <2>3, <3>4
      <4> QED
        BY ONLY <1>3, <1>6, <3>1, <3>2, <4>1, <4>2, x \in Parties, TurnStages
    <3>6. ASSUME u # NoSession PROVE Lock(t, u)
      <4>1. CASE u.rk[1] = a
        <5>1. u.rk = Append(s.rk, Dh(s.dhs, u.dhs)) \/ s.rk = Append(u.rk, Dh(u.dhs, s.dhs))
          BY <1>5, <2>3, <3>2, <3>6, <4>1 DEF Lock
        <5>2. PICK d, e : d = Dh(s.dhs, u.dhs) /\ e = Dh(u.dhs, s.dhs)
          OBVIOUS
        <5>3. d \in Secrets /\ e \in Secrets /\ u.rk \in Seq(Secrets) /\ s.rk \in Seq(Secrets) /\ Len(u.rk) \in Nat
          <6>1. u \in States /\ u.dhs \in Nat /\ s.dhs \in Nat
            BY <1>10, <3>2, <3>6 DEF States
          <6> QED
            BY <1>12, <5>2, <6>1, DhType DEF States
        <5>4. Len(u.rk) = Len(s.rk) + 1 \/ Len(s.rk) = Len(u.rk) + 1
          BY ONLY <5>1, <5>2, <5>3, AppendRoot DEF KdfRk
        <5>5. Len(u.rk) <= Len(m.mk.root)
          BY ONLY <3>3, <5>3, <5>4
        <5> QED
          BY <1>14, <2>3, <3>1, <3>6, <4>1, <5>5
      <4>2. CASE u.rk[1] # a
        BY <1>5, <4>2 DEF Lock
      <4> QED
        BY <4>1, <4>2
    <3> QED
      BY <3>5, <3>6
  <2>4. CASE /\ Single(a) /\ a = [init |-> y, base |-> m.pre.base, opk |-> m.pre.opk]
             /\ (m.pre.opk = NoOpk \/ m.pre.opk \in o[x])
             /\ p = [o EXCEPT ![x] = @ \ {m.pre.opk}]
             /\ NewChain(s, m.header, m.mk, f[x], t) /\ s.ns = 0
    <3>1. TurnedTo(s, m, t)
      BY <1>13, <2>4
    <3>2. a.init = y /\ a.opk = m.pre.opk /\ m.pre.opk \in o[x] /\ m.pre.opk \notin p[x]
      BY <1>6, <2>4 DEF Single
    <3>3. Stocked(o, a) /\ ~Stocked(p, a)
      BY <1>4, <3>2 DEF Stocked
    <3>4. Staged(x, t, w, p)
      <4>1. Single(Of(m)) /\ Stocked(o, Of(m)) /\ ~Stocked(p, Of(m)) /\ s.ns = 0
        BY <1>2, <2>4, <3>3
      <4> QED
        BY ONLY <1>3, <1>6, <1>9, <3>1, <4>1, x \in Parties, StartStages
    <3>5. ASSUME u # NoSession, u.rk[1] = a PROVE Lock(t, u)
      <4>1. u.ckr = NoChain
        BY <1>10, <2>4, <3>3, <3>5 DEF Staged
      <4>2. Len(u.rk) = 2
        BY <1>10, <3>5, <4>1 DEF Shaped
      <4>3. Len(m.mk.root) = 2
        BY <1>2, <1>3, <1>9, <2>4, <3>3 DEF Paced
      <4> QED
        BY <1>14, <2>4, <3>1, <3>5, <4>2, <4>3
    <3>6. u.rk[1] # a => Lock(t, u)
      BY <1>5 DEF Lock
    <3> QED
      BY <3>4, <3>5, <3>6
  <2> QED
    BY <1>1, <1>2, <1>5, <2>1, <2>2, <2>3, <2>4 DEF ReadsFrom
<1>16. Locked([ss EXCEPT ![x] = t], w, p)
  BY ONLY <1>2, <1>6, <1>7, <1>15, x \in Parties, LockedSet
<1> QED
  BY <1>2, <1>3, <1>16 DEF LockInv

LEMMA LockSteps ==
  ASSUME SessionTypes, KeyInv, ChainInv, ReplayInv, LockInv, [Next]_vars
  PROVE  LockInv'
<1>1. CASE QuietStep
  BY <1>1 DEF QuietStep, LockInv
<1>2. ASSUME NEW x \in Parties, DropStep(x) PROVE LockInv'
  <2>1. session \in [Parties -> States \cup {NoSession}]
    BY DEF KeyInv, Keyed
  <2>2. \A z \in Parties : session'[z] # NoSession => session'[z] = session[z]
    BY <1>2, <2>1 DEF DropStep
  <2> QED
    BY <1>2, <2>2, PeerIs DEF DropStep, LockInv, Locked
<1>3. ASSUME NEW x \in Parties, NEW m \in Stanzas, SendStep(x, m) PROVE LockInv'
  <2>1. Locked([session EXCEPT ![x] = EncryptState(@)], wire \cup {m}, opks)
    BY <1>3, LockedSend DEF SendStep, KeyInv, ChainInv, LockInv
  <2> QED
    BY <1>3, <2>1 DEF SendStep, LockInv
<1> QED
  BY <1>1, <1>2, <1>3, OpenLocks, ReadLocks, CoreSteps

-----------------------------------------------------------------------------
(***************************************************************************)
(* The keys a session of two ends still holds.  Its receiving chain was    *)
(* reached by a stanza, each key in the dict belongs to one, and as long   *)
(* as the limits are not in the way, a stanza that was passed over and not *)
(* opened has its key in the dict.                                         *)
(***************************************************************************)
Room(w) == Cardinality(w) <= MaxSkip /\ Cardinality(w) <= MaxSkippedTotal

Reaches(x, s, w) == s.ckr # NoChain =>
  \E n \in w : n.from = Peer(x) /\ n.mk.root = s.ckr.root /\ n.mk.n + 1 = s.nr

Stores(x, s, w) == Single(s.rk[1]) =>
  \A k \in Chains : Held(s, k) => \E n \in w : n.from = Peer(x) /\ n.mk = k

Keeps(x, s, w, op) == Single(s.rk[1]) /\ Room(w) =>
  \A n \in w : n.from = Peer(x) /\ Of(n) = s.rk[1] /\ n.mk \notin op /\ Behind(s, n.mk) => Held(s, n.mk)

Lasts(x, s, w, op) == Reaches(x, s, w) /\ Stores(x, s, w) /\ Keeps(x, s, w, op)

Lasting(ss, w, op) == \A x \in Parties : ss[x] # NoSession => Lasts(x, ss[x], w, op)

LEMMA RoomShrinks ==
  ASSUME NEW w, IsFiniteSet(w), NEW m, Room(w \cup {m})
  PROVE  Room(w)
<1>1. PICK v : v = w \cup {m}
  OBVIOUS
<1>2. IsFiniteSet(v)
  BY <1>1, FS_AddElement
<1>3. w \in SUBSET v
  BY <1>1
<1>4. Cardinality(w) <= Cardinality(v) /\ Cardinality(w) \in Nat /\ Cardinality(v) \in Nat
  BY <1>2, <1>3, FS_Subset, FS_CardinalityType
<1>5. Cardinality(v) <= MaxSkip /\ Cardinality(v) <= MaxSkippedTotal /\ MaxSkip \in Nat /\ MaxSkippedTotal \in Nat
  BY <1>1, RatchetAssumption DEF Room
<1> QED
  BY ONLY <1>4, <1>5 DEF Room

(* A dict that is full of later keys does not fit beside a stanza.         *)
LEMMA FullRoom ==
  ASSUME NEW s \in States, Sound(s), NEW w, IsFiniteSet(w), Room(w), NEW n \in w, n.mk \in Chains, Full(s, n.mk),
         \A i \in 1 .. Len(s.mkskipped) : \E z \in w : z.mk = s.mkskipped[i].mk
  PROVE  FALSE
<1>1. PICK v, q, l : v = w \ {n} /\ q = s.mkskipped /\ l = MaxSkippedTotal
  OBVIOUS
<1>2. IsFiniteSet(v) /\ Cardinality(v) = Cardinality(w) - 1 /\ Cardinality(w) \in Nat /\ Cardinality(v) \in Nat
  <2>1. v \in SUBSET w
    BY <1>1
  <2> QED
    BY <1>1, <2>1, FS_Subset, FS_RemoveElement, FS_CardinalityType
<1>3. Len(q) = l /\ \A i \in 1 .. l : Later(q[i].mk, n.mk)
  BY ONLY <1>1, Full(s, n.mk), Zenon DEF Full
<1>4. \A i, j \in 1 .. l : q[i].mk = q[j].mk => i = j
  BY ONLY <1>1, <1>3, Sound(s), Zenon DEF Sound
<1>5. \A i \in 1 .. l : q[i].mk # n.mk
  <2>1. n.mk.n \in Int /\ Len(n.mk.root) \in Nat
    BY DEF Chains
  <2>2. ~Later(n.mk, n.mk)
    BY <2>1 DEF Later
  <2> QED
    BY <1>3, <2>2
<1>6. \A i \in 1 .. l : \E z \in v : z.mk = q[i].mk
  BY <1>1, <1>3, <1>5
<1>7. PICK f : f = [i \in 1 .. l |-> CHOOSE z \in v : z.mk = q[i].mk]
  OBVIOUS
<1>8. \A i \in 1 .. l : f[i] \in v /\ f[i].mk = q[i].mk
  BY <1>6, <1>7
<1>9. f \in [1 .. l -> v]
  BY <1>7, <1>8
<1>10. \A i, j \in 1 .. l : f[i] = f[j] => i = j
  BY ONLY <1>4, <1>8, Zenon
<1>11. Cardinality(1 .. l) <= Cardinality(v)
  <2>1. f \in Injection(1 .. l, v)
    BY ONLY <1>9, <1>10 DEF Injection, IsInjective
  <2> QED
    BY <1>2, <2>1, FS_Injection
<1>12. l \in Nat /\ Cardinality(1 .. l) = l
  BY <1>1, RatchetAssumption, FS_Interval
<1>13. Cardinality(w) <= l
  BY <1>1 DEF Room
<1> QED
  BY ONLY <1>2, <1>11, <1>12, <1>13

(* A chain without a gap is no longer than the wire.                       *)
LEMMA Gapless ==
  ASSUME NEW w, IsFiniteSet(w), NEW c \in Nat, \A k \in Nat : k < c => \E n \in w : n.mk.n = k
  PROVE  c <= Cardinality(w)
<1>1. PICK f : f = [k \in 0 .. c - 1 |-> CHOOSE n \in w : n.mk.n = k]
  OBVIOUS
<1>2. \A k \in 0 .. c - 1 : f[k] \in w /\ f[k].mk.n = k
  BY <1>1
<1>3. f \in [0 .. c - 1 -> w]
  BY <1>1, <1>2
<1>4. \A i, j \in 0 .. c - 1 : f[i] = f[j] => i = j
  BY ONLY <1>2, Zenon
<1>5. f \in Injection(0 .. c - 1, w)
  BY ONLY <1>3, <1>4 DEF Injection, IsInjective
<1>6. Cardinality(0 .. c - 1) <= Cardinality(w)
  BY <1>5, FS_Injection
<1>7. Cardinality(0 .. c - 1) = c
  <2>1. CASE c = 0
    <3>1. 0 .. c - 1 = {}
      BY <2>1
    <3> QED
      BY <2>1, <3>1, FS_EmptySet
  <2>2. CASE c > 0
    <3>1. 0 \in Int /\ c - 1 \in Int /\ ~(0 > c - 1)
      BY <2>2
    <3>2. Cardinality(0 .. c - 1) = c - 1 - 0 + 1
      BY <3>1, FS_Interval
    <3> QED
      BY <3>2
  <2> QED
    BY <2>1, <2>2
<1> QED
  BY <1>6, <1>7

(* The receiver has not passed a stanza that is being sent.                *)
LEMMA NotPassedYet ==
  ASSUME NEW s \in States, NEW u \in States, Sound(u), Sound(s), CanEncrypt(s), NEW w, NEW x \in Parties,
         NEW y, y = Peer(x), Reaches(y, u, w), \A n \in w : Fits(x, s, n) /\ n \in Stanzas,
         Lock(s, u), Single(s.rk[1]), u.rk[1] = s.rk[1], Len(s.rk) > 1,
         NEW mk \in Chains, mk.root = s.rk, mk.n = s.ns
  PROVE  ~Behind(u, mk)
<1>1. s.rk \in Seq(Secrets) /\ u.rk \in Seq(Secrets) /\ Len(s.rk) \in Nat /\ Len(u.rk) \in Nat /\ s.ns \in Nat /\ u.nr \in Nat
  BY DEF States
<1>2. s.cks.n = s.ns
  BY DEF Sound, CanEncrypt
<1>3. Len(u.rk) = Len(s.rk) + 1 \/ Len(s.rk) = Len(u.rk) + 1
  <2>1. PICK d, e : d = Dh(s.dhs, u.dhs) /\ e = Dh(u.dhs, s.dhs)
    OBVIOUS
  <2>2. d \in Secrets /\ e \in Secrets
    <3>1. s.dhs \in Nat /\ u.dhs \in Nat
      BY DEF States
    <3> QED
      BY <2>1, <3>1, DhType
  <2>3. u.rk = Append(s.rk, d) \/ s.rk = Append(u.rk, e)
    BY <2>1 DEF Lock
  <2> QED
    BY ONLY <1>1, <2>2, <2>3, AppendRoot DEF KdfRk
<1>4. CASE u.ckr = NoChain
  <2>1. u.ckr.root = <<>> /\ Len(u.ckr.root) = 0
    BY <1>4, NoChainType
  <2> QED
    BY <1>1, <2>1 DEF Behind
<1>5. CASE u.ckr # NoChain
  <2>1. Len(u.ckr.root) + 1 = Len(u.rk) /\ u.ckr.n = u.nr
    BY <1>5 DEF Sound
  <2>2. Len(u.ckr.root) \in Nat
    BY DEF States, Chains
  <2>3. ~(Len(mk.root) < Len(u.ckr.root))
    BY <1>1, <1>3, <2>1, <2>2
  <2>4. PICK n \in w : n.mk.root = u.ckr.root /\ n.mk.n + 1 = u.nr
    BY <1>5 DEF Reaches
  <2>5. ASSUME s.rk = u.ckr.root PROVE ~(s.ns < u.ckr.n)
    <3>1. n.mk.n < s.cks.n
      BY <2>4, <2>5 DEF Fits
    <3>2. n.mk.n \in Int
      BY DEF Stanzas, Chains
    <3> QED
      BY ONLY <1>1, <1>2, <2>1, <2>4, <3>1, <3>2
  <2> QED
    BY <2>3, <2>5 DEF Behind
<1> QED
  BY <1>4, <1>5

LEMMA LastingSend ==
  ASSUME NEW ss, NEW w, NEW f, NEW o, NEW op, Keyed(ss, w, f), Locked(ss, w, o), Lasting(ss, w, op), IsFiniteSet(w),
         NEW x \in Parties, ss[x] # NoSession, NEW m, FromState(x, ss[x], m)
  PROVE  Lasting([ss EXCEPT ![x] = EncryptState(@)], w \cup {m}, op)
<1>1. PICK y, s, t, ts, v, u : /\ y = Peer(x) /\ s = ss[x] /\ t = EncryptState(s) /\ u = ss[y]
                               /\ ts = [ss EXCEPT ![x] = t] /\ v = w \cup {m}
  OBVIOUS
<1>2. y \in Parties /\ y # x /\ Peer(y) = x /\ \A z \in Parties : z = x \/ z = y
  BY <1>1, PeerIs
<1>3. ss \in [Parties -> States \cup {NoSession}] /\ s \in States /\ Sound(s) /\ CanEncrypt(s) /\ MadeRoot(f, s.rk)
      /\ \A n \in w : Fits(x, s, n) /\ n \in Stanzas
  BY <1>1 DEF Keyed, Usable, Posted
<1>4. /\ t \in States /\ t.rk = s.rk /\ t.ckr = s.ckr /\ t.nr = s.nr /\ t.mkskipped = s.mkskipped
      /\ s.cks.root = s.rk /\ s.cks.n = s.ns
  BY ONLY <1>1, <1>3, EncryptStateIs
<1>5. ts[x] = t /\ ts[y] = u
  BY <1>1, <1>2, <1>3
<1>6. m \in Stanzas /\ m.from = x /\ m.mk = s.cks /\ m.mk \in Chains
  BY <1>1 DEF FromState, EncryptKey, Stanzas
<1>7. Reaches(x, s, w) /\ Stores(x, s, w) /\ Keeps(x, s, w, op)
  BY <1>1 DEF Lasting, Lasts
<1>8. Room(v) => Room(w)
  BY <1>1, RoomShrinks
<1>9. \A k : /\ Held(t, k) <=> Held(s, k)
             /\ Behind(t, k) <=> Behind(s, k)
  BY ONLY <1>4 DEF Held, Behind
<1>10. Reaches(x, t, v) /\ Stores(x, t, v) /\ Keeps(x, t, v, op)
  <2>1. Reaches(x, t, v)
    BY ONLY <1>1, <1>4, <1>7 DEF Reaches
  <2>2. Stores(x, t, v)
    BY ONLY <1>1, <1>4, <1>7, <1>9 DEF Stores
  <2>3. m.from # Peer(x)
    BY <1>1, <1>2, <1>6
  <2>4. Keeps(x, t, v, op)
    BY ONLY <1>1, <1>4, <1>7, <1>8, <1>9, <2>3 DEF Keeps
  <2> QED
    BY <2>1, <2>2, <2>4
<1>11. ASSUME u # NoSession PROVE Reaches(y, u, v) /\ Stores(y, u, v) /\ Keeps(y, u, v, op)
  <2>1. /\ Reaches(y, u, w) /\ Stores(y, u, w) /\ Keeps(y, u, w, op) /\ Lock(s, u)
        /\ u \in States /\ Sound(u)
    BY <1>1, <1>2, <1>11 DEF Lasting, Lasts, Locked, Keyed, Usable
  <2>2. Reaches(y, u, v) /\ Stores(y, u, v)
    BY ONLY <1>1, <2>1 DEF Reaches, Stores
  <2>3. ASSUME Single(u.rk[1]), Of(m) = u.rk[1] PROVE ~Behind(u, m.mk)
    <3>1. Single(s.rk[1]) /\ u.rk[1] = s.rk[1] /\ Len(s.rk) > 1 /\ m.mk.root = s.rk /\ m.mk.n = s.ns
      BY <1>3, <1>4, <1>6, <2>3 DEF Of, MadeRoot
    <3> QED
      BY ONLY <1>1, <1>3, <1>6, <2>1, <3>1, x \in Parties, NotPassedYet
  <2>4. Keeps(y, u, v, op)
    BY ONLY <1>1, <1>8, <2>1, <2>3 DEF Keeps
  <2> QED
    BY <2>2, <2>4
<1>12. Lasting(ts, v, op)
  BY ONLY <1>2, <1>5, <1>10, <1>11 DEF Lasting, Lasts
<1>13. ts = [ss EXCEPT ![x] = EncryptState(@)]
  BY <1>1
<1> QED
  BY ONLY <1>1, <1>12, <1>13, Zenon

LEMMA LastingSet ==
  ASSUME NEW ss, NEW w, NEW op, NEW q, Lasting(ss, w, op), op \subseteq q, ss \in [Parties -> States \cup {NoSession}],
         NEW x \in Parties, NEW t, Reaches(x, t, w), Stores(x, t, w), Keeps(x, t, w, q)
  PROVE  Lasting([ss EXCEPT ![x] = t], w, q)
<1>1. PICK ts : ts = [ss EXCEPT ![x] = t]
  OBVIOUS
<1>2. \A z \in Parties : ts[z] = IF z = x THEN t ELSE ss[z]
  BY <1>1
<1>3. \A z \in Parties : ss[z] # NoSession => Reaches(z, ss[z], w) /\ Stores(z, ss[z], w) /\ Keeps(z, ss[z], w, q)
  BY DEF Lasting, Lasts, Keeps
<1>4. Lasting(ts, w, q)
  BY ONLY <1>2, <1>3, Reaches(x, t, w), Stores(x, t, w), Keeps(x, t, w, q) DEF Lasting, Lasts
<1> QED
  BY ONLY <1>1, <1>4, Zenon

KeepInv == Lasting(session, wire, opened)

LEMMA OpenLasts ==
  ASSUME SessionTypes, KeyInv, ChainInv, ReplayInv, LockInv, KeepInv,
         NEW x \in Parties, NEW o \in Nat, NEW m \in Stanzas, OpenStep(x, o, m)
  PROVE  KeepInv'
<1>1. PICK t, ts : OpensWith(x, o, m, t, ts)
  BY OpenSplits DEF OpensWith
<1>2. t.ckr = NoChain /\ t.mkskipped = <<>>
  BY <1>1 DEF OpensWith
<1>3. session \in [Parties -> States \cup {NoSession}] /\ WireRoots(wire) /\ IsFiniteSet(wire)
  BY RootTypes DEF KeyInv, Keyed, SessionTypes
<1>4. \A k : ~Held(t, k)
  BY <1>2 DEF Held
<1>5. ASSUME NEW n \in wire PROVE ~Behind(t, n.mk)
  <2>1. t.ckr.root = <<>> /\ Len(t.ckr.root) = 0
    BY <1>2, NoChainType
  <2>2. Len(n.mk.root) \in Nat /\ Len(n.mk.root) > 1
    BY <1>3 DEF WireRoots
  <2> QED
    BY ONLY <2>1, <2>2 DEF Behind
<1>6. Reaches(x, t, wire) /\ Stores(x, t, wire) /\ Keeps(x, t, wire, opened)
  BY <1>2, <1>4, <1>5 DEF Reaches, Stores, Keeps
<1>7. Lasting([session EXCEPT ![x] = t], wire, opened)
  BY <1>3, <1>6, LastingSet DEF KeepInv
<1>8. Locked([session EXCEPT ![x] = t], wire, opks)
  BY <1>1, OpenLocked
<1>9. PICK g, w, p, q : g = fresh' /\ w = wire /\ p = opks /\ q = opened
  OBVIOUS
<1>10. /\ Keyed(ts, w, g) /\ Locked(ts, w, p) /\ Lasting(ts, w, q) /\ ts[x] # NoSession /\ FromState(x, ts[x], m)
       /\ IsFiniteSet(w) /\ session' = [ts EXCEPT ![x] = EncryptState(@)]
  BY <1>1, <1>3, <1>7, <1>8, <1>9 DEF OpensWith
<1>11. Lasting([ts EXCEPT ![x] = EncryptState(@)], w \cup {m}, q)
  BY ONLY <1>10, x \in Parties, LastingSend
<1>12. wire' = w \cup {m} /\ opened' = q
  BY <1>9 DEF OpenStep
<1> QED
  BY <1>10, <1>11, <1>12 DEF KeepInv

HeldSent(s, w, y) == \A k \in Chains : Held(s, k) => \E n \in w : n.from = y /\ n.mk = k

LeftSent(s, m, w, y) == s.ckr # NoChain => \A k \in Nat : k < m.header.pn => Sent(w, y, s.ckr.root, k)

KeptOf(s, w, y, a, op) ==
  \A n \in w : n.from = y /\ Of(n) = a /\ n.mk \notin op /\ Behind(s, n.mk) => Held(s, n.mk)

LeftOf(s, m, w, y, a) ==
  \A n \in w : n.from = y /\ Of(n) = a /\ Len(n.mk.root) < Len(m.mk.root) => LeftBehind(s, m.header, n.mk)

AllTagged(w) == \A n \in w : Tagged(w, n)

(* Before a turn: the chain the session leaves is the one `pn' counts.     *)
LEMMA TurnLeaves ==
  ASSUME NEW x \in Parties, NEW y, y = Peer(x), NEW s \in States, Sound(s), NEW w, NEW o, Paced(w, o), WireRoots(w),
         Staged(x, s, w, o), NEW m \in w, m.from = y, Single(Of(m)), NEW t, TurnedTo(s, m, t)
  PROVE  LeftOf(s, m, w, y, Of(m)) /\ LeftSent(s, m, w, y)
<1>1. /\ s.rk[1] = Of(m) /\ Len(m.mk.root) = Len(s.rk) + 1 /\ Len(s.rk) \in Nat
  BY DEF TurnedTo
<1>2. s.ckr # NoChain => Len(s.ckr.root) + 1 = Len(s.rk)
  BY DEF Sound
<1>3. Len(s.ckr.root) \in Nat
  BY DEF States, Chains
<1>4. ASSUME NEW n \in w, n.from = y, Of(n) = Of(m), Len(n.mk.root) < Len(m.mk.root)
      PROVE  s.ckr # NoChain /\ (n.mk.root = s.ckr.root \/ Len(n.mk.root) < Len(s.ckr.root))
  <2>1. Line(x, s, n)
    BY <1>1, <1>4 DEF Staged
  <2>2. PICK q, d, r : q = s.rk /\ d = Dh(s.dhs, n.header.dh) /\ r = n.mk.root
    OBVIOUS
  <2>3. q \in Seq(Secrets) /\ d \in Secrets /\ Len(r) \in Nat
    <3>1. s.dhs \in Nat /\ n.header.dh \in Nat
      BY DEF States, WireRoots, Stanzas, Headers
    <3> QED
      BY <2>2, <3>1, DhType DEF States, WireRoots
  <2>4. Len(Append(q, d)) = Len(q) + 1
    BY ONLY <2>3, AppendRoot DEF KdfRk
  <2>5. r # Append(q, d)
    BY <1>1, <1>4, <2>2, <2>3, <2>4
  <2> QED
    BY <1>4, <2>1, <2>2, <2>5 DEF Line
<1>5. ASSUME NEW n \in w, n.from = y, Of(n) = Of(m), Len(n.mk.root) < Len(m.mk.root) PROVE LeftBehind(s, m.header, n.mk)
  <2>1. s.ckr # NoChain /\ (n.mk.root = s.ckr.root \/ Len(n.mk.root) < Len(s.ckr.root))
    BY <1>4, <1>5
  <2>2. ASSUME n.mk.root = s.ckr.root PROVE n.mk.n < m.header.pn
    <3>1. Len(n.mk.root) + 2 = Len(m.mk.root)
      BY <1>1, <1>2, <1>3, <2>1, <2>2
    <3> QED
      BY <1>5, <3>1 DEF Paced
  <2> QED
    BY <2>1, <2>2 DEF LeftBehind
<1>6. ASSUME s.ckr # NoChain, NEW k \in Nat, k < m.header.pn PROVE Sent(w, y, s.ckr.root, k)
  <2>1. PICK n \in w : n.from = y /\ Of(n) = Of(m) /\ Len(n.mk.root) + 2 = Len(m.mk.root) /\ n.mk.n = k
    BY <1>6 DEF Paced, Before
  <2>2. Len(n.mk.root) \in Nat
    BY DEF WireRoots
  <2>3. Len(n.mk.root) < Len(m.mk.root) /\ Len(n.mk.root) = Len(s.ckr.root)
    <3>1. PICK i, j, l, c : i = Len(n.mk.root) /\ j = Len(m.mk.root) /\ l = Len(s.rk) /\ c = Len(s.ckr.root)
      OBVIOUS
    <3>2. i \in Nat /\ l \in Nat /\ c \in Nat /\ i + 2 = j /\ j = l + 1 /\ c + 1 = l
      BY ONLY <1>1, <1>2, <1>3, <1>6, <2>1, <2>2, <3>1
    <3>3. i < j /\ i = c
      BY ONLY <3>2
    <3> QED
      BY ONLY <3>1, <3>3, Zenon
  <2>4. n.mk.root = s.ckr.root
    BY <1>3, <1>4, <2>1, <2>3
  <2> QED
    BY <2>1, <2>4 DEF Sent
<1> QED
  BY <1>5, <1>6 DEF LeftOf, LeftSent

(* What a state holds after a decryption are keys of stanzas.              *)
LEMMA ReadStores ==
  ASSUME NEW y, NEW s, NEW t, NEW w, NEW m, WireRoots(w), m \in w, m.from = y, Tagged(w, m),
         DecryptKeeps(s, m.header, m.mk, t),
         HeldSent(s, w, y), t.dhr # s.dhr => LeftSent(s, m, w, y)
  PROVE  HeldSent(t, w, y)
<1> SUFFICES ASSUME NEW k \in Chains, Held(t, k) PROVE \E n \in w : n.from = y /\ n.mk = k
  BY DEF HeldSent
<1>1. k.n \in Int
  BY DEF Chains
<1>2. \A n \in w : n.mk \in Chains
  BY DEF WireRoots, Stanzas
<1>3. \/ Held(s, k)
      \/ k.root = m.mk.root /\ 0 <= k.n /\ k.n < m.header.n
      \/ /\ t.dhr # s.dhr /\ s.ckr # NoChain
         /\ k.root = s.ckr.root /\ 0 <= k.n /\ k.n < m.header.pn
  BY DEF DecryptKeeps
<1>4. ASSUME Sent(w, y, k.root, k.n) PROVE \E n \in w : n.from = y /\ n.mk = k
  <2>1. PICK n \in w : n.from = y /\ n.mk.root = k.root /\ n.mk.n = k.n
    BY <1>4 DEF Sent
  <2>2. n.mk = k
    BY <1>2, <2>1, SameKey
  <2> QED
    BY <2>1, <2>2
<1>5. CASE k.root = m.mk.root /\ 0 <= k.n /\ k.n < m.header.n
  <2>1. k.n \in Nat
    BY <1>1, <1>5
  <2> QED
    BY <1>4, <1>5, <2>1 DEF Tagged
<1>6. CASE /\ t.dhr # s.dhr /\ s.ckr # NoChain
           /\ k.root = s.ckr.root /\ 0 <= k.n /\ k.n < m.header.pn
  <2>1. k.n \in Nat
    BY <1>1, <1>6
  <2> QED
    BY <1>4, <1>6, <2>1 DEF LeftSent
<1> QED
  BY <1>3, <1>5, <1>6 DEF HeldSent

LEMMA ReadKeeps ==
  ASSUME NEW y, NEW a, NEW s, NEW t, t \in States, Sound(t), NEW w, NEW op, NEW m, WireRoots(w), m \in w,
         AllTagged(w), IsFiniteSet(w), Room(w), DecryptKeeps(s, m.header, m.mk, t),
         KeptOf(s, w, y, a, op), HeldSent(t, w, y), t.dhr # s.dhr => LeftOf(s, m, w, y, a)
  PROVE  KeptOf(t, w, y, a, op \cup {m.mk})
<1> SUFFICES ASSUME NEW n \in w, n.from = y, Of(n) = a, n.mk \notin op, n.mk # m.mk, Behind(t, n.mk) PROVE Held(t, n.mk)
  BY DEF KeptOf
<1>1. PICK k : k = n.mk
  OBVIOUS
<1>2. k \in Chains /\ 0 <= k.n
  <2>1. n \in Stanzas /\ n.header.n = n.mk.n
    BY DEF WireRoots, AllTagged, Tagged
  <2>2. n.header.n \in Nat /\ n.mk \in Chains
    BY <2>1 DEF Stanzas, Headers
  <2> QED
    BY <1>1, <2>1, <2>2
<1>3. k # m.mk /\ Behind(t, k)
  BY <1>1
<1>4. Behind(s, k) => Held(s, k)
  BY <1>1 DEF KeptOf
<1>5. t.dhr # s.dhr /\ Len(k.root) < Len(m.mk.root) => LeftBehind(s, m.header, k)
  BY <1>1 DEF LeftOf
<1>6. Covered(t, k)
  BY ONLY <1>2, <1>3, <1>4, <1>5, DecryptKeeps(s, m.header, m.mk, t) DEF DecryptKeeps
<1>7. ~Full(t, k)
  <2>1. ASSUME NEW i \in 1 .. Len(t.mkskipped) PROVE \E z \in w : z.mk = t.mkskipped[i].mk
    <3>1. t.mkskipped \in Seq(Entries)
      BY DEF States
    <3>2. t.mkskipped[i] \in Entries
      BY <3>1, <2>1
    <3>3. t.mkskipped[i].mk \in Chains
      BY <3>2 DEF Entries
    <3>4. Held(t, t.mkskipped[i].mk)
      BY <2>1 DEF Held
    <3> QED
      BY <3>3, <3>4 DEF HeldSent
  <2> QED
    BY <1>1, <1>2, <2>1, FullRoom
<1> QED
  BY <1>1, <1>6, <1>7 DEF Covered

LEMMA ReadLasts ==
  ASSUME SessionTypes, KeyInv, ChainInv, ReplayInv, LockInv, KeepInv, NEW x \in Parties, NEW m \in wire, ReadStep(x, m)
  PROVE  KeepInv'
<1>1. PICK s, t : ReadsFrom(x, m, s, t)
  BY ReadSplits
<1>2. PICK y, ss, w, o, op, f, a : /\ y = Peer(x) /\ ss = session /\ w = wire /\ o = opks /\ op = opened /\ f = fresh
                                   /\ a = Of(m)
  OBVIOUS
<1>3. m.from = y /\ wire' = w /\ session' = [ss EXCEPT ![x] = t] /\ m \in w /\ opened' = op \cup {m.mk}
  BY <1>1, <1>2 DEF ReadStep, ReadsFrom
<1>4. /\ s.rk[1] = a /\ t.rk[1] = a
      /\ \/ s = ss[x] /\ s # NoSession
         \/ /\ a = [init |-> y, base |-> m.pre.base, opk |-> m.pre.opk]
            /\ (m.pre.opk = NoOpk \/ m.pre.opk \in o[x])
  BY <1>1, <1>2, <1>3, ReadSecret DEF Of
<1>5. /\ Keyed(ss, w, f) /\ Chained(ss, w) /\ Locked(ss, w, o) /\ Lasting(ss, w, op) /\ WireRoots(w) /\ IsFiniteSet(w)
      /\ ss \in [Parties -> States \cup {NoSession}] /\ f[x] \in Nat /\ Paced(w, o)
  BY <1>2, RootTypes DEF KeyInv, ChainInv, LockInv, KeepInv, SessionTypes, Keyed, Counters, Locked
<1>6. UsesUp(s, m.mk, t) /\ DecryptKeeps(s, m.header, m.mk, t) /\ t \in States /\ Sound(t)
  BY <1>1 DEF ReadsFrom, Reads, UsesUp
<1>7. m \in Stanzas /\ AllTagged(w) /\ Tagged(w, m) /\ Len(m.mk.root) \in Nat /\ y \in Parties /\ Peer(y) = x
  BY <1>2, <1>3, <1>5, PeerIs DEF Chained, WireRoots, AllTagged
<1>8. ASSUME s = ss[x], s # NoSession PROVE Lasts(x, t, w, op \cup {m.mk})
  <2>1. /\ s \in States /\ Sound(s) /\ Staged(x, s, w, o) /\ Reaches(x, s, w) /\ Stores(x, s, w) /\ Keeps(x, s, w, op)
        /\ MadeRoot(f, s.rk)
    BY <1>5, <1>8 DEF Keyed, Usable, Locked, Lasting, Lasts
  <2>2. s.rk \in Seq(Secrets) /\ Len(s.rk) > 0 /\ s.dhs \in Nat /\ Len(s.rk) \in Nat
    BY <2>1 DEF MadeRoot, States
  <2>3. SameChain(s, m.mk, t) \/ TurnedTo(s, m, t)
    <3>1. SameChain(s, m.mk, t) \/ NewChain(s, m.header, m.mk, f[x], t)
      BY <1>1, <1>2 DEF ReadsFrom
    <3>2. ASSUME NewChain(s, m.header, m.mk, f[x], t) PROVE TurnedTo(s, m, t)
      BY ONLY <1>5, <1>7, <2>2, <3>2, TurnsTo
    <3> QED
      BY <3>1, <3>2
  <2>4. Reaches(x, t, w)
    <3>1. \/ t.nr = s.nr /\ t.ckr.root = s.ckr.root
          \/ t.nr = m.mk.n + 1 /\ t.ckr.root = m.mk.root
      BY <1>6 DEF DecryptKeeps
    <3>2. CASE t.nr = m.mk.n + 1 /\ t.ckr.root = m.mk.root
      BY <1>2, <1>3, <3>2 DEF Reaches
    <3>3. CASE t.nr = s.nr /\ t.ckr.root = s.ckr.root
      <4>1. s.ckr # NoChain
        <5>1. CASE SameChain(s, m.mk, t)
          BY <5>1 DEF SameChain
        <5>2. CASE TurnedTo(s, m, t)
          <6>1. Len(s.ckr.root) > 0
            BY <2>2, <3>3, <5>2 DEF TurnedTo
          <6> QED
            BY <6>1, NoChainType
        <5> QED
          BY <2>3, <5>1, <5>2
      <4> QED
        BY <2>1, <3>3, <4>1 DEF Reaches
    <3> QED
      BY <3>1, <3>2, <3>3
  <2>5. ASSUME Single(a), t.dhr # s.dhr
        PROVE  LeftOf(s, m, w, y, a) /\ LeftSent(s, m, w, y)
    <3>1. TurnedTo(s, m, t)
      BY <2>3, <2>5 DEF SameChain
    <3>2. Single(Of(m))
      BY <1>2, <2>5
    <3> QED
      BY ONLY <1>2, <1>3, <1>5, <2>1, <3>1, <3>2, x \in Parties, TurnLeaves
  <2>6. ASSUME Single(a) PROVE HeldSent(t, w, y)
    <3>1. HeldSent(s, w, y)
      BY <1>2, <1>4, <2>1, <2>6 DEF Stores, HeldSent
    <3>2. t.dhr # s.dhr => LeftSent(s, m, w, y)
      BY <2>5, <2>6
    <3> QED
      BY ONLY <1>3, <1>5, <1>6, <1>7, <3>1, <3>2, ReadStores
  <2>7. ASSUME Single(a), Room(w) PROVE KeptOf(t, w, y, a, op \cup {m.mk})
    <3>1. KeptOf(s, w, y, a, op)
      BY <1>2, <1>4, <2>1, <2>7 DEF Keeps, KeptOf
    <3>2. HeldSent(t, w, y)
      BY <2>6, <2>7
    <3>3. t.dhr # s.dhr => LeftOf(s, m, w, y, a)
      BY <2>5, <2>7
    <3> QED
      BY ONLY <1>3, <1>5, <1>6, <1>7, <2>7, <3>1, <3>2, <3>3, ReadKeeps
  <2> QED
    BY ONLY <1>2, <1>4, <2>4, <2>6, <2>7 DEF Lasts, Stores, Keeps, HeldSent, KeptOf
<1>9. ASSUME s.ckr = NoChain, s.mkskipped = <<>>, s.rk = Secret(m.from, m.pre), NewChain(s, m.header, m.mk, fresh[x], t),
             m.pre.opk = NoOpk \/ m.pre.opk \in opks[x]
      PROVE  Lasts(x, t, w, op \cup {m.mk})
  <2>1. /\ a = [init |-> y, base |-> m.pre.base, opk |-> m.pre.opk] /\ a.opk = m.pre.opk /\ a.init = y
        /\ (m.pre.opk = NoOpk \/ m.pre.opk \in o[x])
    <3>1. m.pre \in Pres /\ m.from \in Parties
      BY <1>7 DEF Stanzas
    <3>2. Secret(m.from, m.pre)[1] = [init |-> m.from, base |-> m.pre.base, opk |-> m.pre.opk]
      BY <3>1, SecretIs
    <3> QED
      BY <1>2, <1>3, <1>4, <1>9, <3>2
  <2>2. t.ckr # NoChain /\ t.ckr.root = m.mk.root /\ t.nr = m.mk.n + 1
    BY <1>9 DEF NewChain
  <2>3. Reaches(x, t, w)
    BY <1>2, <1>3, <2>2 DEF Reaches
  <2>4. \A k : ~Held(s, k)
    BY <1>9 DEF Held
  <2>5. ASSUME NEW n \in w PROVE ~Behind(s, n.mk)
    <3>1. s.ckr.root = <<>> /\ Len(s.ckr.root) = 0
      BY <1>9, NoChainType
    <3>2. Len(n.mk.root) \in Nat /\ Len(n.mk.root) > 1
      BY <1>5 DEF WireRoots
    <3> QED
      BY ONLY <3>1, <3>2 DEF Behind
  <2>6. HeldSent(t, w, y)
    <3>1. LeftSent(s, m, w, y) /\ HeldSent(s, w, y)
      BY <1>9, <2>4 DEF LeftSent, HeldSent
    <3> QED
      BY ONLY <1>3, <1>5, <1>6, <1>7, <3>1, ReadStores
  <2>7. ASSUME Single(a), Room(w) PROVE KeptOf(t, w, y, a, op \cup {m.mk})
    <3>1. Stocked(o, a)
      BY <1>7, <2>1, <2>7 DEF Stocked, Single
    <3>2. \A n \in w : Of(n) = a => Len(n.mk.root) = 2
      BY <1>5, <2>7, <3>1 DEF Paced
    <3>3. Len(m.mk.root) = 2
      BY <1>2, <1>3, <3>2
    <3>4. LeftOf(s, m, w, y, a)
      <4>1. ASSUME NEW n \in w, Of(n) = a PROVE ~(Len(n.mk.root) < Len(m.mk.root))
        <5>1. PICK i, j : i = Len(n.mk.root) /\ j = Len(m.mk.root)
          OBVIOUS
        <5>2. i = 2 /\ j = 2
          BY <3>2, <3>3, <4>1, <5>1
        <5>3. ~(i < j)
          BY ONLY <5>2
        <5> QED
          BY ONLY <5>1, <5>3, Zenon
      <4> QED
        BY <4>1 DEF LeftOf
    <3>5. KeptOf(s, w, y, a, op)
      BY <2>5 DEF KeptOf
    <3> QED
      BY ONLY <1>3, <1>5, <1>6, <1>7, <2>6, <2>7, <3>4, <3>5, ReadKeeps
  <2> QED
    BY ONLY <1>2, <1>4, <2>3, <2>6, <2>7 DEF Lasts, Stores, Keeps, HeldSent, KeptOf
<1>10. Lasts(x, t, w, op \cup {m.mk})
  BY <1>1, <1>2, <1>8, <1>9 DEF ReadsFrom
<1>11. op \subseteq op \cup {m.mk}
  OBVIOUS
<1>12. Lasting([ss EXCEPT ![x] = t], w, op \cup {m.mk})
  BY ONLY <1>5, <1>10, <1>11, x \in Parties, LastingSet DEF Lasts
<1> QED
  BY <1>3, <1>12 DEF KeepInv

LEMMA KeepSteps ==
  ASSUME SessionTypes, KeyInv, ChainInv, ReplayInv, LockInv, KeepInv, [Next]_vars
  PROVE  KeepInv'
<1>1. CASE QuietStep
  BY <1>1 DEF QuietStep, KeepInv
<1>2. ASSUME NEW x \in Parties, DropStep(x) PROVE KeepInv'
  <2>1. session \in [Parties -> States \cup {NoSession}]
    BY DEF KeyInv, Keyed
  <2>2. \A z \in Parties : session'[z] # NoSession => session'[z] = session[z]
    BY <1>2, <2>1 DEF DropStep
  <2> QED
    BY <1>2, <2>2 DEF DropStep, KeepInv, Lasting
<1>3. ASSUME NEW x \in Parties, NEW m \in Stanzas, SendStep(x, m) PROVE KeepInv'
  <2>1. Lasting([session EXCEPT ![x] = EncryptState(@)], wire \cup {m}, opened)
    BY <1>3, LastingSend DEF SendStep, KeyInv, LockInv, KeepInv, SessionTypes
  <2> QED
    BY <1>3, <2>1 DEF SendStep, KeepInv
<1> QED
  BY <1>1, <1>2, <1>3, OpenLasts, ReadLasts, CoreSteps

-----------------------------------------------------------------------------
(* A key that the dict has at the place the header names is the stanza's.  *)
LEMMA DictOpens ==
  ASSUME NEW x \in Parties, NEW y, y = Peer(x), NEW s \in States, Sound(s), AllNamed(y, s), NEW w, WireRoots(w),
         AllTagged(w), \A m, n \in w : m.from = n.from /\ m.header.dh = n.header.dh => m.mk.root = n.mk.root,
         HeldSent(s, w, y), NEW m \in w, m.from = y, NEW i \in SkippedAt(s, m.header)
  PROVE  s.mkskipped[i].mk = m.mk
<1>1. i \in 1 .. Len(s.mkskipped) /\ s.mkskipped[i].dh = m.header.dh /\ s.mkskipped[i].n = m.header.n
  BY DEF SkippedAt
<1>2. PICK e : e = s.mkskipped[i]
  OBVIOUS
<1>3. s.mkskipped \in Seq(Entries)
  BY DEF States
<1>4. e \in Entries
  BY <1>1, <1>2, <1>3
<1>5. e.mk \in Chains /\ e.mk.n = e.n /\ Held(s, e.mk) /\ Named(y, e.dh, e.mk.root)
  <2>1. e.mk \in Chains
    BY <1>4 DEF Entries
  <2>2. e.mk.n = e.n
    BY <1>1, <1>2 DEF Sound
  <2>3. Held(s, e.mk)
    BY <1>1, <1>2 DEF Held
  <2>4. Named(y, e.dh, e.mk.root)
    BY <1>1, <1>2 DEF AllNamed
  <2> QED
    BY <2>1, <2>2, <2>3, <2>4
<1>6. PICK n \in w : n.from = y /\ n.mk = e.mk
  BY <1>5 DEF HeldSent
<1>7. Named(y, n.header.dh, e.mk.root) /\ m.header.n = m.mk.n
  BY <1>6 DEF AllTagged, Tagged
<1>8. n.header.dh = e.dh
  <2>1. y \in Parties
    BY PeerIs
  <2> QED
    BY <1>5, <1>7, <2>1, NameIsOne
<1>9. n.mk.root = m.mk.root
  BY <1>1, <1>2, <1>6, <1>8
<1>10. m.mk \in Chains
  BY DEF WireRoots, Stanzas
<1>11. e.mk.root = m.mk.root /\ e.mk.n = m.mk.n
  BY <1>1, <1>2, <1>5, <1>6, <1>7, <1>9
<1>12. e.mk = m.mk
  BY ONLY <1>5, <1>10, <1>11, SameKey
<1> QED
  BY <1>2, <1>12

(* A key that is in the dict is found under the stanza's header.           *)
LEMMA HeldIsFound ==
  ASSUME NEW x \in Parties, NEW y, y = Peer(x), NEW s \in States, Sound(s), AllNamed(y, s), NEW w, NEW m, Tagged(w, m),
         m.from = y, SkippedAt(s, m.header) = {}
  PROVE  ~Held(s, m.mk)
<1> SUFFICES ASSUME Held(s, m.mk) PROVE FALSE
  OBVIOUS
<1>1. PICK i \in 1 .. Len(s.mkskipped) : s.mkskipped[i].mk = m.mk
  BY DEF Held
<1>2. Named(y, s.mkskipped[i].dh, m.mk.root) /\ Named(y, m.header.dh, m.mk.root)
  BY <1>1 DEF AllNamed, Tagged
<1>3. s.mkskipped[i].dh = m.header.dh
  <2>1. y \in Parties
    BY PeerIs
  <2> QED
    BY <1>2, <2>1, NameIsOne
<1>4. s.mkskipped[i].n = m.header.n
  BY <1>1 DEF Sound, Tagged
<1>5. i \in SkippedAt(s, m.header)
  BY <1>1, <1>3, <1>4 DEF SkippedAt
<1> QED
  BY <1>5

(* No stanza is further ahead than max_skip while the wire has room.       *)
LEMMA NotFar ==
  ASSUME NEW w, IsFiniteSet(w), Room(w), NEW c \in Nat, \A k \in Nat : k < c => \E n \in w : n.mk.n = k,
         NEW s, s.nr \in Nat
  PROVE  ~TooFar(s, c)
<1>1. PICK v : v = Cardinality(w)
  OBVIOUS
<1>2. v \in Nat /\ c <= v /\ v <= MaxSkip /\ MaxSkip \in Nat
  BY <1>1, Gapless, FS_CardinalityType, RatchetAssumption DEF Room
<1>3. ~(s.nr + MaxSkip < c)
  BY ONLY <1>2, c \in Nat, s.nr \in Nat
<1> QED
  BY <1>3 DEF TooFar

LEMMA ChainOpens ==
  ASSUME NEW s \in States, Sound(s), s.ckr # NoChain, s.dhr > 0, NEW h \in Headers, NEW mk \in Chains, NEW dh,
         h.dh = s.dhr, h.n = mk.n, mk.root = s.ckr.root, SkippedAt(s, h) = {}, ~Behind(s, mk), ~TooFar(s, h.n)
  PROVE  RatchetDecrypt(s, h, mk, dh).ok
<1>1. h.n \in Nat /\ s.dhr \in Nat /\ s.nr \in Nat /\ s.ckr.n = s.nr
  BY DEF Headers, States, Sound
<1>2. s.dhr # NoDh /\ h.n >= s.nr
  BY <1>1 DEF NoDh, Behind
<1>3. SkipMessageKeys(s, h.n).ckr = mk
  BY <1>1, <1>2, SkipArrives
<1> QED
  BY <1>2, <1>3, OkOnChain

LEMMA TurnOpens ==
  ASSUME NEW s \in States, Sound(s), NEW h \in Headers, NEW mk \in Chains, NEW dh \in Nat, h.dh # s.dhr, h.n = mk.n,
         mk.root = Append(s.rk, Dh(s.dhs, h.dh)), SkippedAt(s, h) = {}, ~TooFar(s, h.pn),
         \A u : u.nr \in Nat => ~TooFar(u, h.n)
  PROVE  RatchetDecrypt(s, h, mk, dh).ok
<1>1. h.dh \in Nat /\ h.n \in Nat /\ h.pn \in Nat /\ mk.root = KdfRk(s.rk, Dh(s.dhs, h.dh))
  BY DEF Headers, KdfRk
<1>2. PICK v, w : v = SkipMessageKeys(s, h.pn) /\ w = DhRatchet(v, h, dh)
  OBVIOUS
<1>3. v \in States /\ v.rk = s.rk /\ v.dhs = s.dhs
  BY <1>1, <1>2, SkipSound DEF Skips
<1>4. Turns(v, h, dh, w)
  BY <1>2, <1>3, TurnIs
<1>5. w \in States /\ w.nr = 0 /\ w.ckr = ChainOf(mk.root)
  BY ONLY <1>1, <1>3, <1>4, Zenon DEF Turns
<1>6. w.ckr.root = mk.root /\ w.ckr.n = 0 /\ w.ckr # NoChain
  <2>1. mk.root \in Seq(Secrets)
    BY DEF Chains
  <2> QED
    BY ONLY <1>5, <2>1, ChainOfIs, Zenon
<1>7. SkipMessageKeys(w, h.n).ckr = mk
  <2>1. h.n >= w.nr /\ w.ckr.n = w.nr
    BY <1>1, <1>5, <1>6
  <2> QED
    BY <1>1, <1>5, <1>6, <2>1, SkipArrives
<1>8. ~TooFar(w, h.n)
  <2>1. w.nr \in Nat
    BY <1>5
  <2> QED
    BY <2>1
<1> QED
  BY <1>2, <1>7, <1>8, OkByTurn

LEMMA SharedDecrypts ==
  ASSUME NEW x \in Parties, NEW y, y = Peer(x), NEW s \in States, Sound(s), Shaped(x, s), NEW w, IsFiniteSet(w), Room(w),
         WireRoots(w), AllTagged(w),
         \A m, n \in w : m.from = n.from /\ m.header.dh = n.header.dh => m.mk.root = n.mk.root,
         NEW o, Paced(w, o), Staged(x, s, w, o), NEW op, Stores(x, s, w), Keeps(x, s, w, op),
         s.ckr # NoChain => s.dhr > 0,
         NEW m \in w, m.from = y, m.mk \notin op, Of(m) = s.rk[1], Single(Of(m)), Fits(x, s, m), NEW dh \in Nat
  PROVE  RatchetDecrypt(s, m.header, m.mk, dh).ok
<1>1. PICK h, mk : h = m.header /\ mk = m.mk
  OBVIOUS
<1>2. h \in Headers /\ mk \in Chains /\ h.n \in Nat /\ h.pn \in Nat /\ h.dh \in Nat
  BY <1>1 DEF WireRoots, Stanzas, Headers
<1>3. Tagged(w, m) /\ h.n = mk.n /\ Named(y, h.dh, mk.root) /\ AllNamed(y, s)
  BY <1>1 DEF AllTagged, Tagged, Shaped
<1>4. CASE SkippedAt(s, h) # {}
  <2>1. HeldSent(s, w, y)
    BY DEF Stores, HeldSent
  <2>2. ASSUME NEW i \in SkippedAt(s, m.header) PROVE s.mkskipped[i].mk = m.mk
    BY <1>3, <2>1, <2>2, DictOpens
  <2>3. PICK i : i = CHOOSE j \in SkippedAt(s, h) : TRUE
    OBVIOUS
  <2>4. i \in SkippedAt(s, h)
    BY <1>4, <2>3
  <2>5. s.mkskipped[i].mk = mk
    BY <1>1, <2>2, <2>4
  <2>6. RatchetDecrypt(s, h, mk, dh).ok
    BY ONLY <1>4, <2>3, <2>5 DEF RatchetDecrypt
  <2> QED
    BY <1>1, <2>6
<1>5. CASE SkippedAt(s, h) = {}
  <2>1. ~Held(s, mk)
    BY <1>1, <1>3, <1>5, HeldIsFound
  <2>2. ~Behind(s, mk)
    BY <1>1, <2>1 DEF Keeps
  <2>3. \A k \in Nat : k < h.n => \E n \in w : n.mk.n = k
    BY <1>1, <1>3 DEF Tagged, Sent
  <2>4. \A k \in Nat : k < h.pn => \E n \in w : n.mk.n = k
    BY <1>1 DEF Paced, Before
  <2>5. \A u : u.nr \in Nat => ~TooFar(u, h.n)
    BY <1>2, <2>3, NotFar
  <2>6. s.nr \in Nat
    BY DEF States
  <2>7. ~TooFar(s, h.pn) /\ ~TooFar(s, h.n)
    BY <1>2, <2>4, <2>5, <2>6, NotFar
  <2>8. \/ mk.root = Append(s.rk, Dh(s.dhs, h.dh))
        \/ s.ckr # NoChain /\ (mk.root = s.ckr.root \/ Len(mk.root) < Len(s.ckr.root))
    BY <1>1 DEF Staged, Line
  <2>9. CASE mk.root = Append(s.rk, Dh(s.dhs, h.dh))
    <3>1. h.dh > s.dhr /\ s.dhr \in Nat
      BY <1>1, <2>9 DEF Fits, States
    <3>2. h.dh # s.dhr
      BY ONLY <1>2, <3>1
    <3>3. RatchetDecrypt(s, h, mk, dh).ok
      BY ONLY <1>2, <1>3, <1>5, <2>5, <2>7, <2>9, <3>2, s \in States, Sound(s), dh \in Nat, TurnOpens
    <3> QED
      BY <1>1, <3>3
  <2>10. CASE s.ckr # NoChain /\ (mk.root = s.ckr.root \/ Len(mk.root) < Len(s.ckr.root))
    <3>1. mk.root = s.ckr.root
      BY <2>2, <2>10 DEF Behind
    <3>2. Named(y, s.dhr, mk.root) /\ s.dhr > 0
      BY <2>10, <3>1 DEF Shaped
    <3>3. h.dh = s.dhr
      <4>1. y \in Parties
        BY PeerIs
      <4> QED
        BY <1>3, <3>2, <4>1, NameIsOne
    <3>4. RatchetDecrypt(s, h, mk, dh).ok
      BY ONLY <1>2, <1>3, <1>5, <2>2, <2>7, <2>10, <3>1, <3>2, <3>3, s \in States, Sound(s), ChainOpens
    <3> QED
      BY <1>1, <3>4
  <2> QED
    BY <2>8, <2>9, <2>10
<1> QED
  BY <1>4, <1>5

LEMMA KeptDecrypts ==
  ASSUME SessionTypes, KeyInv, ChainInv, LockInv, KeepInv, Room(wire)
  PROVE  SharedSessionDecrypts
<1> SUFFICES ASSUME NEW x \in Parties, session[x] # NoSession
             PROVE  /\ CanEncrypt(session[x])
                    /\ \A m \in wire : (/\ m.from = Peer(x) /\ m.kind = "msg" /\ m.mk \notin opened /\ ident[x]
                                        /\ session[x].rk[1] = SecretOf(m.mk) /\ SecretOf(m.mk).opk # NoOpk)
                                       => Decryption(x, m).ok
  BY DEF SharedSessionDecrypts
<1>1. PICK y, s, w, o, op, f : /\ y = Peer(x) /\ s = session[x] /\ w = wire /\ o = opks /\ op = opened /\ f = fresh
  OBVIOUS
<1>2. Usable(f, x, s) /\ Chained(session, w) /\ Locked(session, w, o) /\ Lasting(session, w, op)
  BY <1>1 DEF KeyInv, Keyed, ChainInv, LockInv, KeepInv
<1>3. s \in States /\ Sound(s) /\ CanEncrypt(s) /\ Owns(y, s.dhr)
  BY <1>1, <1>2 DEF Usable
<1>4. /\ Shaped(x, s) /\ AllTagged(w)
      /\ \A m, n \in w : m.from = n.from /\ m.header.dh = n.header.dh => m.mk.root = n.mk.root
  BY <1>1, <1>2 DEF Chained, AllTagged
<1>5. Paced(w, o) /\ Staged(x, s, w, o) /\ Stores(x, s, w) /\ Keeps(x, s, w, op)
  BY <1>1, <1>2 DEF Locked, Lasting, Lasts
<1>6. IsFiniteSet(w) /\ WireRoots(w) /\ Room(w) /\ f[x] \in Nat
  BY <1>1, RootTypes DEF SessionTypes, KeyInv, Keyed, Counters
<1>7. s.dhr > 0
  <2>1. PICK i \in Nat : s.dhr = 2 * i + Spk(y)
    BY <1>3 DEF Owns
  <2>2. Spk(y) \in 1 .. 2
    BY <1>1, SpkIs, PeerIs
  <2> QED
    BY ONLY <2>1, <2>2
<1>8. ASSUME NEW m \in w, m.from = y, m.kind = "msg", m.mk \notin op, ident[x], s.rk[1] = SecretOf(m.mk),
             SecretOf(m.mk).opk # NoOpk
      PROVE  Decryption(x, m).ok
  <2>1. Of(m) = s.rk[1] /\ Single(Of(m))
    BY <1>8 DEF SecretOf, Of, Single
  <2>2. Fits(x, s, m)
    BY <1>1, <1>8 DEF KeyInv, Keyed
  <2>3. RatchetDecrypt(s, m.header, m.mk, f[x]).ok
    BY ONLY <1>1, <1>3, <1>4, <1>5, <1>6, <1>7, <1>8, <2>1, <2>2, x \in Parties, SharedDecrypts
  <2>4. Decryption(x, m) = RatchetDecrypt(s, m.header, m.mk, f[x])
    BY <1>1, <1>8 DEF Decryption
  <2> QED
    BY ONLY <2>3, <2>4, Zenon
<1> QED
  BY <1>1, <1>3, <1>8

(***************************************************************************)
(* ratchet_encrypt never finds a stored session without a sending chain;   *)
(* and _decrypt_enc opens every msg that is still unopened and belongs to  *)
(* the session its receiver holds, if that was made with an OPK: its key   *)
(* is ahead on a chain the ratchet reaches, or it is in MKSKIPPED.  Room   *)
(* is what the two limits ask for: no more stanzas were sent than max_skip *)
(* and _MAX_SKIPPED_TOTAL allow, or a gap is refused and a key is evicted. *)
(***************************************************************************)
THEOREM SharedSessionDecryptsHolds == Spec => [](Room(wire) => SharedSessionDecrypts)
<1>1. Init => ReplayInv /\ ChainInv /\ LockInv /\ KeepInv
  <2> SUFFICES ASSUME Init PROVE ReplayInv /\ ChainInv /\ LockInv /\ KeepInv
    OBVIOUS
  <2>1. wire = {} /\ opened = {} /\ reopened = {} /\ \A x \in Parties : session[x] = NoSession
    BY DEF Init
  <2>2. ReplayInv
    BY DEF Init, ReplayInv, Replay, OpkSessionsReplayProof
  <2>3. ChainInv /\ LockInv /\ KeepInv
    BY <2>1 DEF ChainInv, Chained, LockInv, Locked, Paced, Alone, KeepInv, Lasting
  <2> QED
    BY <2>2, <2>3
<1>2. SideInv /\ KeyInv /\ ReplayInv /\ [Next]_vars => ReplayInv'
  BY ReplaySteps DEF SideInv
<1>3. SideInv /\ KeyInv /\ ReplayInv /\ ChainInv /\ LockInv /\ KeepInv /\ [Next]_vars => ChainInv' /\ LockInv' /\ KeepInv'
  BY ChainSteps, LockSteps, KeepSteps DEF SideInv
<1>4. SideInv /\ KeyInv /\ ChainInv /\ LockInv /\ KeepInv => (Room(wire) => SharedSessionDecrypts)
  BY KeptDecrypts DEF SideInv
<1> QED
  BY <1>1, <1>2, <1>3, <1>4, SessionInvariance, PTL DEF Spec
=============================================================================
