------------------------ MODULE GroupMessaging_proofs ------------------------
(***************************************************************************)
(* Proofs about GroupMessaging, for every set of devices and every number  *)
(* of calls and deliveries: GroupKeysFresh, ReachesMembers and             *)
(* ReplayNeedsRewind.                                                      *)
(***************************************************************************)
EXTENDS GroupMessaging, SequenceTheorems, TLAPS

Keys == [chain : Nat, iteration : Nat]
Preambles == {"none", "opk", "no_opk"}
Encs == [to : Devices, session : Nat, preamble : Preambles, nth : Nat]
Sends == [key : Keys, skdm : Keys, to : SUBSET Devices, encs : Seq(Encs),
          at : {"fanout", "failed", "sent"}]
Peers == [session : Nat, opened : SUBSET Nat, spent : SUBSET Nat, key : Keys]
Entries == [call : Nat, stop : {"session", "skdm", "key", "end"}, opened : BOOLEAN,
            ingested : BOOLEAN, decrypted : BOOLEAN]

\* A delivery that stored a key, and the iteration of that key.
Effective(entry) == entry.ingested \/ entry.decrypted
Left(entry) == IF entry.decrypted THEN entry.call ELSE entry.call - 1

\* The shape of the state.
Types ==
  /\ row \in Keys
  /\ sends \in Seq(Sends)
  /\ link \in [Devices -> [session : Nat, preamble : Preambles, next : Nat]]
  /\ fetching \subseteq Calls \X Devices
  /\ peer \in [Devices -> Peers]
  /\ log \in [Devices -> Seq(Entries)]

\* One chain, and the n-th call takes its n-th key: what is awaited, fails or
\* restarts between two calls gives no key back.
KeysInOrder ==
  /\ row = IF sends = <<>> THEN NoKey ELSE [chain |-> 1, iteration |-> Len(sends)]
  /\ \A c \in Calls :
       /\ sends[c].key = [chain |-> 1, iteration |-> c - 1]
       /\ sends[c].skdm = sends[c].key

\* The sender key reaches only the devices that the call was for.
Fanout ==
  /\ \A f \in fetching : f[2] \in sends[f[1]].to
  /\ \A c \in Calls : \A i \in DOMAIN sends[c].encs : sends[c].encs[i].to \in sends[c].to

\* A device is given our key, or one after it, by a call that named it.
Given(d, n) == \E c \in Calls : d \in sends[c].to /\ c <= n

\* The key that a device holds is what its last effective delivery left.
HeldKey ==
  \A d \in Devices :
    LET effective == {j \in DOMAIN log[d] : Effective(log[d][j])}
    IN  /\ peer[d].key # NoKey => peer[d].key.chain = 1 /\ Given(d, peer[d].key.iteration + 1)
        /\ \A j \in effective :
             (\A k \in effective : k <= j) =>
               peer[d].key = [chain |-> 1, iteration |-> Left(log[d][j])]

\* An SKDM that opens is the key of its own message, which then decrypts
\* unless the device stops before it.
Log ==
  \A d \in Devices : \A i \in DOMAIN log[d] :
    /\ log[d][i].call \in Calls
    /\ log[d][i].opened => log[d][i].decrypted \/ log[d][i].stop \in {"session", "skdm"}
    /\ log[d][i].decrypted => Given(d, log[d][i].call)

\* The chain is past every message decrypted so far, unless an SKDM has set it
\* back to that message or before it.
Passed ==
  \A d \in Devices : \A i \in DOMAIN log[d] :
    log[d][i].decrypted =>
      \/ peer[d].key.iteration >= log[d][i].call
      \/ \E k \in (i + 1)..Len(log[d]) : log[d][k].ingested /\ log[d][k].call <= log[d][i].call

\* ReachesMembers, in numbers of calls: the iteration of call c is c - 1.
Missed ==
  \A d \in Devices : \A i, j \in DOMAIN log[d] :
    LET last == /\ j < i /\ Effective(log[d][j])
                /\ \A k \in DOMAIN log[d] : k < i /\ Effective(log[d][k]) => k <= j
    IN  ~log[d][i].decrypted /\ ~log[d][i].opened /\ last =>
          \/ log[d][i].call <= Left(log[d][j])
          \/ log[d][i].call - 1 - Left(log[d][j]) > MaxJump

\* ReplayNeedsRewind, in numbers of calls.
Replayed ==
  \A d \in Devices : \A i, j \in DOMAIN log[d] :
    (i < j /\ log[d][i].call = log[d][j].call /\ log[d][i].decrypted /\ log[d][j].decrypted) =>
      \E k \in (i + 1)..j : log[d][k].ingested /\ log[d][k].call <= log[d][j].call

IInv ==
  Types /\ KeysInOrder /\ Fanout /\ HeldKey /\ Log /\ Passed /\ Missed /\ Replayed

-----------------------------------------------------------------------------
(* Every behaviour starts in the inductive invariant.                      *)
LEMMA InitIInv == Init => IInv
<1> SUFFICES ASSUME Init PROVE IInv
  OBVIOUS
<1>1. Len(sends) = 0 /\ Calls = {} /\ \A d \in Devices : DOMAIN log[d] = {}
  BY DEF Init, Calls
<1>2. Types
  BY <1>1 DEF Init, Types, Keys, NoKey, Preambles, Peers
<1>3. KeysInOrder /\ Fanout
  BY <1>1 DEF Init, KeysInOrder, Fanout
<1>4. HeldKey
  BY <1>1 DEF Init, HeldKey
<1>5. Log /\ Passed /\ Missed /\ Replayed
  BY <1>1 DEF Log, Passed, Missed, Replayed
<1> QED
  BY <1>2, <1>3, <1>4, <1>5 DEF IInv

(* A step of the sender: no call loses its key or its addressees, so what  *)
(* the devices have recorded still reads the same.                         *)
LEMMA SenderStep ==
  ASSUME IInv, UNCHANGED <<peer, log>>, Types', KeysInOrder', Fanout',
         Calls \subseteq Calls', \A c \in Calls : sends'[c].to = sends[c].to
  PROVE  IInv'
<1>1. \A d \in Devices : \A n : Given(d, n) => Given(d, n)'
  BY DEF Given
<1>2. HeldKey'
  BY <1>1 DEF IInv, HeldKey
<1>3. Log' /\ Passed'
  BY <1>1 DEF IInv, Log, Passed
<1>4. Missed' /\ Replayed'
  BY DEF IInv, Missed, Replayed
<1> QED
  BY <1>2, <1>3, <1>4 DEF IInv

(* The keys are taken and the advanced row is saved in one step.           *)
LEMMA SendGroupTextStep ==
  ASSUME IInv, SendGroupText
  PROVE  IInv'
<1>1. Types /\ KeysInOrder /\ Fanout
  BY DEF IInv
<1> DEFINE n == Len(sends)
<1>2. n \in Nat /\ OwnState = [chain |-> 1, iteration |-> n] /\ OwnState \in Keys
  BY <1>1 DEF Types, KeysInOrder, OwnState, NoKey, Keys
<1>3. row' = [chain |-> 1, iteration |-> n + 1]
  BY <1>2 DEF SendGroupText, Advanced, Step
<1>4. PICK to \in SUBSET Devices :
        sends' = Append(sends, [key |-> OwnState, skdm |-> OwnState,
                                to |-> to, encs |-> <<>>, at |-> "fanout"])
  BY DEF SendGroupText, Distribution
<1> DEFINE new == [key |-> OwnState, skdm |-> OwnState, to |-> to, encs |-> <<>>, at |-> "fanout"]
<1>5. new \in Sends /\ new.key = OwnState /\ new.skdm = OwnState /\ DOMAIN new.encs = {}
  BY <1>2 DEF Sends
<1> HIDE DEF new
<1>6. sends' = Append(sends, new)
  BY <1>4 DEF new
<1>7. /\ sends' \in Seq(Sends) /\ Len(sends') = n + 1 /\ sends'[n + 1] = new
      /\ \A c \in Calls : sends'[c] = sends[c]
      /\ Calls' = Calls \union {n + 1}
  BY <1>1, <1>5, <1>6 DEF Types, Calls
<1>8. row' \in Keys
  BY <1>2, <1>3 DEF Keys
<1>9. Types'
  BY <1>1, <1>7, <1>8 DEF Types, SendGroupText
<1>10. KeysInOrder'
  BY <1>1, <1>2, <1>3, <1>5, <1>7 DEF KeysInOrder
<1>11. \A f \in fetching : f[1] \in Calls
  BY <1>1 DEF Types
<1>12. Fanout'
  BY <1>1, <1>5, <1>7, <1>11 DEF Fanout, SendGroupText
<1> QED
  BY <1>7, <1>9, <1>10, <1>12, SenderStep DEF SendGroupText

(* A step that changes only how far one call has come.                     *)
LEMMA CallStep ==
  ASSUME IInv, NEW c \in Calls, UNCHANGED <<row, peer, log>>,
         NEW encs \in Seq(Encs), NEW at \in {"fanout", "failed", "sent"},
         sends' = [sends EXCEPT ![c] = [sends[c] EXCEPT !.encs = encs, !.at = at]],
         \A i \in DOMAIN encs : encs[i].to \in sends[c].to,
         link' \in [Devices -> [session : Nat, preamble : Preambles, next : Nat]],
         fetching' \subseteq Calls \X Devices,
         \A f \in fetching' : f[2] \in sends[f[1]].to
  PROVE  IInv'
<1>1. Types /\ KeysInOrder /\ Fanout
  BY DEF IInv
<1> DEFINE new == [sends[c] EXCEPT !.encs = encs, !.at = at]
<1>2. sends[c] \in Sends
  BY <1>1 DEF Types, Calls
<1>3. /\ new \in Sends /\ new.key = sends[c].key /\ new.skdm = sends[c].skdm
      /\ new.to = sends[c].to /\ new.encs = encs
  BY <1>2 DEF Sends
<1> HIDE DEF new
<1>4. sends' = [sends EXCEPT ![c] = new]
  BY DEF new
<1>5. /\ sends' \in Seq(Sends) /\ Len(sends') = Len(sends) /\ Calls' = Calls
      /\ sends'[c] = new /\ \A b \in Calls \ {c} : sends'[b] = sends[b]
  <2>1. sends \in Seq(Sends) /\ new \in Sends
    BY <1>1, <1>3 DEF Types
  <2>2. c \in 1..Len(sends)
    BY DEF Calls
  <2>3. /\ sends' \in Seq(Sends) /\ Len(sends') = Len(sends)
        /\ \A b \in 1..Len(sends) : sends'[b] = IF b = c THEN new ELSE sends[b]
    BY ONLY <1>4, <2>1, <2>2, ExceptSeq
  <2> QED
    BY <2>2, <2>3 DEF Calls
<1>6. \A b \in Calls : sends'[b].to = sends[b].to
  BY <1>3, <1>5
<1>7. Types'
  BY <1>1, <1>5 DEF Types
<1>8. KeysInOrder'
  <2>1. sends' = <<>> <=> sends = <<>>
    BY <1>1, <1>5 DEF Types, Calls
  <2> QED
    BY <1>1, <1>3, <1>5, <2>1 DEF KeysInOrder
<1>9. Fanout'
  BY <1>1, <1>3, <1>5, <1>6 DEF Fanout
<1> QED
  BY <1>5, <1>6, <1>7, <1>8, <1>9, SenderStep

(* The SKDM of call c is encrypted for one of its devices.                 *)
LEMMA WithEncStep ==
  ASSUME IInv, NEW c \in Calls, NEW d \in sends[c].to, UNCHANGED <<row, peer, log>>,
         NEW session \in [session : Nat, preamble : Preambles, next : Nat],
         sends' = WithEnc(c, d, session),
         link' \in [Devices -> [session : Nat, preamble : Preambles, next : Nat]],
         fetching' \subseteq fetching
  PROVE  IInv'
<1>1. Types /\ KeysInOrder /\ Fanout
  BY DEF IInv
<1>2. sends[c] \in Sends
  BY <1>1 DEF Types, Calls
<1> DEFINE e == [to |-> d, session |-> session.session, preamble |-> session.preamble,
                 nth |-> session.next]
<1>3. d \in Devices
  BY <1>2 DEF Sends
<1>4. e \in Encs /\ e.to = d
  BY <1>3 DEF Encs
<1> HIDE DEF e
<1> DEFINE encs == Append(sends[c].encs, e)
<1>5. sends[c].encs \in Seq(Encs) /\ sends[c].at \in {"fanout", "failed", "sent"}
  BY <1>2 DEF Sends
<1>6. encs \in Seq(Encs) /\ \A i \in DOMAIN encs : encs[i].to \in sends[c].to
  BY <1>1, <1>4, <1>5 DEF Fanout
<1>7. [sends[c] EXCEPT !.encs = encs] = [sends[c] EXCEPT !.encs = encs, !.at = sends[c].at]
  BY <1>2, <1>5, <1>6 DEF Sends
<1>8. sends' = [sends EXCEPT ![c] = [sends[c] EXCEPT !.encs = encs]]
  BY DEF WithEnc, e
<1> HIDE DEF encs
<1>9. sends' = [sends EXCEPT ![c] = [sends[c] EXCEPT !.encs = encs, !.at = sends[c].at]]
  BY <1>7, <1>8
<1>10. fetching' \subseteq Calls \X Devices /\ \A f \in fetching' : f[2] \in sends[f[1]].to
  BY <1>1 DEF Types, Fanout
<1> QED
  BY <1>5, <1>6, <1>9, <1>10, CallStep

LEMMA EncryptForStep ==
  ASSUME IInv, NEW c \in Calls, NEW d \in Devices, EncryptFor(c, d)
  PROVE  IInv'
<1>1. link \in [Devices -> [session : Nat, preamble : Preambles, next : Nat]]
  BY DEF IInv, Types
<1>2. link' \in [Devices -> [session : Nat, preamble : Preambles, next : Nat]]
  BY <1>1 DEF EncryptFor
<1>3. d \in sends[c].to
  BY DEF EncryptFor, Turn
<1> QED
  BY <1>1, <1>2, <1>3, WithEncStep DEF EncryptFor

LEMMA EstablishStep ==
  ASSUME IInv, NEW c \in Calls, NEW d \in Devices, Establish(c, d)
  PROVE  IInv'
<1>1. link \in [Devices -> [session : Nat, preamble : Preambles, next : Nat]] /\ c \in Nat
  BY DEF IInv, Types, Calls
<1>2. PICK preamble \in {"opk", "no_opk"} :
        /\ sends' = WithEnc(c, d, [session |-> c, preamble |-> preamble, next |-> 0])
        /\ link' = [link EXCEPT ![d] = [[session |-> c, preamble |-> preamble, next |-> 0]
                                          EXCEPT !.next = 1]]
  BY DEF Establish
<1>3. /\ [session |-> c, preamble |-> preamble, next |-> 0] \in
           [session : Nat, preamble : Preambles, next : Nat]
      /\ link' \in [Devices -> [session : Nat, preamble : Preambles, next : Nat]]
  BY <1>1, <1>2 DEF Preambles
<1>4. d \in sends[c].to
  BY DEF Establish, IInv, Fanout
<1>5. fetching' \subseteq fetching /\ UNCHANGED <<row, peer, log>>
  BY DEF Establish
<1> QED
  BY <1>2, <1>3, <1>4, <1>5, WithEncStep

LEMMA FetchBundleStep ==
  ASSUME IInv, NEW c \in Calls, NEW d \in Devices, FetchBundle(c, d)
  PROVE  IInv'
<1>1. d \in sends[c].to /\ fetching' = fetching \union {<<c, d>>}
  BY DEF FetchBundle, Turn
<1>2. UNCHANGED <<row, sends, link, peer, log>> /\ Calls' = Calls
  BY DEF FetchBundle, Calls
<1>3. Types'
  BY <1>1, <1>2 DEF IInv, Types
<1>4. KeysInOrder' /\ Fanout'
  BY <1>1, <1>2 DEF IInv, KeysInOrder, Fanout
<1> QED
  BY <1>2, <1>3, <1>4, SenderStep

(* Call c ends.                                                            *)
LEMMA EndStep ==
  ASSUME IInv, NEW c \in Calls, Transmit(c) \/ CallFails(c)
  PROVE  IInv'
<1>1. PICK at \in {"failed", "sent"} : sends' = [sends EXCEPT ![c].at = at]
  BY DEF Transmit, CallFails
<1>2. UNCHANGED <<row, link, peer, log>> /\ fetching' \subseteq fetching
  BY DEF Transmit, CallFails
<1>3. sends[c] \in Sends
  BY DEF IInv, Types, Calls
<1>4. sends[c].encs \in Seq(Encs)
  BY <1>3 DEF Sends
<1>5. sends' = [sends EXCEPT ![c] = [sends[c] EXCEPT !.encs = sends[c].encs, !.at = at]]
  BY <1>1, <1>3 DEF Sends
<1>6. \A i \in DOMAIN sends[c].encs : sends[c].encs[i].to \in sends[c].to
  BY DEF IInv, Fanout
<1>7. /\ link' \in [Devices -> [session : Nat, preamble : Preambles, next : Nat]]
      /\ fetching' \subseteq Calls \X Devices /\ \A f \in fetching' : f[2] \in sends[f[1]].to
  BY <1>2 DEF IInv, Types, Fanout
<1> QED
  BY <1>2, <1>4, <1>5, <1>6, <1>7, CallStep

LEMMA HearFromStep ==
  ASSUME IInv, NEW d \in Devices, HearFrom(d)
  PROVE  IInv'
<1>1. UNCHANGED <<row, sends, fetching, peer, log>> /\ Calls' = Calls
  BY DEF HearFrom, Calls
<1>2. link' \in [Devices -> [session : Nat, preamble : Preambles, next : Nat]]
  BY DEF HearFrom, IInv, Types, Preambles
<1>3. Types' /\ KeysInOrder' /\ Fanout'
  BY <1>1, <1>2 DEF IInv, Types, KeysInOrder, Fanout
<1> QED
  BY <1>1, <1>3, SenderStep

LEMMA RestartStep ==
  ASSUME IInv, Restart
  PROVE  IInv'
<1>1. Types /\ KeysInOrder /\ Fanout
  BY DEF IInv
<1> DEFINE Ended(c) == [sends[c] EXCEPT !.at = "failed"]
<1>2. \A c \in Calls : sends[c] \in Sends
  BY <1>1 DEF Types, Calls
<1>3. \A c \in Calls : /\ Ended(c) \in Sends /\ Ended(c).key = sends[c].key
                       /\ Ended(c).skdm = sends[c].skdm /\ Ended(c).to = sends[c].to
                       /\ Ended(c).encs = sends[c].encs
  BY <1>2 DEF Sends
<1> HIDE DEF Ended
<1>4. sends' = [c \in Calls |-> IF sends[c].at = "fanout" THEN Ended(c) ELSE sends[c]]
  BY DEF Restart, Ended
<1>5. sends' \in Seq(Sends) /\ Len(sends') = Len(sends) /\ Calls' = Calls
  BY <1>1, <1>2, <1>3, <1>4 DEF Types, Calls
<1>6. \A c \in Calls : /\ sends'[c].key = sends[c].key /\ sends'[c].skdm = sends[c].skdm
                       /\ sends'[c].to = sends[c].to /\ sends'[c].encs = sends[c].encs
  BY <1>3, <1>4
<1>7. link' \in [Devices -> [session : Nat, preamble : Preambles, next : Nat]]
  BY <1>1 DEF Restart, Types, Preambles
<1>8. UNCHANGED <<row, peer, log>> /\ fetching' = {}
  BY DEF Restart
<1>9. Types'
  BY <1>1, <1>5, <1>7, <1>8 DEF Types
<1>10. KeysInOrder'
  <2>1. sends' = <<>> <=> sends = <<>>
    BY <1>1, <1>5 DEF Types
  <2> QED
    BY <1>1, <1>5, <1>6, <1>8, <2>1 DEF KeysInOrder
<1>11. Fanout'
  BY <1>1, <1>5, <1>6, <1>8 DEF Fanout
<1> QED
  BY <1>5, <1>6, <1>8, <1>9, <1>10, <1>11, SenderStep

-----------------------------------------------------------------------------
(* What a delivery does: an SKDM that opens makes its message decrypt      *)
(* unless the device stops before that; only a key that is stored moves    *)
(* the chain.                                                              *)
DeliveryIs(d, c, entry) ==
  /\ log' = [log EXCEPT ![d] = Append(log[d], entry)]
  /\ entry.call = c
  /\ entry.opened =>
       (entry.decrypted \/ entry.stop \in {"session", "skdm"}) /\ d \in sends[c].to
  /\ entry.ingested => entry.opened
  /\ peer' \in [Devices -> Peers]
  /\ \A b \in Devices \ {d} : peer'[b] = peer[b]
  /\ Effective(entry) => peer'[d].key = [chain |-> 1, iteration |-> Left(entry)]
  /\ ~Effective(entry) => peer'[d].key = peer[d].key
  /\ entry.decrypted /\ ~entry.ingested => peer[d].key # NoKey /\ peer[d].key.iteration <= c - 1
  /\ ~entry.decrypted /\ ~entry.opened =>
       \/ peer[d].key = NoKey \/ peer[d].key.chain # 1
       \/ c - 1 < peer[d].key.iteration
       \/ c - 1 - peer[d].key.iteration > MaxJump

LEMMA DeliverEffect ==
  ASSUME IInv, NEW c \in Calls, NEW d \in Devices, Deliver(d, c)
  PROVE  \E entry \in Entries : DeliveryIs(d, c, entry)
<1>1. Types /\ KeysInOrder /\ Fanout
  BY DEF IInv
<1>2. /\ c \in Nat /\ c >= 1 /\ peer[d] \in Peers /\ sends[c] \in Sends
      /\ sends[c].key = [chain |-> 1, iteration |-> c - 1] /\ sends[c].skdm = sends[c].key
  BY <1>1 DEF Types, KeysInOrder, Calls
<1>a. PICK openings \in SUBSET EncsFor(c, d) : Handle(d, c, openings)
  BY DEF Deliver
<1> DEFINE chosen  == CHOOSE e \in openings : TRUE
           opened  == openings # {}
           session == IF opened THEN Opened(peer[d], chosen) ELSE peer[d]
           before  == IF opened THEN Ingested(session, sends[c].skdm) ELSE peer[d]
           decrypts == CanDecrypt(before, sends[c].key)
           after == IF decrypts THEN [before EXCEPT !.key = Step(sends[c].key)] ELSE before
           put(stop) == CASE stop = "session" -> session [] stop = "skdm" -> before
                          [] OTHER -> after
           item(stop) == [call |-> c, stop |-> stop, opened |-> opened,
                          ingested |-> opened /\ stop # "session",
                          decrypted |-> decrypts /\ stop \in {"key", "end"}]
<1>3. opened => chosen \in Encs /\ d \in sends[c].to
  <2>1. opened => chosen \in EncsFor(c, d)
    OBVIOUS
  <2>2. sends[c].encs \in Seq(Encs) /\ \A i \in DOMAIN sends[c].encs : sends[c].encs[i].to \in sends[c].to
    BY <1>1, <1>2 DEF Sends, Fanout
  <2> QED
    BY ONLY <2>1, <2>2 DEF EncsFor
<1>4. PICK stop \in {"session", "skdm", "key", "end"} :
        /\ peer' = [peer EXCEPT ![d] = put(stop)]
        /\ log' = [log EXCEPT ![d] = Append(log[d], item(stop))]
        /\ stop \in {"session", "skdm"} => opened
        /\ stop = "key" => decrypts
  BY <1>a DEF Handle
<1> HIDE DEF chosen
<1>5. opened => session \in Peers /\ session.key = peer[d].key
  BY <1>2, <1>3 DEF Opened, Encs, Peers
<1>6. opened => before \in Peers /\ before.key = sends[c].key
  <2> HIDE DEF session
  <2> QED
    BY <1>2, <1>5 DEF Ingested, Processed, Keys, Peers
<1>7. before \in Peers /\ session \in Peers /\ (~opened => session = peer[d])
  BY <1>2, <1>5, <1>6
<1>8. ~opened => before = peer[d]
  OBVIOUS
<1>9. MaxJump \in Nat /\ sends[c].key # NoKey
  BY <1>2, GroupAssumption DEF NoKey
<1> HIDE DEF before, opened, session
<1>10. opened => decrypts
  BY <1>2, <1>6, <1>9 DEF CanDecrypt
<1>11. decrypts \in BOOLEAN /\ opened \in BOOLEAN
  BY DEF CanDecrypt, opened
<1>12. Step(sends[c].key) = [chain |-> 1, iteration |-> c] /\ Step(sends[c].key) \in Keys
  BY <1>2 DEF Step, Keys
<1>13. /\ after \in Peers
       /\ decrypts => after.key = [chain |-> 1, iteration |-> c]
       /\ ~decrypts => after.key = before.key
  BY <1>7, <1>12 DEF Peers
<1>14. /\ decrypts => before.key # NoKey /\ before.key.iteration <= c - 1
       /\ ~decrypts => \/ before.key = NoKey \/ before.key.chain # 1
                       \/ c - 1 < before.key.iteration
                       \/ c - 1 - before.key.iteration > MaxJump
  BY <1>2, <1>7, <1>9 DEF CanDecrypt, Keys, Peers
<1> HIDE DEF decrypts, after
<1> DEFINE entry == item(stop)
<1>16. /\ entry \in Entries /\ entry.call = c /\ entry.stop = stop
       /\ entry.opened <=> opened
       /\ entry.ingested <=> opened /\ stop # "session"
       /\ entry.decrypted <=> decrypts /\ stop \in {"key", "end"}
  BY <1>2, <1>11 DEF Entries
<1>17. log' = [log EXCEPT ![d] = Append(log[d], entry)]
  BY <1>4
<1> HIDE DEF entry
<1>15. PICK left : left = put(stop)
  OBVIOUS
<1>b. /\ left \in Peers
      /\ stop = "session" => left = session
      /\ stop = "skdm" => left = before
      /\ stop \in {"key", "end"} => left = after
  BY <1>7, <1>13, <1>15
<1>18. /\ peer' \in [Devices -> Peers] /\ peer'[d] = left
       /\ \A b \in Devices \ {d} : peer'[b] = peer[b]
  BY <1>1, <1>4, <1>15, <1>b DEF Types
<1>c. Effective(entry) => left.key = [chain |-> 1, iteration |-> Left(entry)]
  <2>1. CASE entry.decrypted
    BY <1>b, <1>13, <1>16, <2>1 DEF Left
  <2>2. CASE entry.ingested /\ ~entry.decrypted
    BY <1>2, <1>6, <1>10, <1>b, <1>16, <2>2 DEF Left
  <2> QED
    BY <2>1, <2>2 DEF Effective
<1>d. ~Effective(entry) => left.key = peer[d].key
  <2>1. CASE stop = "session"
    BY <1>4, <1>5, <1>b, <2>1
  <2>2. CASE stop # "session" /\ ~Effective(entry)
    BY <1>4, <1>8, <1>b, <1>13, <1>16, <2>2 DEF Effective
  <2> QED
    BY <2>1, <2>2
<1>e. entry.opened => entry.decrypted \/ entry.stop \in {"session", "skdm"}
  BY <1>10, <1>16
<1>f. entry.decrypted /\ ~entry.ingested => peer[d].key # NoKey /\ peer[d].key.iteration <= c - 1
  BY <1>8, <1>14, <1>16
<1>g. ~entry.decrypted /\ ~entry.opened =>
         \/ peer[d].key = NoKey \/ peer[d].key.chain # 1
         \/ c - 1 < peer[d].key.iteration
         \/ c - 1 - peer[d].key.iteration > MaxJump
  BY <1>4, <1>8, <1>14, <1>16
<1>h. DeliveryIs(d, c, entry)
  BY <1>3, <1>16, <1>17, <1>18, <1>c, <1>d, <1>e, <1>f, <1>g DEF DeliveryIs
<1> QED
  BY <1>16, <1>h

(* A delivery keeps the inductive invariant.                               *)
LEMMA DeliverStep ==
  ASSUME IInv, NEW c \in Calls, NEW d \in Devices, Deliver(d, c)
  PROVE  IInv'
<1>1. Types /\ KeysInOrder /\ Fanout /\ HeldKey /\ Log /\ Passed /\ Missed /\ Replayed
  BY DEF IInv
<1>2. UNCHANGED <<row, sends, link, fetching>> /\ Calls' = Calls
  BY DEF Deliver, Calls
<1>0. PICK entry \in Entries : DeliveryIs(d, c, entry)
  BY DeliverEffect
<1>3. /\ log' = [log EXCEPT ![d] = Append(log[d], entry)]
      /\ entry.call = c
      /\ entry.opened =>
           (entry.decrypted \/ entry.stop \in {"session", "skdm"}) /\ d \in sends[c].to
      /\ entry.ingested => entry.opened
      /\ peer' \in [Devices -> Peers]
      /\ \A b \in Devices \ {d} : peer'[b] = peer[b]
      /\ Effective(entry) => peer'[d].key = [chain |-> 1, iteration |-> Left(entry)]
      /\ ~Effective(entry) => peer'[d].key = peer[d].key
      /\ entry.decrypted /\ ~entry.ingested =>
           peer[d].key # NoKey /\ peer[d].key.iteration <= c - 1
      /\ ~entry.decrypted /\ ~entry.opened =>
           \/ peer[d].key = NoKey \/ peer[d].key.chain # 1
           \/ c - 1 < peer[d].key.iteration
           \/ c - 1 - peer[d].key.iteration > MaxJump
  BY <1>0 DEF DeliveryIs
<1>4. log \in [Devices -> Seq(Entries)] /\ peer \in [Devices -> Peers]
  BY <1>1 DEF Types
<1>5. PICK n \in Nat : n = Len(log[d]) + 1
  BY <1>4
<1>6. /\ log' \in [Devices -> Seq(Entries)] /\ n >= 1
      /\ \A b \in Devices \ {d} : log'[b] = log[b]
      /\ Len(log'[d]) = n /\ log'[d][n] = entry
      /\ DOMAIN log[d] = 1..(n - 1) /\ DOMAIN log'[d] = 1..n
      /\ \A i \in 1..(n - 1) : log'[d][i] = log[d][i]
  BY <1>3, <1>4, <1>5
<1>7. c \in Nat /\ c >= 1
  BY DEF Calls, IInv, Types
<1>8. /\ peer[d].key \in Keys /\ peer'[d].key \in Keys
      /\ \A k \in Keys : k.iteration \in Nat
  BY <1>3, <1>4 DEF Peers, Keys
<1>9. \A i \in 1..(n - 1) : log[d][i] \in Entries
  BY <1>4, <1>6
<1>10. \A i \in 1..(n - 1) : log[d][i].call \in Nat
  BY <1>9 DEF Entries
<1>11. Types' /\ KeysInOrder' /\ Fanout'
  BY <1>1, <1>2, <1>3, <1>6 DEF Types, KeysInOrder, Fanout
<1>12. \A b \in Devices : \A k : Given(b, k)' <=> Given(b, k)
  BY <1>2 DEF Given
<1>13. Effective(entry) => Given(d, c)
  <2>1. CASE entry.opened
    BY <1>3, <1>7, <2>1 DEF Given
  <2>2. CASE entry.decrypted /\ peer[d].key # NoKey /\ peer[d].key.iteration <= c - 1
    <3>1. Given(d, peer[d].key.iteration + 1) /\ peer[d].key.iteration \in Nat
      BY <1>1, <1>8, <2>2 DEF HeldKey
    <3>2. \A a \in Calls : a \in Nat
      BY DEF Calls, IInv, Types
    <3> QED
      BY <1>7, <2>2, <3>1, <3>2 DEF Given
  <2> QED
    BY <1>3, <2>1, <2>2 DEF Effective
<1>14. HeldKey'
  <2> SUFFICES ASSUME NEW b \in Devices
               PROVE  LET effective == {j \in DOMAIN log'[b] : Effective(log'[b][j])}
                      IN  /\ peer'[b].key # NoKey =>
                               peer'[b].key.chain = 1 /\ Given(b, peer'[b].key.iteration + 1)
                          /\ \A j \in effective : (\A k \in effective : k <= j) =>
                               peer'[b].key = [chain |-> 1, iteration |-> Left(log'[b][j])]
    BY <1>12 DEF HeldKey, Effective, Left
  <2>1. CASE b # d
    <3>1. peer'[b] = peer[b] /\ log'[b] = log[b]
      BY <1>3, <1>6, <2>1
    <3>2. HeldKey
      BY <1>1
    <3> QED
      BY ONLY <3>1, <3>2, b \in Devices DEF HeldKey
  <2>2. CASE b = d /\ Effective(entry)
    <3>1. peer'[d].key = [chain |-> 1, iteration |-> Left(entry)] /\ Left(entry) \in {c - 1, c}
      BY <1>3, <2>2 DEF Left
    <3>2. Given(d, Left(entry) + 1)
      <4>1. \A a \in Calls : a \in Nat
        BY DEF Calls, IInv, Types
      <4>2. PICK a \in Calls : d \in sends[a].to /\ a <= c
        BY <1>13, <2>2 DEF Given
      <4>3. a <= Left(entry) + 1
        BY ONLY <1>7, <3>1, <4>1, <4>2, a \in Calls
      <4> QED
        BY <4>2, <4>3 DEF Given
    <3>3. ASSUME NEW j \in DOMAIN log'[d],
                 \A k \in {i \in DOMAIN log'[d] : Effective(log'[d][i])} : k <= j
          PROVE  j = n
      BY <1>6, <2>2, <3>3
    <3> QED
      BY <1>3, <1>6, <2>2, <3>1, <3>2, <3>3
  <2>3. CASE b = d /\ ~Effective(entry)
    <3>1. {j \in DOMAIN log'[d] : Effective(log'[d][j])} = {j \in DOMAIN log[d] : Effective(log[d][j])}
      BY <1>6, <2>3
    <3>2. \A j \in {i \in DOMAIN log[d] : Effective(log[d][i])} : log'[d][j] = log[d][j]
      BY <1>6
    <3>3. peer'[d].key = peer[d].key
      BY <1>3, <2>3
    <3> QED
      BY <1>1, <2>3, <3>1, <3>2, <3>3 DEF HeldKey
  <2> QED
    BY <2>1, <2>2, <2>3
<1>15. Log'
  <2> SUFFICES ASSUME NEW b \in Devices, NEW i \in DOMAIN log'[b]
               PROVE  /\ log'[b][i].call \in Calls
                      /\ log'[b][i].opened =>
                           log'[b][i].decrypted \/ log'[b][i].stop \in {"session", "skdm"}
                      /\ log'[b][i].decrypted => Given(b, log'[b][i].call)
    BY <1>2, <1>12 DEF Log
  <2>1. CASE b # d
    BY <1>1, <1>6, <2>1 DEF Log
  <2>2. CASE b = d /\ i = n
    BY <1>3, <1>6, <1>13, <2>2 DEF Effective
  <2>3. CASE b = d /\ i # n
    <3>1. i \in DOMAIN log[d] /\ log'[d][i] = log[d][i]
      BY <1>6, <2>3
    <3> QED
      BY <1>1, <2>3, <3>1 DEF Log
  <2> QED
    BY <2>1, <2>2, <2>3
<1>16. Passed'
  <2> SUFFICES ASSUME NEW b \in Devices, NEW i \in DOMAIN log'[b], log'[b][i].decrypted
               PROVE  \/ peer'[b].key.iteration >= log'[b][i].call
                      \/ \E k \in (i + 1)..Len(log'[b]) :
                           log'[b][k].ingested /\ log'[b][k].call <= log'[b][i].call
    BY DEF Passed
  <2>1. CASE b # d
    BY <1>1, <1>3, <1>6, <2>1 DEF Passed
  <2>2. CASE b = d /\ i = n
    BY <1>3, <1>6, <1>7, <2>2 DEF Effective, Left
  <2>3. CASE b = d /\ i # n
    <3>1. i \in 1..(n - 1) /\ i \in DOMAIN log[d] /\ log'[d][i] = log[d][i]
      BY <1>6, <2>3
    <3>2. CASE entry.ingested /\ c <= log[d][i].call
      BY <1>3, <1>6, <2>3, <3>1, <3>2
    <3>3. CASE entry.ingested /\ c > log[d][i].call
      <4>1. peer'[d].key.iteration \in {c - 1, c}
        BY <1>3, <3>3 DEF Effective, Left
      <4> QED
        BY <1>7, <1>10, <2>3, <3>1, <3>3, <4>1
    <3>4. CASE ~entry.ingested
      <4>1. peer'[d].key.iteration >= peer[d].key.iteration
        BY <1>3, <1>7, <1>8, <3>4 DEF Effective, Left
      <4>2. CASE peer[d].key.iteration >= log[d][i].call
        BY <1>8, <1>10, <2>3, <3>1, <4>1, <4>2
      <4>3. ASSUME NEW k \in (i + 1)..Len(log[d]),
                   log[d][k].ingested /\ log[d][k].call <= log[d][i].call
            PROVE  \E l \in (i + 1)..Len(log'[d]) :
                     log'[d][l].ingested /\ log'[d][l].call <= log'[d][i].call
        <5>1. k \in 1..(n - 1) /\ k \in (i + 1)..n
          BY <1>5, <3>1
        <5> QED
          BY <1>6, <3>1, <4>3, <5>1
      <4> QED
        BY <1>1, <2>3, <3>1, <4>2, <4>3 DEF Passed
    <3> QED
      BY <1>7, <1>10, <3>1, <3>2, <3>3, <3>4
  <2> QED
    BY <2>1, <2>2, <2>3
<1>17. Missed'
  <2> SUFFICES ASSUME NEW b \in Devices, NEW i \in DOMAIN log'[b], NEW j \in DOMAIN log'[b],
                      ~log'[b][i].decrypted, ~log'[b][i].opened, j < i, Effective(log'[b][j]),
                      \A k \in DOMAIN log'[b] : k < i /\ Effective(log'[b][k]) => k <= j
               PROVE  \/ log'[b][i].call <= Left(log'[b][j])
                      \/ log'[b][i].call - 1 - Left(log'[b][j]) > MaxJump
    BY DEF Missed, Effective, Left
  <2>1. CASE b # d
    BY <1>1, <1>6, <2>1 DEF Missed
  <2>2. CASE b = d /\ i # n
    <3>1. /\ i \in DOMAIN log[d] /\ log'[d][i] = log[d][i]
          /\ j \in DOMAIN log[d] /\ log'[d][j] = log[d][j]
      BY <1>6, <2>2
    <3>2. \A k \in DOMAIN log[d] : k < i /\ Effective(log[d][k]) => k <= j
      BY <1>6, <2>2
    <3> QED
      BY <1>1, <2>2, <3>1, <3>2 DEF Missed
  <2>3. CASE b = d /\ i = n
    <3>1. /\ j \in 1..(n - 1) /\ j \in DOMAIN log[d] /\ log'[d][j] = log[d][j]
          /\ log'[d][n] = entry /\ ~entry.decrypted /\ ~entry.opened
      BY <1>6, <2>3
    <3>2. \A k \in DOMAIN log[d] : Effective(log[d][k]) => k <= j
      BY <1>6, <2>3
    <3>3. peer[d].key = [chain |-> 1, iteration |-> Left(log[d][j])]
      BY <1>1, <2>3, <3>1, <3>2 DEF HeldKey
    <3>4. /\ peer[d].key # NoKey /\ peer[d].key.chain = 1
          /\ peer[d].key.iteration = Left(log[d][j]) /\ Left(log[d][j]) \in Int
      BY <1>10, <3>1, <3>3 DEF NoKey, Left
    <3>5. \/ c - 1 < Left(log[d][j])
          \/ c - 1 - Left(log[d][j]) > MaxJump
      BY <1>3, <3>1, <3>4
    <3>6. MaxJump \in Nat
      BY GroupAssumption
    <3>7. entry.call = c
      BY <1>3
    <3>8. log'[b][i].call = c /\ Left(log'[b][j]) = Left(log[d][j])
      BY ONLY <2>3, <3>1, <3>7, Zenon
    <3> QED
      BY ONLY <1>7, <3>4, <3>5, <3>6, <3>8
  <2> QED
    BY <2>1, <2>2, <2>3
<1>18. Replayed'
  <2> SUFFICES ASSUME NEW b \in Devices, NEW i \in DOMAIN log'[b], NEW j \in DOMAIN log'[b],
                      i < j, log'[b][i].call = log'[b][j].call,
                      log'[b][i].decrypted, log'[b][j].decrypted
               PROVE  \E k \in (i + 1)..j :
                        log'[b][k].ingested /\ log'[b][k].call <= log'[b][j].call
    BY DEF Replayed
  <2>1. CASE b # d
    <3>1. log'[b] = log[b]
      BY <1>6, <2>1
    <3> QED
      BY <1>1, <3>1 DEF Replayed
  <2>2. CASE b = d /\ j # n
    <3>1. /\ i \in DOMAIN log[d] /\ i \in Nat /\ i >= 1 /\ log'[d][i] = log[d][i]
          /\ j \in DOMAIN log[d] /\ j \in Nat /\ j <= n - 1 /\ log'[d][j] = log[d][j]
      BY <1>6, <2>2
    <3>2. PICK k \in (i + 1)..j : log[d][k].ingested /\ log[d][k].call <= log[d][j].call
      BY <1>1, <2>2, <3>1 DEF Replayed
    <3>3. log'[d][k] = log[d][k]
      BY <1>6, <3>1
    <3> QED
      BY <2>2, <3>1, <3>2, <3>3
  <2>3. CASE b = d /\ j = n
    <3>1. /\ i \in 1..(n - 1) /\ i \in DOMAIN log[d] /\ log'[d][i] = log[d][i]
          /\ log'[d][n] = entry /\ log[d][i].call = c
          /\ log[d][i].decrypted /\ entry.decrypted
      BY <1>3, <1>6, <2>3
    <3>2. CASE entry.ingested
      <4>1. n \in (i + 1)..n
        BY <3>1
      <4> QED
        BY <1>3, <1>7, <2>3, <3>1, <3>2, <4>1
    <3>3. CASE ~entry.ingested
      <4>1. ~(peer[d].key.iteration >= c)
        BY <1>3, <1>7, <1>8, <3>1, <3>3
      <4>2. PICK k \in (i + 1)..Len(log[d]) : log[d][k].ingested /\ log[d][k].call <= c
        BY <1>1, <3>1, <4>1 DEF Passed
      <4>3. k \in 1..(n - 1) /\ k \in (i + 1)..n
        BY <1>5, <3>1
      <4>4. log'[d][k] = log[d][k]
        BY <1>6, <4>3
      <4>5. log'[b][j].call = c
        <5>1. entry.call = c
          BY <1>3
        <5> QED
          BY ONLY <2>3, <3>1, <5>1, Zenon
      <4>6. k \in (i + 1)..j /\ log'[b][k].ingested /\ log'[b][k].call <= log'[b][j].call
        BY ONLY <2>3, <4>2, <4>3, <4>4, <4>5, Zenon
      <4> QED
        BY ONLY <4>6, Zenon
    <3> QED
      BY <3>2, <3>3
  <2> QED
    BY <2>1, <2>2, <2>3
<1> QED
  BY <1>11, <1>14, <1>15, <1>16, <1>17, <1>18 DEF IInv

(* Every step keeps the inductive invariant.                               *)
LEMMA NextIInv == IInv /\ [Next]_vars => IInv'
<1> SUFFICES ASSUME IInv, [Next]_vars PROVE IInv'
  OBVIOUS
<1>1. CASE UNCHANGED vars
  <2>1. UNCHANGED <<row, sends, link, fetching, peer, log>> /\ Calls' = Calls
    BY <1>1 DEF vars, Calls
  <2>2. Types' /\ KeysInOrder' /\ Fanout'
    BY <2>1 DEF IInv, Types, KeysInOrder, Fanout
  <2> QED
    BY <2>1, <2>2, SenderStep
<1> QED
  BY <1>1, SendGroupTextStep, RestartStep, EndStep, EncryptForStep, FetchBundleStep, EstablishStep,
     DeliverStep, HearFromStep DEF Next

LEMMA Invariance == Spec => []IInv
BY InitIInv, NextIInv, PTL DEF Spec

(* The iterations by which the properties speak of calls.                  *)
LEMMA Iterations ==
  ASSUME IInv
  PROVE  \A c \in Calls : c \in Nat /\ Iteration(c) = c - 1
<1> SUFFICES ASSUME NEW c \in Calls PROVE c \in Nat /\ Iteration(c) = c - 1
  OBVIOUS
<1>1. c \in Nat
  BY DEF IInv, Types, Calls
<1>2. sends[c].key = [chain |-> 1, iteration |-> c - 1]
  BY DEF IInv, KeysInOrder
<1> QED
  BY ONLY <1>1, <1>2 DEF Iteration

(***************************************************************************)
(* No two calls of send_group_text use one chain key, and no device reads  *)
(* a message sent before the first call that named it: the row is advanced *)
(* and saved before the call first awaits, so its calls, failures and      *)
(* restarts take the keys of one chain in turn.                            *)
(***************************************************************************)
THEOREM GroupKeysFreshHolds == Spec => []GroupKeysFresh
<1>1. IInv => GroupKeysFresh
  <2> SUFFICES ASSUME IInv PROVE GroupKeysFresh
    OBVIOUS
  <2>1. \A c1, c2 \in Calls : sends[c1].key = sends[c2].key => c1 = c2
    BY Iterations DEF Iteration
  <2>2. ASSUME NEW d \in Devices, NEW i \in DOMAIN log[d], Shown(log[d][i])
        PROVE  \E c \in Calls : d \in sends[c].to /\ Iteration(c) <= Iteration(log[d][i].call)
    <3>1. log[d][i].call \in Calls /\ Given(d, log[d][i].call)
      BY <2>2 DEF IInv, Log, Shown
    <3>2. PICK c \in Calls : d \in sends[c].to /\ c <= log[d][i].call
      BY <3>1 DEF Given
    <3> QED
      BY <3>1, <3>2, Iterations
  <2> QED
    BY <2>1, <2>2 DEF GroupKeysFresh
<1> QED
  BY <1>1, Invariance, PTL

(***************************************************************************)
(* group_decrypt fails only for the reasons ReachesMembers names, however  *)
(* late, out of order or often the server delivers.                        *)
(***************************************************************************)
THEOREM ReachesMembersHolds == Spec => []ReachesMembers
<1>1. IInv => ReachesMembers
  <2> SUFFICES ASSUME IInv, NEW d \in Devices, NEW i \in DOMAIN log[d], ~log[d][i].decrypted,
                      ~(log[d][i].opened /\ log[d][i].stop \in {"session", "skdm"})
               PROVE  LET effective == {j \in 1..(i - 1) : log[d][j].ingested \/ log[d][j].decrypted}
                          stored(j) == Iteration(log[d][j].call)
                                         + IF log[d][j].decrypted THEN 1 ELSE 0
                          gap(j) == Iteration(log[d][i].call) - stored(j)
                      IN  /\ ~log[d][i].opened
                          /\ \A j \in effective :
                               (\A k \in effective : k <= j) => (gap(j) < 0 \/ gap(j) > MaxJump)
    BY DEF ReachesMembers
  <2> DEFINE effective == {j \in 1..(i - 1) : log[d][j].ingested \/ log[d][j].decrypted}
  <2>1. Log /\ Missed /\ DOMAIN log[d] = 1..Len(log[d]) /\ Len(log[d]) \in Nat
    BY DEF IInv, Types
  <2>2. ~log[d][i].opened
    BY <2>1 DEF Log
  <2>3. ASSUME NEW j \in effective, \A k \in effective : k <= j
        PROVE  \/ log[d][i].call <= Left(log[d][j])
               \/ log[d][i].call - 1 - Left(log[d][j]) > MaxJump
    <3>1. j \in DOMAIN log[d] /\ j < i /\ Effective(log[d][j])
      BY <2>1 DEF Effective
    <3>2. \A k \in DOMAIN log[d] : k < i /\ Effective(log[d][k]) => k \in effective
      BY <2>1 DEF Effective
    <3>3. \A k \in DOMAIN log[d] : k < i /\ Effective(log[d][k]) => k <= j
      BY <2>3, <3>2
    <3> QED
      BY <2>1, <2>2, <3>1, <3>3 DEF Missed
  <2>4. \A j \in effective : log[d][j].call \in Calls
    BY <2>1 DEF Log
  <2>5. log[d][i].call \in Calls /\ MaxJump \in Nat
    BY <2>1, GroupAssumption DEF Log
  <2>6. ASSUME NEW j \in effective, \A k \in effective : k <= j
        PROVE  LET stored == Iteration(log[d][j].call) + IF log[d][j].decrypted THEN 1 ELSE 0
                   gap == Iteration(log[d][i].call) - stored
               IN  gap < 0 \/ gap > MaxJump
    <3>1. log[d][j].call \in Calls
      BY <2>4
    <3>2. PICK x, y \in Nat : x = log[d][i].call /\ y = log[d][j].call
      BY <2>5, <3>1, Iterations
    <3>3. Iteration(log[d][i].call) = x - 1 /\ Iteration(log[d][j].call) = y - 1
      BY <2>5, <3>1, <3>2, Iterations
    <3>4. x <= Left(log[d][j]) \/ x - 1 - Left(log[d][j]) > MaxJump
      BY <2>3, <2>6, <3>2
    <3>5. Left(log[d][j]) = IF log[d][j].decrypted THEN y ELSE y - 1
      BY <3>2 DEF Left
    <3> QED
      BY ONLY <2>5, <3>2, <3>3, <3>4, <3>5
  <2> QED
    BY <2>2, <2>6
<1> QED
  BY <1>1, Invariance, PTL

(***************************************************************************)
(* A message is shown twice only after an SKDM has set the chain back      *)
(* (process_distribution_message stores the key it carries unconditionally)*)
(***************************************************************************)
THEOREM ReplayNeedsRewindHolds == Spec => []ReplayNeedsRewind
<1>1. IInv => ReplayNeedsRewind
  <2> SUFFICES ASSUME IInv, NEW d \in Devices, NEW i \in DOMAIN log[d], NEW j \in DOMAIN log[d],
                      i < j, log[d][i].call = log[d][j].call, Shown(log[d][i]), Shown(log[d][j])
               PROVE  \E k \in (i + 1)..j :
                        log[d][k].ingested /\ Iteration(log[d][k].call) <= Iteration(log[d][j].call)
    BY DEF ReplayNeedsRewind
  <2>1. Log /\ Replayed /\ DOMAIN log[d] = 1..Len(log[d]) /\ Len(log[d]) \in Nat
    BY DEF IInv, Types
  <2>2. PICK k \in (i + 1)..j : log[d][k].ingested /\ log[d][k].call <= log[d][j].call
    BY <2>1 DEF Replayed, Shown
  <2>3. k \in DOMAIN log[d]
    BY <2>1
  <2>4. log[d][k].call \in Calls /\ log[d][j].call \in Calls
    BY <2>1, <2>3 DEF Log
  <2>5. Iteration(log[d][k].call) <= Iteration(log[d][j].call)
    BY <2>2, <2>4, Iterations
  <2> QED
    BY <2>2, <2>5
<1> QED
  BY <1>1, Invariance, PTL
=============================================================================
