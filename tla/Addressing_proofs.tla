-------------------------- MODULE Addressing_proofs --------------------------
(***************************************************************************)
(* Proofs about Addressing, for every number of sessions and messages:     *)
(* SessionsMoveWhole and KnownPeerDecrypts.                                *)
(***************************************************************************)
EXTENDS Addressing, TLAPS

\* The shape of the state.
Types ==
  /\ opened \in Nat
  /\ known \in BOOLEAN
  /\ sessions \in [Addresses -> Nat]
  /\ ident \in [Addresses -> BOOLEAN]
  /\ meta \in [Addresses -> {"none", "pending", "clear"}]
  /\ inbound \subseteq [from : Addresses, names_alt : BOOLEAN, session : Nat, preamble : BOOLEAN]
  /\ outbound \subseteq [session : Nat, preamble : BOOLEAN]
  /\ peer \in [session : Nat, preamble : BOOLEAN]

\* Nothing refers to a session that is yet to be opened.
Opened ==
  /\ \A a \in Addresses : sessions[a] <= opened
  /\ \A m \in inbound : m.session <= opened /\ m.session # 0
  /\ \A m \in outbound : m.session <= opened
  /\ peer.session <= opened

\* A session of the peer's making that we have stored was built by a pkmsg:
\* another one opens only if the session came without a one-time pre-key,
\* and only such a session is ever rebuilt.
StoredOnce(n) ==
  \A a \in Addresses : sessions[a] = n => n \in built

PreambleSpent ==
  /\ rebuilt \subseteq opkless
  /\ \A m \in inbound : m.preamble => StoredOnce(m.session)
  /\ peer.preamble /\ peer.session # 0 => StoredOnce(peer.session)

IInv == Types /\ Opened /\ PreambleSpent /\ SessionsMoveWhole

-----------------------------------------------------------------------------
(* Every behaviour starts in the inductive invariant.                      *)
LEMMA InitIInv == Init => IInv
<1> SUFFICES ASSUME Init PROVE IInv
  OBVIOUS
<1>1. Types
  BY DEF Init, Types
<1>2. Opened /\ PreambleSpent /\ SessionsMoveWhole
  BY DEF Init, Opened, PreambleSpent, SessionsMoveWhole, Addresses
<1> QED
  BY <1>1, <1>2 DEF IInv

(* A step that opens no session and leaves the stores alone.               *)
LEMMA SameStores ==
  ASSUME IInv, UNCHANGED <<store_vars, opkless, fromKeys>>, Types', Opened',
         inbound' = inbound, peer' = peer \/ ~peer'.preamble
  PROVE  IInv'
BY DEF IInv, PreambleSpent, StoredOnce, SessionsMoveWhole, store_vars

(* A new session has a number that nothing refers to, so the address it is *)
(* stored under shares it with no other, and no pkmsg of the peer names it.*)
LEMMA NewSession ==
  ASSUME IInv, NEW a \in Addresses, opened' = opened + 1, sessions'[a] = opened',
         \A b \in Addresses \ {a} : sessions'[b] \in {sessions[b], 0},
         UNCHANGED <<inbound, peer, opkless, built, rebuilt>>
  PROVE  /\ PreambleSpent'
         /\ sessions'["pn"] = sessions'["lid"] => sessions'["pn"] \in opkless' \union {0}
<1>1. /\ opened \in Nat
      /\ \A b \in Addresses : sessions[b] \in Nat /\ sessions[b] <= opened
      /\ \A m \in inbound : m.session \in Nat /\ m.session <= opened /\ m.session # 0
      /\ peer.session \in Nat /\ peer.session <= opened
  BY DEF IInv, Types, Opened
<1>2. ASSUME NEW n \in Nat, n <= opened, n # 0, StoredOnce(n)
      PROVE  StoredOnce(n)'
  BY <1>1, <1>2 DEF StoredOnce
<1> QED
  BY <1>1, <1>2 DEF IInv, PreambleSpent, Addresses

LEMMA EstablishStep ==
  ASSUME IInv, NEW a \in Addresses, Establish(a)
  PROVE  IInv'
<1>1. /\ opened' = opened + 1 /\ sessions' = [sessions EXCEPT ![a] = opened']
      /\ ident' = [ident EXCEPT ![a] = TRUE] /\ meta' = [meta EXCEPT ![a] = "pending"]
      /\ outbound' = outbound \union {[session |-> opened', preamble |-> TRUE]}
      /\ UNCHANGED <<known, built, rebuilt, inbound, peer_vars, opkless, fromKeys>>
  BY DEF Establish
<1>2. Types
  BY DEF IInv
<1>3. Types' /\ Opened'
  <2>1. [session |-> opened', preamble |-> TRUE] \in [session : Nat, preamble : BOOLEAN]
    BY <1>1, <1>2 DEF Types
  <2>2. outbound' \subseteq [session : Nat, preamble : BOOLEAN]
    BY <1>1, <1>2, <2>1 DEF Types
  <2>3. /\ opened' \in Nat /\ sessions' \in [Addresses -> Nat] /\ ident' \in [Addresses -> BOOLEAN]
        /\ meta' \in [Addresses -> {"none", "pending", "clear"}]
    BY <1>1, <1>2 DEF Types
  <2>4. Types'
    BY <1>1, <1>2, <2>2, <2>3 DEF Types, peer_vars
  <2>5. \A b \in Addresses : sessions'[b] <= opened'
    BY <1>1, <1>2 DEF IInv, Types, Opened
  <2>6. \A m \in outbound' : m.session <= opened'
    BY <1>1, <1>2 DEF IInv, Types, Opened
  <2>7. /\ \A m \in inbound' : m.session <= opened' /\ m.session # 0
        /\ peer'.session <= opened'
    BY <1>1, <1>2 DEF IInv, Types, Opened, peer_vars
  <2> QED
    BY <2>4, <2>5, <2>6, <2>7 DEF Opened
<1>4. /\ PreambleSpent'
      /\ sessions'["pn"] = sessions'["lid"] => sessions'["pn"] \in opkless' \union {0}
  BY <1>1, <1>2, NewSession DEF Types, peer_vars
<1>5. \A b \in Addresses : sessions'[b] # 0 => ident'[b] \/ sessions'[b] \in fromKeys'
  BY <1>1, <1>2 DEF IInv, Types, SessionsMoveWhole
<1> QED
  BY <1>3, <1>4, <1>5 DEF IInv, SessionsMoveWhole

(* _drop_peer_session empties an address in every store or in none.        *)
LEMMA DroppedWhole ==
  ASSUME NEW a \in Addresses, NEW b \in Addresses
  PROVE  \/ /\ Without(sessions, a, 0)[b] = 0
            /\ Without(ident, a, FALSE)[b] = FALSE
            /\ Without(meta, a, "none")[b] = "none"
         \/ /\ Without(sessions, a, 0)[b] = sessions[b]
            /\ Without(ident, a, FALSE)[b] = ident[b]
            /\ Without(meta, a, "none")[b] = meta[b]
BY DEF Without

LEMMA RetryWithKeysStep ==
  ASSUME IInv, NEW a \in Addresses, RetryWithKeys(a)
  PROVE  IInv'
<1>0. /\ sessions' = [Without(sessions, a, 0) EXCEPT ![a] = opened']
      /\ ident' = Without(ident, a, FALSE)
      /\ meta' = [Without(meta, a, "none") EXCEPT ![a] = "pending"]
  BY DEF RetryWithKeys
<1>1. /\ opened' = opened + 1 /\ fromKeys' = fromKeys \union {opened'}
      /\ outbound' = outbound \union {[session |-> opened', preamble |-> TRUE]}
      /\ UNCHANGED <<known, built, rebuilt, inbound, peer, opkless>>
  BY DEF RetryWithKeys
<1>2. Types
  BY DEF IInv
<1>3. sessions'[a] = opened' /\ \A b \in Addresses \ {a} : sessions'[b] = Without(sessions, a, 0)[b]
  BY <1>0 DEF Without
<1>4. \A b \in Addresses \ {a} :
        \/ sessions'[b] = 0
        \/ sessions'[b] = sessions[b] /\ ident'[b] = ident[b]
  BY <1>0, <1>3, DroppedWhole
<1>5. Types'
  <2>1. /\ Without(sessions, a, 0) \in [Addresses -> Nat]
        /\ Without(ident, a, FALSE) \in [Addresses -> BOOLEAN]
        /\ Without(meta, a, "none") \in [Addresses -> {"none", "pending", "clear"}]
    BY <1>2 DEF Types, Without
  <2>2. [session |-> opened', preamble |-> TRUE] \in [session : Nat, preamble : BOOLEAN]
    BY <1>1, <1>2 DEF Types
  <2>3. outbound' \subseteq [session : Nat, preamble : BOOLEAN]
    BY <1>1, <1>2, <2>2 DEF Types
  <2>4. opened' \in Nat
    BY <1>1, <1>2 DEF Types
  <2>5. sessions' \in [Addresses -> Nat] /\ meta' \in [Addresses -> {"none", "pending", "clear"}]
    BY <1>0, <2>1, <2>4
  <2> QED
    BY <1>0, <1>1, <1>2, <2>1, <2>3, <2>4, <2>5 DEF Types
<1>6. Opened'
  <2>1. \A b \in Addresses : sessions'[b] <= opened'
    BY <1>1, <1>2, <1>3, <1>4 DEF IInv, Types, Opened
  <2>2. \A m \in outbound' : m.session <= opened'
    BY <1>1, <1>2 DEF IInv, Types, Opened
  <2>3. /\ \A m \in inbound' : m.session <= opened' /\ m.session # 0
        /\ peer'.session <= opened'
    BY <1>1, <1>2 DEF IInv, Types, Opened
  <2> QED
    BY <2>1, <2>2, <2>3 DEF Opened
<1>7. /\ PreambleSpent'
      /\ sessions'["pn"] = sessions'["lid"] => sessions'["pn"] \in opkless' \union {0}
  <2>1. \A b \in Addresses \ {a} : sessions'[b] \in {sessions[b], 0}
    BY <1>4
  <2> QED
    BY <1>1, <1>3, <2>1, NewSession
<1>8. ASSUME NEW b \in Addresses, sessions'[b] # 0
      PROVE  ident'[b] \/ sessions'[b] \in fromKeys'
  <2>1. CASE b = a
    BY <1>1, <1>3, <2>1
  <2>2. CASE b # a
    BY <1>1, <1>4, <1>8, <2>2 DEF IInv, SessionsMoveWhole
  <2> QED
    BY <2>1, <2>2
<1> QED
  BY <1>5, <1>6, <1>7, <1>8 DEF IInv, SessionsMoveWhole

LEMMA RetryWithoutKeysStep ==
  ASSUME IInv, NEW a \in Addresses, RetryWithoutKeys(a)
  PROVE  IInv'
<1>1. /\ sessions' = Without(sessions, a, 0) /\ ident' = Without(ident, a, FALSE)
      /\ meta' = Without(meta, a, "none")
      /\ UNCHANGED <<known, built, rebuilt, outbound, inbound, peer, opened, opkless, fromKeys>>
  BY DEF RetryWithoutKeys
<1>0. UNCHANGED <<known, built, rebuilt, outbound, inbound, peer, opened, opkless, fromKeys>>
  BY <1>1
<1>2. Types'
  BY <1>1 DEF IInv, Types, Without
<1>3. \A b \in Addresses : \/ sessions'[b] = 0
                           \/ sessions'[b] = sessions[b] /\ ident'[b] = ident[b]
  BY <1>1, DroppedWhole
<1>4. Opened'
  <2>1. \A b \in Addresses : sessions'[b] <= opened'
    BY <1>0, <1>3 DEF IInv, Types, Opened
  <2> QED
    BY <1>1, <2>1 DEF IInv, Opened
<1>5. PreambleSpent'
  <2>1. ASSUME NEW n, n # 0, StoredOnce(n)
        PROVE  StoredOnce(n)'
    BY <1>0, <1>3, <2>1 DEF StoredOnce
  <2> QED
    BY <1>1, <2>1 DEF IInv, Opened, PreambleSpent
<1>6. SessionsMoveWhole'
  BY <1>0, <1>3 DEF IInv, SessionsMoveWhole, Addresses
<1> QED
  BY <1>2, <1>4, <1>5, <1>6 DEF IInv

(* The migration moves the PN's session and identity to the LID, both or   *)
(* neither.                                                                *)
LEMMA MigrationWhole ==
  ASSUME Types, NEW m \in inbound
  PROVE  LET after == AfterMigration(m)
         IN  /\ after.sessions \in [Addresses -> Nat]
             /\ after.ident \in [Addresses -> BOOLEAN]
             /\ \/ after.sessions = sessions /\ after.ident = ident
                \/ /\ m.from = "lid" /\ sessions["lid"] = 0
                   /\ after.sessions["lid"] = sessions["pn"]
                   /\ after.sessions["pn"] = 0
                   /\ ident["pn"] => after.ident["lid"]
                   /\ ident["lid"] => after.ident["lid"]
BY DEF Types, AfterMigration, Migrated, Addresses

(* What the stores hold after it has held before, under some address.      *)
LEMMA MigrationKeeps ==
  ASSUME IInv, NEW m \in inbound
  PROVE  LET after == AfterMigration(m)
         IN  /\ \A b \in Addresses : \/ after.sessions[b] = 0
                                     \/ \E c \in Addresses : after.sessions[b] = sessions[c]
             /\ after.sessions["pn"] = after.sessions["lid"] =>
                  after.sessions["pn"] \in opkless \union {0}
             /\ \A b \in Addresses : after.sessions[b] # 0 =>
                  after.ident[b] \/ after.sessions[b] \in fromKeys
<1> DEFINE after == AfterMigration(m)
<1>1. /\ after.sessions \in [Addresses -> Nat]
      /\ after.ident \in [Addresses -> BOOLEAN]
      /\ \/ after.sessions = sessions /\ after.ident = ident
         \/ /\ m.from = "lid" /\ sessions["lid"] = 0
            /\ after.sessions["lid"] = sessions["pn"]
            /\ after.sessions["pn"] = 0
            /\ ident["pn"] => after.ident["lid"]
            /\ ident["lid"] => after.ident["lid"]
  BY MigrationWhole DEF IInv
<1> HIDE DEF after
<1>2. SessionsMoveWhole /\ sessions \in [Addresses -> Nat] /\ ident \in [Addresses -> BOOLEAN]
  BY DEF IInv, Types
<1>3. \A b \in Addresses : \/ after.sessions[b] = 0
                           \/ \E c \in Addresses : after.sessions[b] = sessions[c]
  BY <1>1 DEF Addresses
<1>4. after.sessions["pn"] = after.sessions["lid"] => after.sessions["pn"] \in opkless \union {0}
  BY <1>1, <1>2 DEF SessionsMoveWhole
<1>5. \A b \in Addresses : after.sessions[b] # 0 => after.ident[b] \/ after.sessions[b] \in fromKeys
  BY <1>1, <1>2 DEF SessionsMoveWhole, Addresses
<1> QED
  BY <1>3, <1>4, <1>5 DEF after

LEMMA ReceiveFailsStep ==
  ASSUME IInv, NEW m \in inbound, ReceiveFails(m)
  PROVE  IInv'
<1> DEFINE after == AfterMigration(m)
<1>1. /\ inbound' \subseteq inbound /\ known' = (known \/ m.names_alt)
      /\ sessions' = after.sessions /\ ident' = after.ident
      /\ UNCHANGED <<built, rebuilt, meta, outbound, peer, opened, opkless, fromKeys>>
  BY DEF ReceiveFails, Recorded
<1>2. Types /\ m.names_alt \in BOOLEAN
  BY DEF IInv, Types
<1>3. after.sessions \in [Addresses -> Nat] /\ after.ident \in [Addresses -> BOOLEAN]
  BY <1>2, MigrationWhole
<1>4. /\ \A b \in Addresses : \/ sessions'[b] = 0
                              \/ \E c \in Addresses : sessions'[b] = sessions[c]
      /\ sessions'["pn"] = sessions'["lid"] => sessions'["pn"] \in opkless \union {0}
      /\ \A b \in Addresses : sessions'[b] # 0 => ident'[b] \/ sessions'[b] \in fromKeys
  BY <1>1, MigrationKeeps
<1> HIDE DEF after
<1>5. Types'
  BY <1>1, <1>2, <1>3 DEF Types
<1>6. Opened'
  <2>1. \A b \in Addresses : sessions'[b] <= opened'
    BY <1>1, <1>4 DEF IInv, Types, Opened
  <2> QED
    BY <1>1, <2>1 DEF IInv, Opened
<1>7. PreambleSpent'
  <2>1. ASSUME NEW n, n # 0, StoredOnce(n)
        PROVE  StoredOnce(n)'
    BY <1>1, <1>4, <2>1 DEF StoredOnce
  <2> QED
    BY <1>1, <2>1 DEF IInv, Opened, PreambleSpent
<1>8. SessionsMoveWhole'
  BY <1>1, <1>4 DEF SessionsMoveWhole
<1> QED
  BY <1>5, <1>6, <1>7, <1>8 DEF IInv

(* A pkmsg that opens has not been opened before, or its session has no    *)
(* one-time pre-key: the other address holds its session only in that case.*)
LEMMA ReceiveStep ==
  ASSUME IInv, NEW m \in inbound, Receive(m)
  PROVE  IInv'
<1> DEFINE after == AfterMigration(m)
<1>1. /\ inbound' \subseteq inbound /\ known' = (known \/ m.names_alt)
      /\ sessions' = [after.sessions EXCEPT ![m.from] = m.session]
      /\ ident' = [after.ident EXCEPT ![m.from] = TRUE]
      /\ built' = IF m.preamble THEN built \union {m.session} ELSE built
      /\ rebuilt' = IF m.preamble /\ m.session \in built
                    THEN rebuilt \union {m.session} ELSE rebuilt
      /\ UNCHANGED <<outbound, peer, opened, opkless, fromKeys>>
  BY DEF Receive, Recorded, peer_vars
<1>2. /\ Types /\ m.names_alt \in BOOLEAN /\ m.from \in Addresses
      /\ m.session \in Nat /\ m.session # 0 /\ m.session <= opened
  BY DEF IInv, Types, Opened
<1>3. after.sessions \in [Addresses -> Nat] /\ after.ident \in [Addresses -> BOOLEAN]
  BY <1>2, MigrationWhole
<1>4. /\ \A b \in Addresses : \/ after.sessions[b] = 0
                              \/ \E c \in Addresses : after.sessions[b] = sessions[c]
      /\ after.sessions["pn"] = after.sessions["lid"] => after.sessions["pn"] \in opkless \union {0}
      /\ \A b \in Addresses : after.sessions[b] # 0 => after.ident[b] \/ after.sessions[b] \in fromKeys
  BY MigrationKeeps
<1>5. \/ m.preamble /\ (m.session \in built => m.session \in opkless)
      \/ ~m.preamble /\ after.sessions[m.from] = m.session
  BY DEF Receive, Opens
<1>6. meta' \in [Addresses -> {"none", "pending", "clear"}]
  BY <1>2 DEF Receive, Types
<1> HIDE DEF after
<1>7. /\ sessions'[m.from] = m.session /\ ident'[m.from]
      /\ \A b \in Addresses \ {m.from} : sessions'[b] = after.sessions[b] /\ ident'[b] = after.ident[b]
      /\ sessions' \in [Addresses -> Nat] /\ ident' \in [Addresses -> BOOLEAN]
  BY <1>1, <1>2, <1>3
<1>8. Types'
  BY <1>1, <1>2, <1>6, <1>7 DEF Types
<1>9. Opened'
  <2>1. \A b \in Addresses : sessions'[b] <= opened'
    BY <1>1, <1>2, <1>4, <1>7 DEF IInv, Types, Opened
  <2> QED
    BY <1>1, <2>1 DEF IInv, Opened
<1>10. PreambleSpent'
  <2>0. rebuilt' \subseteq opkless'
    BY <1>1, <1>5 DEF IInv, PreambleSpent
  <2>1. built \subseteq built'
    BY <1>1
  <2>2. m.preamble => m.session \in built'
    BY <1>1
  <2>3. \A b \in Addresses : \/ sessions'[b] = 0
                             \/ \E c \in Addresses : sessions'[b] = sessions[c]
                             \/ m.preamble /\ sessions'[b] = m.session
    BY <1>2, <1>4, <1>5, <1>7
  <2>4. ASSUME NEW n, n # 0, StoredOnce(n)
        PROVE  StoredOnce(n)'
    BY <1>1, <2>1, <2>2, <2>3, <2>4 DEF StoredOnce
  <2> QED
    BY <1>1, <2>0, <2>4 DEF IInv, Opened, PreambleSpent
<1>11. sessions'["pn"] = sessions'["lid"] => sessions'["pn"] \in opkless' \union {0}
  <2>1. CASE ~m.preamble
    BY <1>1, <1>2, <1>4, <1>5, <1>7, <2>1 DEF Addresses
  <2>2. CASE m.preamble
    <3>1. StoredOnce(m.session)
      BY <2>2 DEF IInv, PreambleSpent
    <3>2. \A b \in Addresses : after.sessions[b] = m.session => m.session \in opkless
      BY <1>2, <1>4, <1>5, <2>2, <3>1 DEF StoredOnce
    <3> QED
      BY <1>1, <1>2, <1>7, <3>2 DEF Addresses
  <2> QED
    BY <2>1, <2>2
<1>12. \A b \in Addresses : sessions'[b] # 0 => ident'[b] \/ sessions'[b] \in fromKeys'
  BY <1>1, <1>2, <1>4, <1>7
<1> QED
  BY <1>8, <1>9, <1>10, <1>11, <1>12 DEF IInv, SessionsMoveWhole

(* What the peer sends under a session it has not just opened.             *)
LEMMA PeerSendsStep ==
  ASSUME IInv, NEW a \in Addresses, NEW names \in BOOLEAN, PeerSends(a, names)
  PROVE  IInv'
<1> DEFINE m == [from |-> a, names_alt |-> names, session |-> peer.session,
                 preamble |-> peer.preamble]
<1>1. /\ peer.session # 0 /\ inbound' = inbound \union {m}
      /\ UNCHANGED <<store_vars, meta, outbound, peer_vars, opened, opkless, fromKeys>>
  BY DEF PeerSends
<1>2. Types /\ Opened /\ PreambleSpent /\ SessionsMoveWhole
  BY DEF IInv
<1>3. /\ m \in [from : Addresses, names_alt : BOOLEAN, session : Nat, preamble : BOOLEAN]
      /\ m.session = peer.session /\ (m.preamble => peer.preamble)
  BY <1>2 DEF Types
<1> HIDE DEF m
<1>4. Types'
  BY <1>1, <1>2, <1>3 DEF Types, store_vars, peer_vars
<1>5. Opened'
  BY <1>1, <1>2, <1>3 DEF Opened, store_vars, peer_vars
<1>6. PreambleSpent'
  BY <1>1, <1>2, <1>3 DEF PreambleSpent, StoredOnce, store_vars, peer_vars
<1>7. SessionsMoveWhole'
  BY <1>1, <1>2 DEF SessionsMoveWhole, store_vars
<1> QED
  BY <1>4, <1>5, <1>6, <1>7 DEF IInv

(* The session the peer opens has a number that is stored nowhere.         *)
LEMMA PeerOpensStep ==
  ASSUME IInv, NEW a \in Addresses, NEW names \in BOOLEAN, PeerOpens(a, names)
  PROVE  IInv'
<1> DEFINE m == [from |-> a, names_alt |-> names, session |-> opened', preamble |-> TRUE]
<1>1. /\ opened' = opened + 1 /\ inbound' = inbound \union {m}
      /\ peer' = [session |-> opened', preamble |-> TRUE]
      /\ opkless \subseteq opkless'
      /\ UNCHANGED <<store_vars, meta, outbound, fromKeys>>
  BY DEF PeerOpens
<1>2. Types /\ Opened /\ PreambleSpent /\ SessionsMoveWhole
  BY DEF IInv
<1>3. opened' \in Nat /\ \A b \in Addresses : sessions[b] # opened'
  BY <1>1, <1>2 DEF Types, Opened
<1>4. /\ m \in [from : Addresses, names_alt : BOOLEAN, session : Nat, preamble : BOOLEAN]
      /\ m.session = opened'
  BY <1>3
<1> HIDE DEF m
<1>5. Types'
  BY <1>1, <1>2, <1>3, <1>4 DEF Types, store_vars
<1>6. Opened'
  BY <1>1, <1>2, <1>3, <1>4 DEF Types, Opened, store_vars
<1>7. PreambleSpent'
  BY <1>1, <1>2, <1>3, <1>4 DEF PreambleSpent, StoredOnce, store_vars
<1>8. SessionsMoveWhole'
  BY <1>1, <1>2 DEF SessionsMoveWhole, store_vars
<1> QED
  BY <1>5, <1>6, <1>7, <1>8 DEF IInv

(* Every step keeps the inductive invariant.                               *)
LEMMA NextIInv == IInv /\ [Next]_vars => IInv'
<1> SUFFICES ASSUME IInv, [Next]_vars PROVE IInv'
  OBVIOUS
<1>1. Types /\ Opened
  BY DEF IInv
<1>2. ASSUME NEW a \in Addresses, SendNow(a) PROVE IInv'
  <2> DEFINE m == [session |-> sessions[a], preamble |-> meta[a] = "pending"]
  <2>1. m \in [session : Nat, preamble : BOOLEAN] /\ m.session = sessions[a]
    BY <1>1 DEF Types
  <2>2. /\ outbound' = outbound \union {m}
        /\ UNCHANGED <<store_vars, inbound, peer_vars, opened, opkless, fromKeys>>
    BY <1>2 DEF SendNow
  <2>3. meta' \in [Addresses -> {"none", "pending", "clear"}]
    BY <1>1, <1>2 DEF SendNow, Types
  <2> HIDE DEF m
  <2>4. Types' /\ Opened'
    BY <1>1, <2>1, <2>2, <2>3 DEF Types, Opened, store_vars, peer_vars
  <2> QED
    BY <2>2, <2>4, SameStores DEF peer_vars
<1>3. ASSUME NEW a \in Addresses, SendFetches(a) \/ FetchFails(a) PROVE IInv'
  <2>1. Types' /\ Opened'
    BY <1>1, <1>3 DEF SendFetches, FetchFails, Types, Opened, store_vars, peer_vars
  <2> QED
    BY <1>3, <2>1, SameStores DEF SendFetches, FetchFails, peer_vars
<1>4. ASSUME NEW m \in outbound, PeerReceives(m) PROVE IInv'
  <2>1. /\ outbound' \subseteq outbound
        /\ peer' = [session |-> m.session, preamble |-> FALSE] \/ peer' = peer
        /\ UNCHANGED <<store_vars, meta, inbound, opened, opkless, fromKeys>>
    BY <1>4 DEF PeerReceives
  <2>2. /\ peer' \in [session : Nat, preamble : BOOLEAN] /\ peer'.session <= opened
        /\ peer' = peer \/ ~peer'.preamble
    <3>1. m \in [session : Nat, preamble : BOOLEAN] /\ m.session <= opened
      BY <1>1 DEF Types, Opened
    <3>2. CASE peer' = peer
      BY <1>1, <3>2 DEF Types, Opened
    <3>3. CASE peer' = [session |-> m.session, preamble |-> FALSE]
      BY <3>1, <3>3
    <3> QED
      BY <2>1, <3>2, <3>3
  <2>3. Types' /\ Opened'
    BY <1>1, <2>1, <2>2 DEF Types, Opened, store_vars
  <2> QED
    BY <2>1, <2>2, <2>3, SameStores
<1>5. CASE Restart
  <2>1. Types' /\ Opened'
    BY <1>1, <1>5 DEF Restart, Types, Opened, store_vars, peer_vars
  <2> QED
    BY <1>5, <2>1, SameStores DEF Restart, peer_vars
<1>6. CASE UNCHANGED vars
  <2>1. Types' /\ Opened'
    BY <1>1, <1>6 DEF vars, Types, Opened, store_vars, peer_vars
  <2> QED
    BY <1>6, <2>1, SameStores DEF vars, peer_vars
<1> QED
  BY <1>2, <1>3, <1>4, <1>5, <1>6, EstablishStep, RetryWithKeysStep, RetryWithoutKeysStep,
     ReceiveStep, ReceiveFailsStep, PeerSendsStep, PeerOpensStep DEF Next

LEMMA Invariance == Spec => []IInv
BY InitIInv, NextIInv, PTL DEF Spec

(***************************************************************************)
(* One session is never stored under both addresses, whatever the order of *)
(* sends, receptions, migrations, retries and restarts, unless its pkmsgs  *)
(* carry no one-time pre-key; and the identity goes where its session goes *)
(* (migrate_pn_session_to_lid, _drop_peer_session, _decrypt_enc).          *)
(***************************************************************************)
THEOREM SessionsMoveWholeHolds == Spec => []SessionsMoveWhole
<1>1. IInv => SessionsMoveWhole
  BY DEF IInv
<1> QED
  BY <1>1, Invariance, PTL

(***************************************************************************)
(* Every refusal of a msg whose session we hold has one of the reasons     *)
(* that KnownPeerDecrypts gives: the migration of _migrate_known_lid_sender*)
(* covers every other case.                                                *)
(***************************************************************************)
THEOREM KnownPeerDecryptsHolds == Spec => KnownPeerDecrypts
<1> DEFINE Reasons(m) ==
      \/ m.from = "pn" /\ sessions["lid"] = m.session
      \/ m.from = "lid" /\ sessions["pn"] = m.session /\ ~(known \/ m.names_alt)
      \/ m.from = "lid" /\ sessions["lid"] \notin {0, m.session}
      \/ m.session \in fromKeys \union (rebuilt \intersect opkless)
<1> DEFINE Refused ==
      \A m \in inbound :
        (ReceiveFails(m) /\ ~m.preamble /\ m.session \in {sessions[a] : a \in Addresses}) =>
          Reasons(m)
<1>1. IInv => Refused
  <2> SUFFICES ASSUME IInv, NEW m \in inbound, ReceiveFails(m), ~m.preamble,
                      NEW c \in Addresses, m.session = sessions[c]
               PROVE  Reasons(m)
    OBVIOUS
  <2> DEFINE after == AfterMigration(m)
  <2>1. CASE m.session \in rebuilt
    BY <2>1 DEF IInv, PreambleSpent
  <2>2. CASE ~(after.sessions[m.from] = m.session /\ after.ident[m.from])
    <3>1. /\ m.from \in Addresses /\ m.session # 0
          /\ sessions \in [Addresses -> Nat] /\ ident \in [Addresses -> BOOLEAN]
          /\ SessionsMoveWhole
      BY DEF IInv, Types, Opened
    <3>2. CASE m.from = "lid" /\ sessions["lid"] = 0 /\ Recorded(m) /\ sessions["pn"] # 0
      <4>1. after.sessions["lid"] = sessions["pn"] /\ (ident["pn"] => after.ident["lid"])
        BY <3>1, <3>2 DEF AfterMigration, Migrated, Addresses
      <4> QED
        BY <2>2, <3>1, <3>2, <4>1 DEF Addresses, SessionsMoveWhole
    <3>3. CASE ~(m.from = "lid" /\ sessions["lid"] = 0 /\ Recorded(m) /\ sessions["pn"] # 0)
      <4>1. after.sessions = sessions /\ after.ident = ident
        BY <3>3 DEF AfterMigration
      <4> QED
        BY <2>2, <3>1, <3>3, <4>1 DEF Addresses, SessionsMoveWhole, Recorded
    <3> QED
      BY <3>2, <3>3
  <2> QED
    BY <2>1, <2>2 DEF ReceiveFails, Opens, MayDiverge
<1>2. IInv => [Refused]_vars
  BY <1>1
<1> QED
  BY <1>2, Invariance, PTL DEF KnownPeerDecrypts
=============================================================================
