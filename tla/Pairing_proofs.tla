--------------------------- MODULE Pairing_proofs ---------------------------
(***************************************************************************)
(* Proofs about Pairing, for every number of key materials, attempts, refs *)
(* and crashes: PairedIsGenuine, LinkedKeysKept and RotationStops.         *)
(***************************************************************************)
EXTENDS Pairing, TLAPS

Stages == {"off", "idle", "register", "pairing", "replying", "paired", "login", "connected"}
Qr == [secret : Nat \ {0}, keys : Nat \ {0}]
Rotation == [by : Nat, nth : Nat, left : Int, displaced : BOOLEAN]
Stored == [keys : Nat \ {0}, jid : BOOLEAN, lid : BOOLEAN] \union {NoDevice}

\* The shape of the state.  Torn is never at the path itself.
Types ==
  /\ pc \in Stages
  /\ dev \in Stored
  /\ file \in Stored
  /\ disk \subseteq Stored
  /\ fresh \in Nat /\ attempt \in Nat /\ iqs \in Nat
  /\ shown \subseteq Qr
  /\ rotations \subseteq Rotation
  /\ reply \in Nat
  /\ linked \subseteq Nat \ {0}
  /\ save \in {"no", "begin", "temp", "written", "replaced"}
  /\ stored \subseteq Nat \ {0}

\* What a phone scanned was shown, and a Pairer that runs has a number.
ScansShown ==
  /\ scanned \subseteq shown
  /\ pc \in {"pairing", "replying"} => attempt # 0

\* Where the client stands says whether its device holds an account.
Account ==
  /\ pc = "off" => dev = NoDevice
  /\ pc \in {"register", "pairing", "replying"} => dev # NoDevice /\ ~dev.jid
  /\ pc \in {"paired", "login", "connected"} => dev.jid
  /\ save # "no" => pc \in {"paired", "connected"}

\* While nothing was ever saved there is nothing a crash could bring back,
\* and a process that runs has the keys of the file.
FileFollows ==
  /\ file = NoDevice => disk = {NoDevice}
  /\ pc # "off" => file = NoDevice \/ (dev.jid /\ dev.keys = file.keys)

\* The steps of save_device_store.
Saving ==
  /\ save = "written" => temp = dev
  /\ save = "replaced" => temp = dev /\ file = dev

\* Between the reply and the record of it, the pairing is already genuine.
RepliesGenuine ==
  pc = "replying" =>
    /\ \E q \in scanned : q.keys = dev.keys
    /\ dev.keys \in linked \union unheard \union {reply}

\* A save that returned binds the file and whatever a power failure leaves.
StoredStays ==
  \A k \in stored : file.keys = k /\ \A d \in disk : d.keys = k

IInv ==
  /\ Types /\ ScansShown /\ Account /\ FileFollows /\ Saving
  /\ RepliesGenuine /\ StoredStays /\ PairedIsGenuine /\ RotationStops

-----------------------------------------------------------------------------
(* Every behaviour starts in the inductive invariant.                      *)
LEMMA InitIInv == Init => IInv
BY DEF Init, IInv, Types, ScansShown, Account, FileFollows, Saving, RepliesGenuine,
       StoredStays, PairedIsGenuine, RotationStops, Stages, Qr, Rotation, Stored, NoDevice

(* What changes neither device, file nor server keeps the invariant, if it *)
(* keeps the parts about the stage.                                        *)
LEMMA SameDevices ==
  ASSUME IInv, UNCHANGED <<dev, file, disk, temp, stored, save, server_vars>>,
         Types', ScansShown', Account', RotationStops',
         pc # "off", pc' \in {"off", "replying"} => pc' = pc, shown \subseteq shown'
  PROVE  IInv'
BY DEF IInv, FileFollows, Saving, RepliesGenuine, StoredStays, PairedIsGenuine, server_vars,
       Account

(* A pair-device stanza shows a QR, and displaces the rotation before it.  *)
LEMMA PairDeviceStep ==
  ASSUME IInv, NEW n \in Refs, PairDevice(n)
  PROVE  IInv'
<1>1. /\ pc = "pairing" /\ UNCHANGED <<pc, dev, fresh, crashes, disk_vars, server_vars, attempt>>
      /\ iqs' = iqs + 1 /\ shown' = shown \union {Payload} /\ n \in Nat \ {0}
  BY PairingAssumption DEF PairDevice, Refs
<1>2. Types /\ ScansShown /\ Account /\ RotationStops
  BY DEF IInv
<1>3. Payload \in Qr
  BY <1>1, <1>2 DEF Types, Account, ScansShown, Payload, Qr, Stored
<1>4. \A t \in rotations' :
        /\ t \in Rotation
        /\ t.displaced \/ (t.by = attempt /\ pc \in {"pairing", "replying"})
  <2> DEFINE Marked(t) == [t EXCEPT !.displaced = @ \/ t.by = attempt]
             New == [by |-> attempt, nth |-> iqs', left |-> n - 1, displaced |-> FALSE]
  <2>1. \A t \in rotations : t \in Rotation
    BY <1>2 DEF Types
  <2>2. \A t \in Rotation :
          /\ Marked(t) \in Rotation
          /\ Marked(t).by = t.by
          /\ t.displaced \/ t.by = attempt => Marked(t).displaced
    BY DEF Rotation
  <2>3. New \in Rotation /\ New.by = attempt
    BY <1>1, <1>2 DEF Types, Rotation
  <2>4. \/ rotations' = rotations
        \/ rotations' = {Marked(t) : t \in rotations} \union {New}
    BY DEF PairDevice
  <2> HIDE DEF Marked, New
  <2>5. \A t \in rotations' : t \in rotations \/ t = New \/ \E u \in rotations : t = Marked(u)
    BY <2>4
  <2> QED
    <3> TAKE t \in rotations'
    <3>1. CASE t \in rotations
      BY <1>2, <2>1, <3>1 DEF RotationStops
    <3>2. CASE t = New
      BY <1>1, <2>3, <3>2
    <3>3. ASSUME NEW u \in rotations, t = Marked(u)
          PROVE  t \in Rotation /\ (t.displaced \/ (t.by = attempt /\ pc \in {"pairing", "replying"}))
      BY <1>1, <1>2, <2>1, <2>2, <3>3 DEF RotationStops
    <3> QED
      BY <2>5, <3>1, <3>2, <3>3
<1>5. Types'
  BY <1>1, <1>2, <1>3, <1>4 DEF Types, disk_vars, server_vars
<1> QED
  BY <1>1, <1>2, <1>4, <1>5, SameDevices
     DEF ScansShown, Account, RotationStops, disk_vars, server_vars

(* The end of a save: file, temporary file and device are one, so what     *)
(* becomes durable is what the process has.                                *)
LEMMA SyncDirectoryStep ==
  ASSUME IInv, SyncDirectory
  PROVE  IInv'
<1>1. /\ save = "replaced" /\ save' = "no" /\ pc' = Resume
      /\ UNCHANGED <<dev, fresh, crashes, temp, file, server_vars, run_vars>>
  BY DEF SyncDirectory
<1>2. pc \in {"paired", "connected"} /\ dev.jid /\ temp = dev /\ file = dev
  BY <1>1 DEF IInv, Account, Saving
<1>3. pc' \in {"login", "connected"}
  BY <1>1, <1>2 DEF Resume
<1>4. dev # NoDevice /\ dev.keys \in Nat \ {0} /\ dev \in Stored
  BY <1>2 DEF IInv, Types, Stored, NoDevice
<1>5. \/ disk' = {dev} /\ stored' = stored \union {dev.keys}
      \/ disk' = disk /\ stored' = stored
  BY <1>2 DEF SyncDirectory
<1>6. Types' /\ StoredStays' /\ PairedIsGenuine'
  BY <1>1, <1>2, <1>3, <1>4, <1>5
     DEF IInv, Types, StoredStays, PairedIsGenuine, Stages, server_vars, run_vars
<1>7. ScansShown' /\ Account' /\ FileFollows' /\ Saving' /\ RepliesGenuine' /\ RotationStops'
  BY <1>1, <1>2, <1>3, <1>4, <1>5
     DEF IInv, ScansShown, Account, FileFollows, Saving, RepliesGenuine, RotationStops,
         server_vars, run_vars
<1> QED
  BY <1>6, <1>7 DEF IInv

(* A crash leaves what was in the file, or any one of the devices a power  *)
(* failure may leave.                                                      *)
LEMMA CrashStep ==
  ASSUME IInv, Crash
  PROVE  IInv'
<1>1. /\ pc' = "off" /\ dev' = NoDevice /\ rotations' = {} /\ save' = "no"
      /\ UNCHANGED <<fresh, stored, server_vars, attempt, iqs, shown>>
  BY DEF Crash
<1>2. \/ file' = file /\ disk' = disk
      \/ \E left \in disk : file' = left /\ disk' = {left}
  BY DEF Crash
<1>3. file' \in {file} \union disk /\ disk' \subseteq disk
  BY <1>2
<1>4. Types'
  BY <1>1, <1>3 DEF IInv, Types, Stages, Stored, server_vars
<1>5. FileFollows' /\ StoredStays'
  BY <1>1, <1>2 DEF IInv, FileFollows, StoredStays
<1>6. PairedIsGenuine'
  BY <1>1, <1>3 DEF IInv, PairedIsGenuine, NoDevice, server_vars
<1> QED
  BY <1>1, <1>4, <1>5, <1>6
     DEF IInv, ScansShown, Account, Saving, RepliesGenuine, RotationStops, server_vars

-----------------------------------------------------------------------------
(* The pair-success that counts carries the secret of this attempt, so a   *)
(* phone made it of a QR it scanned; the reply it triggers is on the wire  *)
(* before the device counts as paired.                                     *)
LEMMA PairSuccessStep ==
  ASSUME IInv, PairSuccess
  PROVE  IInv'
<1>1. /\ pc = "pairing" /\ pc' = "replying" /\ reply' = dev.keys
      /\ UNCHANGED <<dev, fresh, crashes, disk_vars, run_vars, scanned, unheard, linked>>
  BY DEF PairSuccess, CoSigned
<1>2. dev \in Stored /\ dev # NoDevice /\ ~dev.jid /\ attempt # 0
  BY <1>1 DEF IInv, Types, Account, ScansShown
<1>3. \E q \in scanned : q.keys = dev.keys
  <2>1. PICK s \in PairSuccesses : s.secret = attempt /\ s.keys = dev.keys
    BY DEF PairSuccess, Verified, AccountSigned
  <2>2. s \in scanned
    BY <1>2, <2>1 DEF PairSuccesses
  <2> QED
    BY <2>1, <2>2
\* Nothing was saved yet, so no earlier device depends on the reply that is replaced.
<1>4. file = NoDevice /\ disk = {NoDevice}
  BY <1>1, <1>2 DEF IInv, FileFollows
<1>5. PairedIsGenuine'
  BY <1>1, <1>2, <1>4 DEF PairedIsGenuine, NoDevice, disk_vars
<1>6. RepliesGenuine'
  BY <1>1, <1>3 DEF RepliesGenuine
<1>7. Types'
  BY <1>1, <1>2 DEF IInv, Types, Stages, Stored, disk_vars, run_vars
<1> QED
  BY <1>1, <1>5, <1>6, <1>7
     DEF IInv, ScansShown, Account, FileFollows, Saving, StoredStays, RotationStops,
         disk_vars, run_vars

(* Cancelling in run's finally leaves displaced rotations only.            *)
LEMMA CancelledDisplaced ==
  ASSUME IInv
  PROVE  Cancelled \subseteq rotations /\ \A t \in Cancelled : t.displaced
BY DEF IInv, RotationStops, Cancelled

(* The device is filled in: what made it genuine holds since the reply.    *)
LEMMA RepliedStep ==
  ASSUME IInv, Replied
  PROVE  IInv'
<1>1. /\ pc = "replying" /\ pc' = "paired" /\ save' = "begin" /\ rotations' = Cancelled
      /\ dev' = [dev EXCEPT !.jid = TRUE]
      /\ UNCHANGED <<fresh, crashes, temp, file, disk, stored, server_vars, attempt, iqs, shown>>
  BY DEF Replied
<1>2. dev \in Stored /\ dev # NoDevice /\ ~dev.jid
  BY <1>1 DEF IInv, Types, Account
<1>3. dev' \in Stored /\ dev' # NoDevice /\ dev'.jid /\ dev'.keys = dev.keys
  BY <1>1, <1>2 DEF Stored, NoDevice
<1>4. file = NoDevice /\ disk = {NoDevice}
  BY <1>1, <1>2 DEF IInv, FileFollows
<1>5. PairedIsGenuine'
  <2>1. /\ \E q \in scanned : q.keys = dev.keys /\ q \in shown
        /\ dev.keys \in linked \union unheard \union {reply}
    BY <1>1 DEF IInv, RepliesGenuine, ScansShown
  <2> QED
    BY <1>1, <1>3, <1>4, <2>1 DEF PairedIsGenuine, NoDevice, server_vars
<1>6. Types'
  BY <1>1, <1>3, CancelledDisplaced DEF IInv, Types, Stages, server_vars
<1>7. RotationStops'
  BY <1>1, CancelledDisplaced DEF RotationStops
<1> QED
  BY <1>1, <1>3, <1>4, <1>5, <1>6, <1>7
     DEF IInv, ScansShown, Account, FileFollows, Saving, RepliesGenuine, StoredStays, server_vars

(* os.replace puts the device, whole, where the file was.                  *)
LEMMA ReplaceStep ==
  ASSUME IInv, Replace
  PROVE  IInv'
<1>1. /\ save = "written" /\ save' = "replaced" /\ file' = dev /\ disk' = disk \union {temp}
      /\ UNCHANGED <<pc, dev, fresh, crashes, temp, stored, server_vars, run_vars>>
  BY DEF Replace
<1>2. temp = dev /\ dev.jid /\ dev # NoDevice /\ pc \in {"paired", "connected"}
  BY <1>1 DEF IInv, Account, Saving, NoDevice
<1>3. \A k \in stored : dev.keys = k
  <2>1. \A k \in stored : file.keys = k /\ k # 0
    BY DEF IInv, StoredStays, Types
  <2> QED
    BY <1>2, <2>1 DEF IInv, FileFollows, NoDevice
<1>4. Types' /\ PairedIsGenuine'
  BY <1>1, <1>2 DEF IInv, Types, PairedIsGenuine, server_vars, run_vars
<1>5. StoredStays'
  BY <1>1, <1>2, <1>3 DEF IInv, StoredStays
<1> QED
  BY <1>1, <1>2, <1>4, <1>5
     DEF IInv, ScansShown, Account, FileFollows, Saving, RepliesGenuine, RotationStops,
         server_vars, run_vars

(* The other steps.                                                        *)
LEMMA NextIInv == IInv /\ [Next]_vars => IInv'
<1> SUFFICES ASSUME IInv, [Next]_vars PROVE IInv'
  OBVIOUS
<1>1. CASE Load
  BY <1>1 DEF Load, Loads, IInv, Types, ScansShown, Account, FileFollows, Saving,
     RepliesGenuine, StoredStays, PairedIsGenuine, RotationStops, Stages, NoDevice,
     disk_vars, server_vars, run_vars
<1>2. CASE ConnectToPair
  <2>1. /\ MakeFresh \in Stored /\ MakeFresh # NoDevice /\ ~MakeFresh.jid
        /\ fresh' \in Nat
        /\ file = NoDevice /\ disk = {NoDevice}
    BY <1>2 DEF ConnectToPair, MakeFresh, IInv, Types, FileFollows, Stored, NoDevice
  <2> QED
    BY <1>2, <2>1 DEF ConnectToPair, IInv, Types, ScansShown, Account, FileFollows, Saving,
       RepliesGenuine, StoredStays, PairedIsGenuine, RotationStops, Stages, NoDevice,
       disk_vars, server_vars, run_vars
<1>3. CASE ConnectToLogin
  <2>1. Types' /\ ScansShown' /\ Account' /\ RotationStops'
    BY <1>3 DEF ConnectToLogin, IInv, Types, ScansShown, Account, RotationStops, Stages,
       disk_vars, server_vars, run_vars
  <2> QED
    BY <1>3, <2>1, SameDevices DEF ConnectToLogin, disk_vars, server_vars, run_vars
<1>4. CASE Registered
  <2>1. Types' /\ ScansShown' /\ Account' /\ RotationStops'
    BY <1>4 DEF Registered, IInv, Types, ScansShown, Account, RotationStops, Stages,
       disk_vars, server_vars, run_vars
  <2> QED
    BY <1>4, <2>1, SameDevices DEF Registered, disk_vars, server_vars, run_vars
<1>5. CASE RegisterFails
  <2>1. Types' /\ ScansShown' /\ Account' /\ RotationStops'
    BY <1>5 DEF RegisterFails, IInv, Types, ScansShown, Account, RotationStops, Stages,
       disk_vars, server_vars, run_vars
  <2> QED
    BY <1>5, <2>1, SameDevices DEF RegisterFails, disk_vars, server_vars, run_vars
<1>6. CASE RotateQr
  <2>1. \A t \in rotations' :
          /\ t \in Rotation
          /\ t.displaced \/ (t.by = attempt /\ pc \in {"pairing", "replying"})
    BY <1>6 DEF RotateQr, IInv, Types, RotationStops, Rotation
  <2> QED
    BY <1>6, <2>1 DEF RotateQr, IInv, Types, ScansShown, Account, FileFollows, Saving,
       RepliesGenuine, StoredStays, PairedIsGenuine, RotationStops, disk_vars, server_vars
<1>7. CASE Scan
  BY <1>7 DEF Scan, IInv, Types, ScansShown, Account, FileFollows, Saving, RepliesGenuine,
     StoredStays, PairedIsGenuine, RotationStops, disk_vars, run_vars
<1>8. CASE PairSuccess
  BY <1>8, PairSuccessStep
<1>9. CASE Replied
  BY <1>9, RepliedStep
<1>10. CASE PairingFails
  <2>1. Types' /\ ScansShown' /\ Account' /\ RotationStops'
    BY <1>10, CancelledDisplaced DEF PairingFails, IInv, Types, ScansShown, Account,
       RotationStops, Stages, disk_vars, server_vars
  <2> QED
    BY <1>10, <2>1, SameDevices DEF PairingFails, disk_vars, server_vars
<1>11. CASE ServerLinks
  BY <1>11 DEF ServerLinks, IInv, Types, ScansShown, Account, FileFollows, Saving,
     RepliesGenuine, StoredStays, PairedIsGenuine, RotationStops, disk_vars, run_vars
<1>12. CASE ReplyLost
  BY <1>12 DEF ReplyLost, IInv, Types, ScansShown, Account, FileFollows, Saving,
     RepliesGenuine, StoredStays, PairedIsGenuine, RotationStops, disk_vars, run_vars
<1>13. CASE Mkstemp
  BY <1>13 DEF Mkstemp, IInv, Types, ScansShown, Account, FileFollows, Saving,
     RepliesGenuine, StoredStays, PairedIsGenuine, RotationStops, server_vars, run_vars
<1>14. CASE WriteTemp
  BY <1>14 DEF WriteTemp, Fsync, IInv, Types, ScansShown, Account, FileFollows, Saving,
     RepliesGenuine, StoredStays, PairedIsGenuine, RotationStops, server_vars, run_vars
<1>15. CASE Replace
  BY <1>15, ReplaceStep
<1>16. CASE SyncDirectory
  BY <1>16, SyncDirectoryStep
<1>17. CASE SaveFails
  BY <1>17 DEF SaveFails, IInv, Types, ScansShown, Account, FileFollows, Saving,
     RepliesGenuine, StoredStays, PairedIsGenuine, RotationStops, Stages, server_vars, run_vars
<1>18. CASE LoggedIn
  <2>1. Types' /\ ScansShown' /\ Account' /\ RotationStops'
    BY <1>18 DEF LoggedIn, IInv, Types, ScansShown, Account, RotationStops, Stages,
       disk_vars, server_vars, run_vars
  <2> QED
    BY <1>18, <2>1, SameDevices DEF LoggedIn, disk_vars, server_vars, run_vars
<1>19. CASE LoginFails
  <2>1. Types' /\ ScansShown' /\ Account' /\ RotationStops'
    BY <1>19 DEF LoginFails, IInv, Types, ScansShown, Account, RotationStops, Stages,
       disk_vars, server_vars, run_vars
  <2> QED
    BY <1>19, <2>1, SameDevices DEF LoginFails, disk_vars, server_vars, run_vars
<1>20. CASE Disconnect
  <2>1. Types' /\ ScansShown' /\ Account' /\ RotationStops'
    BY <1>20 DEF Disconnect, IInv, Types, ScansShown, Account, RotationStops, Stages,
       disk_vars, server_vars, run_vars
  <2> QED
    BY <1>20, <2>1, SameDevices DEF Disconnect, disk_vars, server_vars, run_vars
<1>21. CASE Success
  <2>1. dev \in Stored /\ dev # NoDevice /\ dev.jid
    BY <1>21 DEF Success, IInv, Types, Account, NoDevice
  <2>2. dev' \in Stored /\ dev'.jid = dev.jid /\ dev'.keys = dev.keys
    BY <1>21, <2>1 DEF Success, Stored
  <2> QED
    BY <1>21, <2>1, <2>2 DEF Success, IInv, Types, ScansShown, Account, FileFollows, Saving,
       RepliesGenuine, StoredStays, PairedIsGenuine, RotationStops, server_vars, run_vars
<1>22. CASE Crash
  BY <1>22, CrashStep
<1>23. ASSUME NEW n \in Refs, PairDevice(n) PROVE IInv'
  BY <1>23, PairDeviceStep
<1>24. CASE UNCHANGED vars
  BY <1>24 DEF vars, IInv, Types, ScansShown, Account, FileFollows, Saving, RepliesGenuine,
     StoredStays, PairedIsGenuine, RotationStops, disk_vars, server_vars, run_vars
<1> QED
  BY <1>1, <1>2, <1>3, <1>4, <1>5, <1>6, <1>7, <1>8, <1>9, <1>10, <1>11, <1>12, <1>13, <1>14,
     <1>15, <1>16, <1>17, <1>18, <1>19, <1>20, <1>21, <1>22, <1>23, <1>24 DEF Next

LEMMA Invariance == Spec => []IInv
BY InitIInv, NextIInv, PTL DEF Spec

(* A device that counts as paired, in memory or on disk, was scanned from  *)
(* a QR of ours and its reply went out, wherever a crash or a failed save  *)
(* falls: Pairer.run records nothing before it has replied.                *)
THEOREM PairedIsGenuineHolds == Spec => []PairedIsGenuine
<1>1. IInv => PairedIsGenuine
  BY DEF IInv
<1> QED
  BY <1>1, Invariance, PTL

(* After Pairer.run has ended only a displaced rotation still shows QRs.   *)
THEOREM RotationStopsHolds == Spec => []RotationStops
<1>1. IInv => RotationStops
  BY DEF IInv
<1> QED
  BY <1>1, Invariance, PTL

(* No step takes the keys of a linked device away from both the process    *)
(* and the file, except a crash before a save of them has returned.        *)
LEMMA KeysKept ==
  ASSUME IInv, [Next]_vars, NEW k \in linked, Held(k)
  PROVE  Held(k)' \/ (pc' = "off" /\ k \notin stored)
<1>1. k # 0 /\ (pc = "off" => dev = NoDevice)
      /\ (pc # "off" => file = NoDevice \/ dev.keys = file.keys)
  BY DEF IInv, Types, Account, FileFollows
<1>2. CASE Load
  BY <1>1, <1>2 DEF Load, Held, NoDevice, disk_vars
<1>3. CASE ConnectToPair
  BY <1>1, <1>3 DEF ConnectToPair, MakeFresh, Held, NoDevice, disk_vars
<1>4. CASE Replied \/ Success
  <2>1. dev'.keys = dev.keys /\ file' = file
    BY <1>4 DEF Replied, Success, IInv, Types, Stored, NoDevice
  <2> QED
    BY <2>1 DEF Held
<1>5. CASE Replace
  BY <1>1, <1>5 DEF Replace, Held, NoDevice, IInv, Account
<1>6. CASE Crash
  <2>1. /\ pc' = "off"
        /\ \/ file' = file
           \/ \E left \in disk : file' = left
    BY <1>6 DEF Crash
  <2>2. k \in stored => file'.keys = k
    BY <2>1 DEF IInv, StoredStays
  <2> QED
    BY <2>1, <2>2 DEF Held
<1>7. CASE dev' = dev /\ file' = file
  BY <1>7 DEF Held
<1> QED
  BY <1>2, <1>3, <1>4, <1>5, <1>6, <1>7
     DEF Next, vars, ConnectToLogin, Registered, RegisterFails, PairDevice, RotateQr, Scan,
         PairSuccess, PairingFails, ServerLinks, ReplyLost, Mkstemp, WriteTemp, SyncDirectory,
         SaveFails, LoggedIn, LoginFails, Disconnect, disk_vars

(* The keys of a linked device are not lost: through failed saves, failed  *)
(* logins and further attempts they stay in memory, and once a save has    *)
(* returned they survive every crash.                                      *)
THEOREM LinkedKeysKeptHolds == Spec => LinkedKeysKept
<1>1. IInv /\ [Next]_vars =>
        [\A k \in linked : Held(k) => Held(k)' \/ (pc' = "off" /\ k \notin stored)]_vars
  BY KeysKept
<1> QED
  BY <1>1, Invariance, PTL DEF Spec, LinkedKeysKept
=============================================================================
