---------------------------- MODULE NoiseTransport ----------------------------
(***************************************************************************)
(* socket/noise.py: NoiseHandshake.perform, which runs the XX handshake    *)
(* over a frame channel, and NoiseTransport.send and recv after it.        *)
(*                                                                         *)
(* The other end is a peer that runs the same classes with the roles of es *)
(* and se exchanged (the way tests/fakeserver/noise.py does).  The channel *)
(* is NoiseSocket (modelled in its own module): frames arrive in order, a  *)
(* close loses the ones that are not in the inbound queue, and send_frame  *)
(* may raise.  A task cancelled while it waits for the send lock has done  *)
(* nothing, and one cancelled after its frame was written loses only the   *)
(* return value, so neither is a step here.                                *)
(***************************************************************************)
EXTENDS NoiseHandshake

CONSTANTS MaxMsgs,       \* bound: messages a side sends
          MaxCancels,    \* bound: calls of recv that are cancelled
          RekeyInterval  \* _REKEY_INTERVAL: 2^31 in the code

ASSUME TransportAssumption ==
    /\ MaxMsgs \in Nat
    /\ MaxCancels \in Nat
    /\ RekeyInterval \in Nat \ {0}

VARIABLES
    pc,        \* per role: where its handshake stands
    hs,        \* per role: _state
    up,        \* the channel is open
    wire,      \* per role: frames it has sent and the other has not taken
    sendCs,    \* per role: _send
    recvCs,    \* per role: _recv
    pending,   \* per role: frames of the tasks inside `async with _send_lock'
    reading,   \* per role: the task that calls recv
    cancels,   \* cancelled calls of recv
    limit,     \* per role: history, messages accepted before a frame was counted and not sent
    calls,     \* per role: messages given to send
    accepted,  \* per role: messages whose frame was written
    delivered, \* per role: messages of this sender that recv returned to the other
    sealed     \* history: what each key and nonce has sealed

hsVars == <<pc, hs>>
csVars == <<sendCs, recvCs, pending, reading, cancels, limit, calls, accepted, delivered, sealed>>
vars == <<hsVars, up, wire, csVars>>

Prologue == "WA63"
NoCipher == [k |-> NoKey, n |-> 0]
Unlimited == MaxMsgs + 1

Init ==
    /\ pc = [r \in Roles |-> "start"]
    /\ hs = [r \in Roles |-> HandshakeState(r, Prologue)]
    /\ up = TRUE
    /\ wire = [r \in Roles |-> <<>>]
    /\ sendCs = [r \in Roles |-> NoCipher]
    /\ recvCs = [r \in Roles |-> NoCipher]
    /\ pending = [r \in Roles |-> <<>>]
    /\ reading = [r \in Roles |-> "idle"]
    /\ cancels = 0
    /\ limit = [r \in Roles |-> Unlimited]
    /\ calls = [r \in Roles |-> 0]
    /\ accepted = [r \in Roles |-> <<>>]
    /\ delivered = [r \in Roles |-> <<>>]
    /\ sealed = {}

-----------------------------------------------------------------------------
(***************************************************************************)
(* perform, leg 1: -> e.                                                   *)
(***************************************************************************)
ClientHello ==
    /\ pc[Initiator] = "start"
    /\ up
    /\ \E w \in {WriteMessage(hs[Initiator], Empty)} :
        /\ hs' = [hs EXCEPT ![Initiator] = w.hs]
        /\ wire' = [wire EXCEPT ![Initiator] = Append(@, w.out)]
    /\ pc' = [pc EXCEPT ![Initiator] = "hello"]
    /\ UNCHANGED <<up, csVars>>

\* The peer answers: <- e, ee, s, es.
HelloReply(hello) == WriteMessage(ReadMessage(hs[Responder], hello).hs, Empty)

ServerHello ==
    /\ pc[Responder] = "start"
    /\ up
    /\ wire[Initiator] # <<>>
    /\ \E w \in {HelloReply(Head(wire[Initiator]))} :
        /\ hs' = [hs EXCEPT ![Responder] = w.hs]
        /\ wire' = [wire EXCEPT ![Initiator] = Tail(@), ![Responder] = <<w.out>>]
    /\ pc' = [pc EXCEPT ![Responder] = "hello"]
    /\ UNCHANGED <<up, csVars>>

\* A peer that is broken, or that speaks another version: the hello is empty, cut off, or
\* made with another prologue.
BadHellos(hello) ==
    LET other == [hs[Responder] EXCEPT !.ss = HandshakeState(Responder, "other").ss]
        w == WriteMessage(ReadMessage(other, hello).hs, Empty)
    IN  {<<>>, SubSeq(w.out, 1, 1), SubSeq(w.out, 1, 2), w.out}

ServerHelloBad ==
    /\ pc[Responder] = "start"
    /\ up
    /\ wire[Initiator] # <<>>
    /\ \E bad \in BadHellos(Head(wire[Initiator])) :
        wire' = [wire EXCEPT ![Initiator] = Tail(@), ![Responder] = <<bad>>]
    /\ pc' = [pc EXCEPT ![Responder] = "deviant"]
    /\ UNCHANGED <<hs, up, csVars>>

\* The two halves of split: c1 is the initiator's send, c2 its recv.
Ciphers(ss, r) == [send |-> Split(ss, r), recv |-> Split(ss, Other(r))]

Established(r, ss) ==
    /\ sendCs' = [sendCs EXCEPT ![r] = Ciphers(ss, r).send]
    /\ recvCs' = [recvCs EXCEPT ![r] = Ciphers(ss, r).recv]
    /\ pc' = [pc EXCEPT ![r] = "open"]

(***************************************************************************)
(* perform, legs 2 and 3: read the hello; write -> s, se and the payload.  *)
(* An error ends the handshake, and the caller closes the channel.         *)
(***************************************************************************)
\* Mutant: a hello that does not authenticate is used all the same.
HelloRead_unchecked(hello) == [ReadMessage(hs[Initiator], hello) EXCEPT !.ok = hello # <<>>]

HelloRead(hello) == ReadMessage(hs[Initiator], hello)

Login == <<Initiator, "login">>

ClientFinish ==
    /\ pc[Initiator] = "hello"
    /\ up
    /\ wire[Responder] # <<>>
    /\ \E rd \in {HelloRead(Head(wire[Responder]))} :
        /\ rd.ok
        /\ \E w \in {WriteMessage(rd.hs, Login)} :
            /\ hs' = [hs EXCEPT ![Initiator] = w.hs]
            /\ wire' = [wire EXCEPT ![Responder] = Tail(@), ![Initiator] = Append(@, w.out)]
            /\ Established(Initiator, w.hs.ss)
    /\ UNCHANGED <<up, pending, reading, cancels, limit, calls, accepted, delivered, sealed>>

ClientRejects ==
    /\ pc[Initiator] = "hello"
    /\ wire[Responder] # <<>>
    /\ ~ HelloRead(Head(wire[Responder])).ok
    /\ pc' = [pc EXCEPT ![Initiator] = "failed"]
    /\ up' = FALSE
    /\ wire' = [r \in Roles |-> <<>>]
    /\ UNCHANGED <<hs, csVars>>

\* send_frame or recv_frame raises because the channel has closed.
HandshakeBroken(r) ==
    /\ pc[r] \in {"start", "hello"}
    /\ ~ up
    /\ r = Initiator \/ pc[r] = "start" \/ wire[Other(r)] = <<>>
    /\ pc' = [pc EXCEPT ![r] = "failed"]
    /\ UNCHANGED <<hs, up, wire, csVars>>

ServerFinish ==
    /\ pc[Responder] = "hello"
    /\ wire[Initiator] # <<>>
    /\ \E rd \in {ReadMessage(hs[Responder], Head(wire[Initiator]))} :
        /\ wire' = [wire EXCEPT ![Initiator] = Tail(@)]
        /\ IF rd.ok
           THEN /\ hs' = [hs EXCEPT ![Responder] = rd.hs]
                /\ Established(Responder, rd.hs.ss)
           ELSE /\ pc' = [pc EXCEPT ![Responder] = "failed"]
                /\ UNCHANGED <<hs, sendCs, recvCs>>
    /\ UNCHANGED <<up, pending, reading, cancels, limit, calls, accepted, delivered, sealed>>

-----------------------------------------------------------------------------
(***************************************************************************)
(* send: under the lock, rekey when it is due, seal with the next nonce    *)
(* and hand the frame to send_frame.                                       *)
(***************************************************************************)
\* Mutant: no lock.
LockFree_always(r) == TRUE

LockFree(r) == pending[r] = <<>>

Due(cs) == cs.n >= RekeyInterval

Fresh(cs) == IF Due(cs) THEN Rekey(cs) ELSE cs

Message(r) == <<r, calls[r] + 1>>

Send(r) ==
    /\ pc[r] = "open"
    /\ calls[r] < MaxMsgs
    /\ LockFree(r)
    /\ \E cs \in {Fresh(sendCs[r])} :
        /\ sendCs' = [sendCs EXCEPT ![r] = Counted(cs)]
        /\ pending' = [pending EXCEPT ![r] = Append(@, Seal(cs, <<>>, Message(r)))]
        /\ sealed' = sealed \cup {Seal(cs, <<>>, Message(r))}
    /\ calls' = [calls EXCEPT ![r] = @ + 1]
    /\ UNCHANGED <<hsVars, up, wire, recvCs, reading, cancels, limit, accepted, delivered>>

FrameSent(r, i) ==
    /\ up
    /\ wire' = [wire EXCEPT ![r] = Append(@, <<pending[r][i]>>)]
    /\ pending' = [pending EXCEPT ![r] = RemoveAt(@, i)]
    /\ accepted' = [accepted EXCEPT ![r] = Append(@, pending[r][i].p)]
    /\ UNCHANGED <<hsVars, up, sendCs, recvCs, reading, cancels, limit, calls, delivered, sealed>>

\* send_frame raises: the frame is too large, or the channel is closed.  The nonce is spent.
FrameRefused(r, i) ==
    /\ pending' = [pending EXCEPT ![r] = RemoveAt(@, i)]
    /\ limit' = [limit EXCEPT ![r] = Min({@, Len(accepted[r])})]
    /\ UNCHANGED <<hsVars, up, wire, sendCs, recvCs, reading, cancels, calls, accepted, delivered,
                   sealed>>

(***************************************************************************)
(* recv: under its lock, rekey when it is due, then await a frame and open *)
(* it.  A failure leaves the counter alone and ends the reader.            *)
(***************************************************************************)
\* Mutant: the receiver rekeys one frame late.
RecvFresh_late(cs) == IF cs.n > RekeyInterval THEN Rekey(cs) ELSE cs

RecvFresh(cs) == IF Due(cs) THEN Rekey(cs) ELSE cs

Recv(r) ==
    /\ pc[r] = "open"
    /\ reading[r] = "idle"
    /\ recvCs' = [recvCs EXCEPT ![r] = RecvFresh(@)]
    /\ reading' = [reading EXCEPT ![r] = "await"]
    /\ UNCHANGED <<hsVars, up, wire, sendCs, pending, cancels, limit, calls, accepted, delivered,
                   sealed>>

RecvFrame(r) ==
    /\ reading[r] = "await"
    /\ wire[Other(r)] # <<>>
    /\ wire' = [wire EXCEPT ![Other(r)] = Tail(@)]
    /\ \E piece \in {Head(Head(wire[Other(r)]))} :
        IF Opens(recvCs[r], <<>>, piece)
        THEN /\ recvCs' = [recvCs EXCEPT ![r] = Counted(@)]
             /\ delivered' = [delivered EXCEPT ![Other(r)] = Append(@, piece.p)]
             /\ reading' = [reading EXCEPT ![r] = "idle"]
        ELSE /\ reading' = [reading EXCEPT ![r] = "stopped"]
             /\ UNCHANGED <<recvCs, delivered>>
    /\ UNCHANGED <<hsVars, up, sendCs, pending, cancels, limit, calls, accepted, sealed>>

\* wait_for around recv times out, and the caller calls it again.
RecvCancelled(r) ==
    /\ reading[r] = "await"
    /\ cancels < MaxCancels
    /\ cancels' = cancels + 1
    /\ reading' = [reading EXCEPT ![r] = "idle"]
    /\ UNCHANGED <<hsVars, up, wire, sendCs, recvCs, pending, limit, calls, accepted, delivered,
                   sealed>>

RecvClosed(r) ==
    /\ reading[r] = "await"
    /\ ~ up
    /\ wire[Other(r)] = <<>>
    /\ reading' = [reading EXCEPT ![r] = "stopped"]
    /\ UNCHANGED <<hsVars, up, wire, sendCs, recvCs, pending, cancels, limit, calls, accepted,
                   delivered, sealed>>

\* The channel closes: each side keeps the frames that are in its inbound queue.
Close ==
    /\ up
    /\ up' = FALSE
    /\ \E keep \in [Roles -> 0 .. MaxMsgs + 1] :
        /\ \A r \in Roles : keep[r] <= Len(wire[r])
        /\ wire' = [r \in Roles |-> SubSeq(wire[r], 1, keep[r])]
    /\ UNCHANGED <<hsVars, csVars>>

Handshake ==
    \/ ClientHello \/ ServerHello \/ ServerHelloBad \/ ClientFinish \/ ClientRejects
    \/ ServerFinish \/ \E r \in Roles : HandshakeBroken(r)

Transfer(r) ==
    \/ Send(r) \/ Recv(r) \/ RecvFrame(r) \/ RecvCancelled(r) \/ RecvClosed(r)
    \/ \E i \in DOMAIN pending[r] : FrameSent(r, i) \/ FrameRefused(r, i)

Next == Handshake \/ Close \/ \E r \in Roles : Transfer(r)

(***************************************************************************)
(* Each side keeps calling recv (Receiver.run), and asyncio runs a reader  *)
(* whose frame is there.  Nobody has to send, and frames may be refused.   *)
(***************************************************************************)
Spec ==
    /\ Init /\ [][Next]_vars
    /\ WF_vars(ServerFinish)
    /\ \A r \in Roles : WF_vars(Recv(r)) /\ WF_vars(RecvFrame(r))

-----------------------------------------------------------------------------
(* A finished handshake is an agreement: the initiator opens its transport *)
(* only for a peer that made its hello from the same transcript, each side *)
(* knows the other's static key, and when both are open their hashes (the  *)
(* channel binding of handshake_hash) are equal.  And the hello of a peer  *)
(* that follows the pattern is never rejected.                             *)
HandshakeAgrees ==
    /\ pc[Initiator] = "hello" /\ pc[Responder] = "hello" /\ wire[Responder] # <<>> =>
        HelloRead(Head(wire[Responder])).ok
    /\ pc[Initiator] = "open" =>
        pc[Responder] # "deviant" /\ hs[Initiator].rs = Static(Responder)
    /\ pc[Responder] = "open" =>
        /\ hs[Responder].rs = Static(Initiator)
        /\ hs[Initiator].ss.h = hs[Responder].ss.h

(* A key and a nonce seal one frame only, over rekeys, refused frames and  *)
(* both directions, and a counter never passes the rekey interval, so no   *)
(* nonce comes near the end of its 64 bits.                                *)
NonceNeverReused ==
    /\ \A a, b \in sealed : a.k = b.k /\ a.n = b.n => a.p = b.p
    /\ \A r \in Roles : sendCs[r].n <= RekeyInterval /\ recvCs[r].n <= RekeyInterval

(* Sender and receiver stay in step: whatever is rekeyed, cancelled or     *)
(* interleaved, the next frame opens, unless an earlier frame was refused  *)
(* after its nonce was spent.                                              *)
NextFrameOpens ==
    \A r \in Roles :
        /\ reading[r] = "await"
        /\ wire[Other(r)] # <<>>
        /\ Len(delivered[Other(r)]) < limit[Other(r)]
        => Opens(recvCs[r], <<>>, Head(Head(wire[Other(r)])))

Lost(r) ==
    \/ Len(delivered[r]) >= limit[r]
    \/ reading[Other(r)] = "stopped"
    \/ ~ up /\ wire[r] = <<>>

Outbound == INSTANCE SecureChannel WITH
    accepted <- accepted[Initiator], delivered <- delivered[Initiator], lost <- Lost(Initiator)

Inbound == INSTANCE SecureChannel WITH
    accepted <- accepted[Responder], delivered <- delivered[Responder], lost <- Lost(Responder)

(* Each direction implements SecureChannel: what send has written arrives  *)
(* once, in order and without a gap.  The channel is lost when everything  *)
(* before a refused frame has arrived, when the reader has stopped, or     *)
(* when it closed and no frame is left.                                    *)
ImplementsChannel == Outbound!Spec /\ Inbound!Spec
=============================================================================
