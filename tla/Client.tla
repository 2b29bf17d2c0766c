-------------------------------- MODULE Client --------------------------------
(***************************************************************************)
(* The life of a Client (client.py): connect, the background task that     *)
(* runs the receiver, the keepalive of the SessionActivator                *)
(* (messaging/activator.py), and disconnect, over NoiseSocket.             *)
(*                                                                         *)
(* The application is one task that awaits each call before the next: it   *)
(* connects when it is not connected (after disconnect() or on the         *)
(* `disconnected' event) and may call disconnect at any other time.  A     *)
(* connection has the number of its socket.  Left out: QR pairing, which   *)
(* uses a socket of its own and then logs in, and what the handlers of     *)
(* frames do (SignalSession).                                              *)
(***************************************************************************)
EXTENDS NoiseSocket

CONSTANT MaxPingFailures \* max_ping_failures: 3 in the code

ASSUME ClientAssumption ==
    /\ MaxPingFailures \in Nat \ {0}
    /\ Callers = {"user", "fatal", "login"}

VARIABLES
    app,        \* the application task: idle, or the call it is in
    connected,  \* _connected
    sockRef,    \* _sock
    bgRef,      \* _bg_task
    actRef,     \* _activator
    closedEv,   \* _closed, which wait_closed awaits
    bg,         \* per connection: its background task
    stopped,    \* per connection: SessionActivator._closed
    ping,       \* per connection: its ping loop
    failures,   \* per connection: consecutive ping failures
    already,    \* disconnect(): there was nothing to close
    events      \* history, per connection: `disconnected' events while it was current

clientVars == <<app, connected, sockRef, bgRef, actRef, closedEv, bg, stopped, ping, failures,
                already, events>>
vars == <<sockVars, clientVars>>

Init ==
    /\ SockInit
    /\ app = "idle"
    /\ connected = FALSE
    /\ sockRef = NoSock
    /\ bgRef = NoSock
    /\ actRef = NoSock
    /\ closedEv = FALSE
    /\ bg = [s \in Socks |-> "none"]
    /\ stopped = [s \in Socks |-> FALSE]
    /\ ping = [s \in Socks |-> "off"]
    /\ failures = [s \in Socks |-> 0]
    /\ already = FALSE
    /\ events = [s \in Socks |-> 0]

\* The latest connection, to which the application attributes an event.
Current == CHOOSE s \in Socks \cup {NoSock} :
    /\ s # NoSock => bg[s] # "none"
    /\ \A t \in Socks : bg[t] # "none" => t <= s

Emitted(e) == IF Current = NoSock THEN e ELSE [e EXCEPT ![Current] = @ + 1]

-----------------------------------------------------------------------------
(***************************************************************************)
(* connect, _run_login: open the socket, then the Noise handshake.         *)
(***************************************************************************)
Connect(s) ==
    /\ app = "idle"
    /\ ~ connected
    /\ \A t \in Socks : (reader[t] = "off") = (t >= s)
    /\ SockConnect(s)
    /\ app' = "login"
    /\ UNCHANGED <<connected, sockRef, bgRef, actRef, closedEv, bg, stopped, ping, failures,
                   already, events>>

Opening(s) == reader[s] # "off" /\ bg[s] = "none" /\ \A t \in Socks : t > s => reader[t] = "off"

\* The handshake is done: messaging is installed, and the handlers of `connected' are awaited.
LoginDone(s) ==
    /\ app = "login"
    /\ Opening(s)
    /\ sockRef' = s
    /\ actRef' = s
    /\ connected' = TRUE
    /\ app' = "emit"
    /\ UNCHANGED <<sockVars, bgRef, closedEv, bg, stopped, ping, failures, already, events>>

\* They have returned: the background task is made, and connect returns.
LoginReturns ==
    /\ app = "emit"
    /\ bgRef' = sockRef
    /\ bg' = [bg EXCEPT ![sockRef] = "new"]
    /\ app' = "idle"
    /\ UNCHANGED <<sockVars, connected, sockRef, actRef, closedEv, stopped, ping, failures,
                   already, events>>

\* The handshake raises, or, with _sock set, the opening of the stores: the socket is
\* closed and connect raises.
LoginFails(s) ==
    /\ app = "login"
    /\ Opening(s)
    /\ DiscBegin("login", s)
    /\ sockRef' \in {sockRef, s}
    /\ app' = "login_failed"
    /\ UNCHANGED <<connected, bgRef, actRef, closedEv, bg, stopped, ping, failures, already,
                   events>>

LoginRaises ==
    /\ app = "login_failed"
    /\ Idle("login")
    /\ app' = "idle"
    /\ UNCHANGED <<sockVars, connected, sockRef, bgRef, actRef, closedEv, bg, stopped, ping,
                   failures, already, events>>

(***************************************************************************)
(* _run_background_tasks: it starts the receiver; when the receiver ends,  *)
(* also on a frame it could not authenticate, it clears _connected, sets   *)
(* _closed and emits `disconnected'.  It leaves the socket as it is.       *)
(***************************************************************************)
BgStart(s) ==
    /\ bg[s] = "new"
    /\ bg' = [bg EXCEPT ![s] = "run"]
    /\ consumer' = [consumer EXCEPT ![s] = "busy"]
    /\ UNCHANGED <<ws, closed, exc, inbound, reader, pending, peer, sent, got, disc,
                   app, connected, sockRef, bgRef, actRef, closedEv, stopped, ping, failures,
                   already, events>>

\* Mutant: the teardown does not clear _connected.
StillConnected(s) == connected

NowConnected(s) == FALSE

BgEnds(s) ==
    /\ bg[s] = "run"
    /\ consumer[s] \in {"ended", "failed"}
    /\ bg' = [bg EXCEPT ![s] = "done"]
    /\ connected' = NowConnected(s)
    /\ closedEv' = TRUE
    /\ events' = Emitted(events)
    /\ UNCHANGED <<sockVars, app, sockRef, bgRef, actRef, stopped, ping, failures, already>>

\* disconnect cancelled it: the same teardown, unless it had not started.
BgCancelled(s) ==
    /\ bg[s] = "cancel"
    /\ bg' = [bg EXCEPT ![s] = "done"]
    /\ IF consumer[s] = "off"
       THEN UNCHANGED <<consumer, connected, closedEv, events>>
       ELSE /\ consumer' = [consumer EXCEPT ![s] = IF @ \in {"ended", "failed"} THEN @
                                                  ELSE "cancelled"]
            /\ connected' = FALSE
            /\ closedEv' = TRUE
            /\ events' = Emitted(events)
    /\ UNCHANGED <<ws, closed, exc, inbound, reader, pending, peer, sent, got, disc,
                   app, sockRef, bgRef, actRef, stopped, ping, failures, already>>

-----------------------------------------------------------------------------
(***************************************************************************)
(* SessionActivator.  on_success runs in a task nobody cancels and ends    *)
(* with start_ping_loop; the loop of a stopped activator returns at once.  *)
(***************************************************************************)
\* <success>, the first frame, was handled.
Succeeded(s) == got[s] > 1 \/ (got[s] = 1 /\ consumer[s] # "failed")

PingStart(s) ==
    /\ Succeeded(s)
    /\ ping[s] = "off"
    /\ ping' = [ping EXCEPT ![s] = IF stopped[s] THEN "over" ELSE "sleep"]
    /\ UNCHANGED <<sockVars, app, connected, sockRef, bgRef, actRef, closedEv, bg, stopped,
                   failures, already, events>>

\* The socket still takes the ping: the loop awaits the answer.
PingSent(s) ==
    /\ ping[s] = "sleep"
    /\ ws[s] /\ ~ closed[s]
    /\ ping' = [ping EXCEPT ![s] = "await"]
    /\ UNCHANGED <<sockVars, app, connected, sockRef, bgRef, actRef, closedEv, bg, stopped,
                   failures, already, events>>

\* The receiver reads the answer.
PingAnswered(s) ==
    /\ ping[s] = "await"
    /\ consumer[s] \in {"busy", "get"}
    /\ ping' = [ping EXCEPT ![s] = "sleep"]
    /\ failures' = [failures EXCEPT ![s] = 0]
    /\ UNCHANGED <<sockVars, app, connected, sockRef, bgRef, actRef, closedEv, bg, stopped,
                   already, events>>

\* send raised, or the deadline passed.
PingLost(s) ==
    /\ \/ ping[s] = "sleep" /\ (closed[s] \/ ~ ws[s])
       \/ ping[s] = "await"

PingFails(s) ==
    /\ PingLost(s)
    /\ failures[s] + 1 < MaxPingFailures
    /\ ping' = [ping EXCEPT ![s] = "sleep"]
    /\ failures' = [failures EXCEPT ![s] = @ + 1]
    /\ UNCHANGED <<sockVars, app, connected, sockRef, bgRef, actRef, closedEv, bg, stopped,
                   already, events>>

(***************************************************************************)
(* One failure too many: the loop ends with on_fatal.  _on_keepalive_fatal *)
(* starts a task that closes the socket the client has now, unless there   *)
(* is none or such a task is still running; on another socket, this        *)
(* failure is "unheard".                                                   *)
(***************************************************************************)
\* Mutant: the loop ends and nobody closes the socket.
MayClose_never == FALSE

MayClose == sockRef # NoSock /\ Idle("fatal")

PingGivesUp(s) ==
    /\ PingLost(s)
    /\ failures[s] + 1 >= MaxPingFailures
    /\ ping' = [ping EXCEPT ![s] = IF disc["fatal"].sock \in {NoSock, sockRef} THEN "over"
                                   ELSE "unheard"]
    /\ failures' = [failures EXCEPT ![s] = @ + 1]
    /\ IF MayClose
       THEN DiscBegin("fatal", sockRef)
       ELSE UNCHANGED sockVars
    /\ UNCHANGED <<app, connected, sockRef, bgRef, actRef, closedEv, bg, stopped, already,
                   events>>

-----------------------------------------------------------------------------
(***************************************************************************)
(* disconnect: cancel the background task and await it ...                 *)
(***************************************************************************)
Disconnect ==
    /\ app = "idle"
    /\ already' = (~ connected /\ bgRef = NoSock /\ sockRef = NoSock)
    /\ connected' = FALSE
    /\ bg' = [s \in Socks |-> IF s = bgRef /\ bg[s] \in {"new", "run"} THEN "cancel" ELSE bg[s]]
    /\ bgRef' = NoSock
    /\ app' = "disc_bg"
    /\ UNCHANGED <<sockVars, sockRef, actRef, closedEv, stopped, ping, failures, events>>

(***************************************************************************)
(* ... then stop the activator and disconnect the socket ...               *)
(***************************************************************************)
\* Mutant: the socket is forgotten instead of closed.
CloseSocket_forgotten == UNCHANGED sockVars

CloseSocket == IF sockRef = NoSock THEN UNCHANGED sockVars ELSE DiscBegin("user", sockRef)

StopActivator ==
    /\ stopped' = [s \in Socks |-> stopped[s] \/ s = actRef]
    /\ ping' = [s \in Socks |-> IF s = actRef /\ ping[s] \in {"sleep", "await"} THEN "over"
                                ELSE ping[s]]
    /\ actRef' = NoSock

DisconnectSocket ==
    /\ app = "disc_bg"
    /\ \A s \in Socks : bg[s] # "cancel"
    /\ StopActivator
    /\ CloseSocket
    /\ sockRef' = NoSock
    /\ app' = "disc_sock"
    /\ UNCHANGED <<connected, bgRef, closedEv, bg, failures, already, events>>

(***************************************************************************)
(* ... and when that returns, set _closed and emit `disconnected'.         *)
(***************************************************************************)
DisconnectDone ==
    /\ app = "disc_sock"
    /\ Idle("user")
    /\ closedEv' = TRUE
    /\ events' = IF already THEN events ELSE Emitted(events)
    /\ already' = FALSE
    /\ app' = "idle"
    /\ UNCHANGED <<sockVars, connected, sockRef, bgRef, actRef, bg, stopped, ping, failures>>

Background(s) ==
    \/ BgStart(s) \/ BgEnds(s) \/ BgCancelled(s)
    \/ PingStart(s) \/ PingSent(s) \/ PingAnswered(s) \/ PingFails(s) \/ PingGivesUp(s)

Application ==
    \/ \E s \in Socks : Connect(s) \/ LoginDone(s) \/ LoginFails(s)
    \/ LoginReturns \/ LoginRaises \/ Disconnect \/ DisconnectSocket \/ DisconnectDone

Next ==
    \/ Application
    \/ \E s \in Socks : Background(s) \/ (SockStep(s) /\ UNCHANGED clientVars)
    \/ \E d \in Callers : DiscStep(d) /\ UNCHANGED clientVars

Spec == Init /\ [][Next]_vars

(***************************************************************************)
(* asyncio runs every task that is ready: the reader's and the receiver's  *)
(* next step, a cancelled task, a call of disconnect, a ping timer.        *)
(* Nothing makes a blocked handler return, the server send or close, or    *)
(* the application call.                                                   *)
(***************************************************************************)
FairSpec ==
    /\ Spec
    /\ \A s \in Socks :
        /\ WF_vars((ReaderPut(s) \/ ReaderCancelled(s)) /\ UNCHANGED clientVars)
        /\ WF_vars((RecvFrame(s) \/ RecvWakes(s)) /\ UNCHANGED clientVars)
        /\ WF_vars(BgStart(s) \/ BgEnds(s) \/ BgCancelled(s))
        /\ WF_vars(PingFails(s) \/ PingGivesUp(s) \/ PingAnswered(s))
    /\ \A d \in Callers : WF_vars(DiscStep(d) /\ UNCHANGED clientVars)
    /\ WF_vars(LoginRaises \/ DisconnectSocket \/ DisconnectDone)

-----------------------------------------------------------------------------
(* The socket and the client keep their types, and the failure count stays *)
(* within max_ping_failures.                                               *)
TypeOK ==
    /\ SockTypeOK
    /\ app \in {"idle", "login", "emit", "login_failed", "disc_bg", "disc_sock"}
    /\ {connected, closedEv, already} \subseteq BOOLEAN
    /\ {sockRef, bgRef, actRef} \subseteq Socks \cup {NoSock}
    /\ bg \in [Socks -> {"none", "new", "run", "cancel", "done"}]
    /\ stopped \in [Socks -> BOOLEAN]
    /\ ping \in [Socks -> {"off", "sleep", "await", "over", "unheard"}]
    /\ failures \in [Socks -> 0 .. MaxPingFailures]
    /\ events \in [Socks -> Nat]

Disconnecting(s) == \E d \in Callers : disc[d].sock = s

(* The only connection that is leaked is one whose receiver stopped on a   *)
(* frame it could not authenticate: any other socket whose reader runs is  *)
(* the client's current one, is being logged in on, or is being closed,    *)
(* however reconnects, a failing login, the keepalive and disconnect       *)
(* interleave.  Until the application reconnects, that socket is current   *)
(* too, and disconnect closes it.                                          *)
LeftOpen(s) == consumer[s] = "failed" /\ bg[s] = "done" /\ sockRef # s

NoLeakedConnection ==
    \A s \in Socks :
        reader[s] \in {"run", "put", "cancel"} =>
            sockRef = s \/ (app = "login" /\ Opening(s)) \/ Disconnecting(s) \/ LeftOpen(s)

(* _connected never lies: while it is set, connect is still awaiting the   *)
(* handlers of `connected', or the current socket has a background task    *)
(* that has not ended, so somebody will notice its end and clear the flag. *)
ConnectedIsSupervised ==
    connected =>
        \/ app = "emit" /\ Opening(sockRef)
        \/ sockRef # NoSock /\ bgRef = sockRef /\ bg[sockRef] \in {"new", "run"}

(* A session that dies is noticed: when a socket closes, by the server, by *)
(* an error or by the keepalive, with whatever is in the queue, the        *)
(* background task ends and its teardown emits a single `disconnected' (a  *)
(* later disconnect() adds one of its own), unless the handler of a frame  *)
(* is blocked, which then never reads the sentinel.                        *)
SessionEnds ==
    \A s \in Socks :
        bg[s] = "run" /\ closed[s]
            ~> (bg[s] = "done" /\ events[s] = 1) \/ consumer[s] = "stuck"

(* The keepalive ends what it gave up on: a connection whose ping loop has *)
(* failed too often does not stay in use, unless the task that closes an   *)
(* earlier socket is still at it, in which case _on_keepalive_fatal does   *)
(* nothing, or the handler of a frame is blocked: the socket is closed,    *)
(* but nobody reads that.                                                  *)
KeepaliveCloses ==
    \A s \in Socks :
        failures[s] = MaxPingFailures /\ sockRef = s
            ~> ~ connected \/ sockRef # s \/ ping[s] = "unheard"
               \/ (closed[s] /\ consumer[s] = "stuck")

(* Client.disconnect returns, whatever the reader, the background task and *)
(* the keepalive's closing task are doing, with one exception: the inbound *)
(* queue was full when the receiver was cancelled, and the last line of    *)
(* NoiseSocket.disconnect waits for room that nobody makes any more.       *)
QueueFull == disc["user"].pc = "put" /\ Room(disc["user"].sock) = 0

DisconnectReturns == app \in {"disc_bg", "disc_sock"} ~> app = "idle" \/ QueueFull
=============================================================================
