----------------------------- MODULE NoiseSocket -----------------------------
(***************************************************************************)
(* socket/transport.py NoiseSocket: the websocket, the reader task, the    *)
(* bounded inbound queue, recv_frame and disconnect.                       *)
(*                                                                         *)
(* Every variable is a function of the socket, because a client that       *)
(* reconnects makes a new NoiseSocket while tasks of the old one may still *)
(* run.  A step is what runs between two suspensions of a task.  Frames    *)
(* are numbered in the order the server sends them; the first one is the   *)
(* <success> stanza.                                                       *)
(***************************************************************************)
EXTENDS Integers, Sequences

CONSTANTS MaxSocks,  \* bound: sockets made
          MaxFrames, \* bound: frames the server sends on one socket
          MaxInPair, \* bound: frames it sends on two sockets together
          QueueMax,  \* queue_maxsize: 256 in the code
          Callers    \* the tasks that may call NoiseSocket.disconnect

ASSUME SocketAssumption ==
    /\ MaxSocks \in Nat
    /\ {MaxFrames, MaxInPair} \subseteq Nat
    /\ QueueMax \in Nat \ {0}

VARIABLES
    ws,       \* _ws is not None
    closed,   \* _closed
    exc,      \* _close_exc is not None
    inbound,  \* _inbound: frames and sentinels
    reader,   \* the reader task
    pending,  \* frames of the websocket message the reader is putting
    peer,     \* is the server's end of the websocket open
    sent,     \* frames the server has sent
    consumer, \* the task that calls recv_frame in a loop (Receiver.run)
    got,      \* the last frame recv_frame returned
    disc      \* per caller: where its disconnect() stands, and on which socket

sockVars == <<ws, closed, exc, inbound, reader, pending, peer, sent, consumer, got, disc>>

Socks == 1 .. MaxSocks
Sentinel == 0
NoSock == 0
NotCalled == [pc |-> "idle", sock |-> NoSock]

SockInit ==
    /\ ws = [s \in Socks |-> FALSE]
    /\ closed = [s \in Socks |-> FALSE]
    /\ exc = [s \in Socks |-> FALSE]
    /\ inbound = [s \in Socks |-> <<>>]
    /\ reader = [s \in Socks |-> "off"]
    /\ pending = [s \in Socks |-> <<>>]
    /\ peer = [s \in Socks |-> FALSE]
    /\ sent = [s \in Socks |-> 0]
    /\ consumer = [s \in Socks |-> "off"]
    /\ got = [s \in Socks |-> 0]
    /\ disc = [d \in Callers |-> NotCalled]

(***************************************************************************)
(* connect: the websocket is open and the reader task runs.                *)
(***************************************************************************)
SockConnect(s) ==
    /\ reader[s] = "off"
    /\ ~ closed[s]
    /\ ws' = [ws EXCEPT ![s] = TRUE]
    /\ peer' = [peer EXCEPT ![s] = TRUE]
    /\ reader' = [reader EXCEPT ![s] = "run"]
    /\ UNCHANGED <<closed, exc, inbound, pending, sent, consumer, got, disc>>

(***************************************************************************)
(* _reader_loop: one websocket message may stack several frames; each is   *)
(* put into the queue, and put waits while the queue is full.  A message   *)
(* that does not parse is put whole, as one frame that will not            *)
(* authenticate; a PING or PONG payload changes nothing.                   *)
(***************************************************************************)
ReaderMessage(s, k) ==
    /\ reader[s] = "run"
    /\ peer[s]
    /\ sent[s] + k <= MaxFrames
    /\ \A t \in Socks \ {s} : sent[s] + k + sent[t] <= MaxInPair
    /\ pending' = [pending EXCEPT ![s] = [i \in 1 .. k |-> sent[s] + i]]
    /\ sent' = [sent EXCEPT ![s] = @ + k]
    /\ reader' = [reader EXCEPT ![s] = "put"]
    /\ UNCHANGED <<ws, closed, exc, inbound, peer, consumer, got, disc>>

Room(s) == QueueMax - Len(inbound[s])
Fits(s) == IF Len(pending[s]) <= Room(s) THEN Len(pending[s]) ELSE Room(s)

\* Mutant: frames that do not fit are dropped.
Rest_dropped(s, k) == <<>>

Rest(s, k) == SubSeq(pending[s], k + 1, Len(pending[s]))

ReaderPut(s) ==
    /\ reader[s] = "put"
    /\ Room(s) > 0
    /\ inbound' = [inbound EXCEPT ![s] = @ \o SubSeq(pending[s], 1, Fits(s))]
    /\ pending' = [pending EXCEPT ![s] = Rest(s, Fits(s))]
    /\ reader' = [reader EXCEPT ![s] = IF Rest(s, Fits(s)) = <<>> THEN "run" ELSE "put"]
    /\ UNCHANGED <<ws, closed, exc, peer, sent, consumer, got, disc>>

\* The end of _reader_loop: put_nowait of the sentinel, given up when the queue is full.
\* Mutant: no sentinel.
WakeUp_never(s) == inbound

\* Mutant: the sentinel is put whether there is room or not.
WakeUp_forced(s) == [inbound EXCEPT ![s] = Append(@, Sentinel)]

WakeUp(s) ==
    IF Room(s) > 0 THEN [inbound EXCEPT ![s] = Append(@, Sentinel)] ELSE inbound

\* The server closes, an error, EOF or a CLOSE payload ends the loop with a reason.
ReaderEnds(s) ==
    /\ reader[s] = "run"
    /\ exc' = [exc EXCEPT ![s] = TRUE]
    /\ closed' = [closed EXCEPT ![s] = TRUE]
    /\ inbound' = WakeUp(s)
    /\ peer' = [peer EXCEPT ![s] = FALSE]
    /\ reader' = [reader EXCEPT ![s] = "done"]
    /\ UNCHANGED <<ws, pending, sent, consumer, got, disc>>

\* disconnect cancelled the task: the loop ends without a reason.
ReaderCancelled(s) ==
    /\ reader[s] = "cancel"
    /\ inbound' = WakeUp(s)
    /\ pending' = [pending EXCEPT ![s] = <<>>]
    /\ reader' = [reader EXCEPT ![s] = "done"]
    /\ UNCHANGED <<ws, closed, exc, peer, sent, consumer, got, disc>>

(***************************************************************************)
(* recv_frame: raises at once when the socket closed for a reason and the  *)
(* queue is empty, else takes the head of the queue or waits for one.  A   *)
(* frame that does not authenticate makes the transport's recv raise, and  *)
(* Receiver.run returns with the socket open and its reader running.       *)
(***************************************************************************)
Take(s) ==
    LET item == Head(inbound[s])
    IN  /\ inbound' = [inbound EXCEPT ![s] = Tail(@)]
        /\ \/ /\ item = Sentinel
              /\ consumer' = [consumer EXCEPT ![s] = "ended"]
              /\ UNCHANGED got
           \/ /\ item # Sentinel
              /\ \E next \in {"busy", "failed"} : consumer' = [consumer EXCEPT ![s] = next]
              /\ got' = [got EXCEPT ![s] = item]

RecvFrame(s) ==
    /\ consumer[s] = "busy"
    /\ \/ inbound[s] # <<>> /\ Take(s)
       \/ /\ inbound[s] = <<>>
          /\ consumer' = [consumer EXCEPT ![s] = IF closed[s] /\ exc[s] THEN "ended" ELSE "get"]
          /\ UNCHANGED <<inbound, got>>
    /\ UNCHANGED <<ws, closed, exc, reader, pending, peer, sent, disc>>

RecvWakes(s) ==
    /\ consumer[s] = "get"
    /\ inbound[s] # <<>>
    /\ Take(s)
    /\ UNCHANGED <<ws, closed, exc, reader, pending, peer, sent, disc>>

(***************************************************************************)
(* The handler of a frame after <success> awaits what only a later frame   *)
(* can bring: a retry receipt without keys fetches a bundle inline and     *)
(* without a timeout (DispatchDrains in SignalSession).                    *)
(***************************************************************************)
HandlerBlocks(s) ==
    /\ consumer[s] = "busy"
    /\ got[s] > 1
    /\ consumer' = [consumer EXCEPT ![s] = "stuck"]
    /\ UNCHANGED <<ws, closed, exc, inbound, reader, pending, peer, sent, got, disc>>

(***************************************************************************)
(* disconnect by the task d: returns at once when another call has begun;  *)
(* otherwise it cancels the reader and awaits it, closes the websocket,    *)
(* and puts a sentinel, for which it waits while the queue is full.        *)
(***************************************************************************)
Idle(d) == disc[d] = NotCalled

\* Mutant: the reader is awaited but not cancelled.
CancelReader_forgotten(s) == reader

CancelReader(s) == [reader EXCEPT ![s] = IF @ \in {"run", "put"} THEN "cancel" ELSE @]

DiscBegin(d, s) ==
    /\ Idle(d)
    /\ IF closed[s] /\ ~ ws[s]
       THEN UNCHANGED <<disc, ws, closed, reader>>
       ELSE /\ disc' = [disc EXCEPT ![d] = [pc |-> "reader", sock |-> s]]
            /\ closed' = [closed EXCEPT ![s] = TRUE]
            /\ ws' = [ws EXCEPT ![s] = FALSE]
            /\ reader' = CancelReader(s)
    /\ UNCHANGED <<exc, inbound, pending, peer, sent, consumer, got>>

DiscClose(d) ==
    /\ disc[d].pc = "reader"
    /\ reader[disc[d].sock] \in {"off", "done"}
    /\ peer' = [peer EXCEPT ![disc[d].sock] = FALSE]
    /\ disc' = [disc EXCEPT ![d].pc = "put"]
    /\ UNCHANGED <<ws, closed, exc, inbound, reader, pending, sent, consumer, got>>

DiscPut(d) ==
    /\ disc[d].pc = "put"
    /\ Room(disc[d].sock) > 0
    /\ inbound' = [inbound EXCEPT ![disc[d].sock] = Append(@, Sentinel)]
    /\ disc' = [disc EXCEPT ![d] = NotCalled]
    /\ UNCHANGED <<ws, closed, exc, reader, pending, peer, sent, consumer, got>>

\* What the tasks of a socket do by themselves.
SockStep(s) ==
    \/ \E k \in 1 .. 2 : ReaderMessage(s, k)
    \/ ReaderPut(s) \/ ReaderEnds(s) \/ ReaderCancelled(s)
    \/ RecvFrame(s) \/ RecvWakes(s) \/ HandlerBlocks(s)

DiscStep(d) == DiscClose(d) \/ DiscPut(d)

-----------------------------------------------------------------------------
SockTypeOK ==
    /\ {ws, closed, exc, peer} \subseteq [Socks -> BOOLEAN]
    /\ \A s \in Socks :
        /\ inbound[s] \in Seq(0 .. MaxFrames)
        /\ Len(inbound[s]) <= QueueMax
        /\ pending[s] \in Seq(1 .. MaxFrames)
    /\ reader \in [Socks -> {"off", "run", "put", "cancel", "done"}]
    /\ sent \in [Socks -> 0 .. MaxFrames]
    /\ consumer \in [Socks -> {"off", "busy", "get", "stuck", "failed", "ended", "cancelled"}]
    /\ got \in [Socks -> 0 .. MaxFrames]
    /\ disc \in [Callers -> [pc : {"idle", "reader", "put"}, sock : Socks \cup {NoSock}]]

(* recv_frame returns the server's frames in order and without a gap: what *)
(* is queued and what the reader still holds continues exactly where the   *)
(* consumer stands, also when messages stack frames and the queue is full; *)
(* it ends with the last frame sent until the socket closes, and no frame  *)
(* waits behind a sentinel, which ends the consumer.                       *)
FramesInOrder ==
    \A s \in Socks :
        LET line == inbound[s] \o pending[s]
        IN  /\ ~ closed[s] => line = [i \in 1 .. sent[s] - got[s] |-> got[s] + i]
            /\ \A i \in 1 .. Len(line) :
                \/ line[i] = got[s] + i
                \/ \A j \in i .. Len(line) : line[j] = Sentinel
=============================================================================
