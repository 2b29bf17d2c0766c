----------------------------- MODULE Client_proofs -----------------------------
(***************************************************************************)
(* Theorems about Client and the NoiseSocket under it: types, the order of *)
(* the frames, no leaked connection, and a _connected that never lies.     *)
(***************************************************************************)
EXTENDS Client, SequenceTheorems, TLAPS

(***************************************************************************)
(* The inductive invariant, first what is about sockets alone.             *)
(***************************************************************************)
SockTypes ==
  /\ ws \in [Socks -> BOOLEAN] /\ closed \in [Socks -> BOOLEAN]
  /\ exc \in [Socks -> BOOLEAN] /\ peer \in [Socks -> BOOLEAN]
  /\ inbound \in [Socks -> Seq(0 .. MaxFrames)]
  /\ pending \in [Socks -> Seq(1 .. MaxFrames)]
  /\ reader \in [Socks -> {"off", "run", "put", "cancel", "done"}]
  /\ sent \in [Socks -> 0 .. MaxFrames]
  /\ consumer \in [Socks -> {"off", "busy", "get", "stuck", "failed", "ended", "cancelled"}]
  /\ got \in [Socks -> 0 .. MaxFrames]
  /\ disc \in [Callers -> [pc : {"idle", "reader", "put"}, sock : Socks \cup {NoSock}]]

Live == {"run", "put", "cancel"}

(* The reader of a socket that is not closed holds the rest of a message;  *)
(* a reader lives until somebody who closes the socket awaits it; only its *)
(* end lets the consumer end.                                              *)
Reader(s) ==
  /\ reader[s] \in {"off", "run", "done"} => pending[s] = <<>>
  /\ reader[s] \in {"run", "put"} => ~closed[s]
  /\ reader[s] \in {"cancel", "done"} => closed[s]
  /\ exc[s] => reader[s] = "done"
  /\ consumer[s] = "ended" => reader[s] = "done"
  /\ reader[s] \in Live => ws[s] \/ \E d \in Callers : disc[d].sock = s /\ disc[d].pc = "reader"

(* Frames are numbered on from what the consumer has got; sentinels come   *)
(* last, and not before the reader is done.                                *)
Line(s) ==
  /\ Len(inbound[s]) <= QueueMax
  /\ \A i \in 1 .. Len(inbound[s]) : inbound[s][i] # Sentinel => inbound[s][i] = got[s] + i
  /\ \A i, j \in 1 .. Len(inbound[s]) : i <= j /\ inbound[s][i] = Sentinel => inbound[s][j] = Sentinel
  /\ \A i \in 1 .. Len(inbound[s]) : inbound[s][i] = Sentinel => reader[s] = "done"
  /\ \A i \in 1 .. Len(pending[s]) : pending[s][i] = got[s] + Len(inbound[s]) + i
  /\ ~closed[s] => got[s] + Len(inbound[s]) + Len(pending[s]) = sent[s]

Closer(d) ==
  /\ disc[d].pc = "idle" => disc[d] = NotCalled
  /\ disc[d].pc # "idle" =>
       disc[d].sock \in Socks /\ reader[disc[d].sock] # "off" /\ closed[disc[d].sock]
  /\ disc[d].pc = "put" => reader[disc[d].sock] = "done"

SockInv ==
  /\ SockTypes
  /\ \A s \in Socks : Reader(s) /\ Line(s)
  /\ \A d \in Callers : Closer(d)

-----------------------------------------------------------------------------
(* Sequences.                                                              *)
LEMMA AppendIs ==
  ASSUME NEW T, NEW s \in Seq(T), NEW x \in T
  PROVE  /\ Append(s, x) \in Seq(T) /\ Len(s) \in Nat /\ Len(Append(s, x)) = Len(s) + 1
         /\ \A i \in 1 .. Len(s) : Append(s, x)[i] = s[i]
         /\ Append(s, x)[Len(s) + 1] = x
OBVIOUS

LEMMA TailIs ==
  ASSUME NEW T, NEW s \in Seq(T), s # <<>>
  PROVE  /\ Tail(s) \in Seq(T) /\ Len(s) \in Nat /\ Len(s) >= 1 /\ Len(Tail(s)) = Len(s) - 1
         /\ \A i \in 1 .. Len(s) - 1 : Tail(s)[i] = s[i + 1]
         /\ Head(s) = s[1] /\ s[1] \in T
<1>1. Len(s) >= 1 /\ Len(s) \in Nat
  BY EmptySeq
<1> QED
  BY <1>1

LEMMA PutIs ==
  ASSUME NEW T, NEW s \in Seq(T), NEW p \in Seq(T), NEW k \in 0 .. Len(p)
  PROVE  /\ s \o SubSeq(p, 1, k) \in Seq(T) /\ Len(s \o SubSeq(p, 1, k)) = Len(s) + k
         /\ \A i \in 1 .. Len(s) : (s \o SubSeq(p, 1, k))[i] = s[i]
         /\ \A i \in 1 .. k : (s \o SubSeq(p, 1, k))[Len(s) + i] = p[i]
<1> DEFINE q == SubSeq(p, 1, k)
<1>1. q \in Seq(T) /\ Len(q) = k /\ \A i \in 1 .. k : q[i] = p[i]
  OBVIOUS
<1> HIDE DEF q
<1>2. s \o q \in Seq(T) /\ Len(s \o q) = Len(s) + k
  BY <1>1
<1>3. \A i \in 1 .. Len(s) : (s \o q)[i] = s[i]
  BY <1>1
<1>4. \A i \in 1 .. k : (s \o q)[Len(s) + i] = q[i]
  BY <1>1
<1> QED
  BY <1>1, <1>2, <1>3, <1>4 DEF q

LEMMA RestIs ==
  ASSUME NEW T, NEW p \in Seq(T), NEW k \in 0 .. Len(p)
  PROVE  /\ SubSeq(p, k + 1, Len(p)) \in Seq(T) /\ Len(SubSeq(p, k + 1, Len(p))) = Len(p) - k
         /\ \A i \in 1 .. Len(p) - k : SubSeq(p, k + 1, Len(p))[i] = p[k + i]
OBVIOUS

-----------------------------------------------------------------------------
LEMMA SockInitInv == SockInit => SockInv
<1> SUFFICES ASSUME SockInit PROVE SockInv
  OBVIOUS
<1> USE SocketAssumption DEF SockInit
<1>1. <<>> \in Seq(0 .. MaxFrames) /\ <<>> \in Seq(1 .. MaxFrames) /\ Len(<<>>) = 0
  OBVIOUS
<1>2. SockTypes
  BY <1>1 DEF SockTypes, NotCalled
<1>3. \A s \in Socks : Reader(s) /\ Line(s)
  BY <1>1 DEF Reader, Line, Live
<1>4. \A d \in Callers : Closer(d)
  BY DEF Closer, NotCalled
<1> QED
  BY <1>2, <1>3, <1>4 DEF SockInv

-----------------------------------------------------------------------------
(* The steps of a socket.                                                  *)
Same(t) ==
  /\ ws'[t] = ws[t] /\ closed'[t] = closed[t] /\ exc'[t] = exc[t] /\ inbound'[t] = inbound[t]
  /\ reader'[t] = reader[t] /\ pending'[t] = pending[t] /\ peer'[t] = peer[t] /\ sent'[t] = sent[t]
  /\ consumer'[t] = consumer[t] /\ got'[t] = got[t]

LEMMA SameKept ==
  ASSUME NEW t \in Socks, Reader(t), Line(t), Same(t),
         \A d \in Callers : disc[d].sock = t /\ disc[d].pc = "reader" =>
           disc'[d].sock = t /\ disc'[d].pc = "reader"
  PROVE  Reader(t)' /\ Line(t)'
BY DEF Reader, Line, Same

LEMMA ConnectKeeps ==
  ASSUME SockInv, NEW s \in Socks, SockConnect(s)
  PROVE  SockInv'
<1> USE DEF SockInv, SockConnect
<1>1. SockTypes'
  BY DEF SockTypes
<1>2. \A t \in Socks \ {s} : Reader(t)' /\ Line(t)'
  BY SameKept DEF SockTypes, Same
<1>3. Reader(s)' /\ Line(s)'
  BY DEF SockTypes, Reader, Line, Live
<1>4. \A d \in Callers : Closer(d)'
  BY DEF SockTypes, Closer
<1> QED
  BY <1>1, <1>2, <1>3, <1>4

LEMMA MessageKeeps ==
  ASSUME SockInv, NEW s \in Socks, NEW k \in 1 .. 2, ReaderMessage(s, k)
  PROVE  SockInv'
<1> DEFINE p == [i \in 1 .. k |-> sent[s] + i]
<1>1. /\ reader[s] = "run" /\ sent[s] + k <= MaxFrames
      /\ pending' = [pending EXCEPT ![s] = p]
      /\ sent' = [sent EXCEPT ![s] = @ + k]
      /\ reader' = [reader EXCEPT ![s] = "put"]
      /\ UNCHANGED <<ws, closed, exc, inbound, peer, consumer, got, disc>>
  BY DEF ReaderMessage
<1>2. SockTypes /\ MaxFrames \in Nat /\ sent[s] \in 0 .. MaxFrames /\ got[s] \in 0 .. MaxFrames
      /\ Len(inbound[s]) \in Nat
  BY SocketAssumption DEF SockInv, SockTypes
<1>3. p \in Seq(1 .. MaxFrames) /\ Len(p) = k /\ \A i \in 1 .. k : p[i] = sent[s] + i
  BY <1>1, <1>2
<1> HIDE DEF p
<1>4. SockTypes'
  BY <1>1, <1>2, <1>3 DEF SockTypes
<1>5. \A t \in Socks \ {s} : Reader(t)' /\ Line(t)'
  BY <1>1, <1>2, SameKept DEF SockInv, SockTypes, Same
<1>6. /\ pending'[s] = p /\ reader'[s] = "put" /\ sent'[s] = sent[s] + k
      /\ UNCHANGED <<ws, closed, exc, inbound, consumer, got, disc>>
  BY <1>1, <1>2 DEF SockTypes
<1>7. Reader(s) /\ Line(s) /\ pending[s] = <<>> /\ ~closed[s]
  BY <1>1 DEF SockInv, Reader
<1>8. Len(pending[s]) = 0
  BY <1>7
<1>9. got[s] + Len(inbound[s]) = sent[s]
  BY ONLY <1>2, <1>7, <1>8 DEF Line
<1>10. Reader(s)'
  BY <1>1, <1>6, <1>7 DEF Reader, Live
<1>11. Line(s)'
  BY ONLY <1>1, <1>2, <1>3, <1>6, <1>7, <1>9 DEF Line
<1>12. \A d \in Callers : Closer(d)'
  BY <1>1, <1>2 DEF SockInv, Closer, SockTypes
<1> QED
  BY <1>4, <1>5, <1>10, <1>11, <1>12 DEF SockInv

LEMMA PutKeeps ==
  ASSUME SockInv, NEW s \in Socks, ReaderPut(s)
  PROVE  SockInv'
<1> DEFINE u == inbound[s]
           v == pending[s]
           k == Fits(s)
           q == u \o SubSeq(v, 1, k)
           p == SubSeq(v, k + 1, Len(v))
<1>1. /\ reader[s] = "put" /\ Room(s) > 0
      /\ inbound' = [inbound EXCEPT ![s] = q]
      /\ pending' = [pending EXCEPT ![s] = p]
      /\ reader' = [reader EXCEPT ![s] = IF p = <<>> THEN "run" ELSE "put"]
      /\ UNCHANGED <<ws, closed, exc, peer, sent, consumer, got, disc>>
  BY DEF ReaderPut, Rest
<1>2. SockTypes /\ Reader(s) /\ Line(s) /\ ~closed[s]
  BY <1>1 DEF SockInv, Reader
<1>3. u \in Seq(0 .. MaxFrames) /\ v \in Seq(1 .. MaxFrames) /\ got[s] \in 0 .. MaxFrames
      /\ sent[s] \in 0 .. MaxFrames
  BY <1>2 DEF SockTypes
<1>4. v \in Seq(0 .. MaxFrames) /\ Len(u) \in Nat /\ Len(v) \in Nat /\ got[s] \in Nat /\ sent[s] \in Nat
  <2> HIDE DEF u, v
  <2> QED
    BY <1>3, SocketAssumption
<1>5. /\ Len(u) <= QueueMax
      /\ \A i \in 1 .. Len(u) : u[i] = got[s] + i
      /\ \A i \in 1 .. Len(v) : v[i] = got[s] + Len(u) + i
      /\ got[s] + Len(u) + Len(v) = sent[s]
  BY <1>1, <1>2 DEF Line
<1>6. k \in 0 .. Len(v) /\ Len(u) + k <= QueueMax
  <2>1. /\ QueueMax - Len(u) > 0
        /\ k = IF Len(v) <= QueueMax - Len(u) THEN Len(v) ELSE QueueMax - Len(u)
    BY <1>1 DEF Fits, Room
  <2>2. QueueMax \in Nat
    BY SocketAssumption
  <2> HIDE DEF k, u, v
  <2> QED
    BY ONLY <1>4, <2>1, <2>2
<1> HIDE DEF k, u, v
<1>7. /\ q \in Seq(0 .. MaxFrames)
      /\ Len(q) = Len(u) + k /\ Len(p) = Len(v) - k
      /\ \A i \in 1 .. Len(q) : q[i] = got[s] + i
      /\ \A i \in 1 .. Len(p) : p[i] = got[s] + Len(q) + i
  <2> DEFINE T == 0 .. MaxFrames
             g == got[s]
  <2>1. /\ u \in Seq(T) /\ v \in Seq(T) /\ k \in 0 .. Len(v) /\ g \in Nat
        /\ \A i \in 1 .. Len(u) : u[i] = g + i
        /\ \A i \in 1 .. Len(v) : v[i] = g + Len(u) + i
    BY ONLY <1>3, <1>4, <1>5, <1>6, Zenon
  <2> HIDE DEF T, g
  <2>2. /\ q \in Seq(T) /\ p \in Seq(T)
        /\ Len(q) = Len(u) + k /\ Len(p) = Len(v) - k
        /\ \A i \in 1 .. Len(q) : q[i] = g + i
        /\ \A i \in 1 .. Len(p) : p[i] = g + Len(q) + i
    <3> DEFINE a == Len(u)
               b == Len(v)
    <3>1. a \in Nat /\ b \in Nat /\ k \in 0 .. b
      BY ONLY <1>4, <2>1, Zenon
    <3>2. /\ q \in Seq(T) /\ Len(q) = a + k
          /\ \A i \in 1 .. a : q[i] = u[i]
          /\ \A i \in 1 .. k : q[a + i] = v[i]
      BY ONLY <2>1, PutIs
    <3>3. /\ p \in Seq(T) /\ Len(p) = b - k
          /\ \A i \in 1 .. b - k : p[i] = v[k + i]
      BY ONLY <2>1, RestIs
    <3>4. /\ \A i \in 1 .. a : u[i] = g + i
          /\ \A i \in 1 .. b : v[i] = g + a + i
      BY ONLY <2>1, Zenon
    <3> HIDE DEF q, p, a, b
    <3>5. \A i \in 1 .. a + k : q[i] = g + i
      <4> TAKE i \in 1 .. a + k
      <4>1. CASE i \in 1 .. a
        BY ONLY <3>2, <3>4, <4>1
      <4>2. CASE i \notin 1 .. a
        <5>1. PICK l \in 1 .. k : i = a + l
          <6>1. i - a \in 1 .. k /\ i = a + (i - a)
            BY ONLY <3>1, <4>2, i \in 1 .. a + k
          <6> QED
            BY <6>1
        <5>2. l \in 1 .. b /\ l \in Nat
          BY ONLY <3>1, l \in 1 .. k
        <5>3. q[a + l] = v[l] /\ v[l] = g + a + l
          BY <3>2, <3>4, <5>2
        <5>4. q[i] = g + a + l
          BY ONLY <5>1, <5>3, Zenon
        <5> QED
          BY ONLY <3>1, <5>1, <5>2, <5>4, <2>1
      <4> QED
        BY <4>1, <4>2
    <3>6. \A i \in 1 .. b - k : p[i] = g + (a + k) + i
      <4> TAKE i \in 1 .. b - k
      <4>1. k + i \in 1 .. b /\ i \in Nat /\ k \in Nat
        BY ONLY <3>1, i \in 1 .. b - k
      <4>2. p[i] = v[k + i] /\ v[k + i] = g + a + (k + i)
        BY <3>3, <3>4, <4>1
      <4> QED
        BY ONLY <3>1, <4>1, <4>2, <2>1
    <3>7. /\ \A i \in 1 .. Len(q) : q[i] = g + i
          /\ \A i \in 1 .. Len(p) : p[i] = g + Len(q) + i
      BY ONLY <3>2, <3>3, <3>5, <3>6, Zenon
    <3> QED
      BY <3>2, <3>3, <3>7 DEF a, b
  <2> QED
    BY ONLY <2>2, Zenon DEF T, g
<1>8. p \in Seq(1 .. MaxFrames)
  BY ONLY <1>3, <1>6, RestIs
<1> HIDE DEF q, p
<1>9. SockTypes'
  BY <1>1, <1>2, <1>7, <1>8 DEF SockTypes
<1>10. \A t \in Socks \ {s} : Reader(t)' /\ Line(t)'
  BY <1>1, <1>2, SameKept DEF SockInv, SockTypes, Same
<1>11. /\ pending'[s] = p /\ inbound'[s] = q
       /\ reader'[s] \in {"run", "put"} /\ (reader'[s] = "run" => p = <<>>)
       /\ UNCHANGED <<ws, closed, exc, sent, consumer, got, disc>>
  BY <1>1, <1>2 DEF SockTypes
<1>12. Reader(s)'
  BY <1>1, <1>2, <1>11 DEF Reader, Live
<1>13. got[s] + Len(q) + Len(p) = sent[s] /\ Len(q) <= QueueMax
  BY ONLY <1>4, <1>5, <1>6, <1>7
<1>14. \A i \in 1 .. Len(q) : q[i] # Sentinel
  <2>1. \A i \in 1 .. Len(q) : got[s] + i # 0
    BY ONLY <1>4
  <2> QED
    BY ONLY <1>7, <2>1, Zenon DEF Sentinel
<1>15. Line(s)'
  BY ONLY <1>7, <1>11, <1>13, <1>14 DEF Line
<1>16. \A d \in Callers : Closer(d)'
  BY <1>1, <1>2 DEF SockInv, Closer, SockTypes
<1> QED
  BY <1>9, <1>10, <1>12, <1>15, <1>16 DEF SockInv


(* A sentinel behind the last frame, or no room for it.                    *)
LEMMA SentinelPut ==
  ASSUME SockInv, NEW s \in Socks,
         \/ inbound' = inbound
         \/ Room(s) > 0 /\ inbound' = [inbound EXCEPT ![s] = Append(@, Sentinel)],
         pending'[s] = <<>>, closed'[s], reader'[s] = "done", got'[s] = got[s]
  PROVE  /\ inbound' \in [Socks -> Seq(0 .. MaxFrames)]
         /\ \A t \in Socks \ {s} : inbound'[t] = inbound[t]
         /\ Line(s)'
<1> DEFINE u == inbound[s]
<1>1. /\ Line(s) /\ inbound \in [Socks -> Seq(0 .. MaxFrames)] /\ Len(pending'[s]) = 0
      /\ got[s] \in Nat /\ QueueMax \in Nat /\ 0 \in 0 .. MaxFrames
  BY SocketAssumption DEF SockInv, SockTypes
<1>2. u \in Seq(0 .. MaxFrames) /\ Len(u) \in Nat
  BY <1>1
<1>3. CASE inbound' = inbound
  <2>2. /\ Len(u) <= QueueMax
        /\ \A i \in 1 .. Len(u) : u[i] # 0 => u[i] = got[s] + i
        /\ \A i, j \in 1 .. Len(u) : i <= j /\ u[i] = 0 => u[j] = 0
    BY <1>1 DEF Line, Sentinel
  <2>3. inbound'[s] = u
    BY <1>3
  <2> HIDE DEF u
  <2>4. \A i \in 1 .. Len(pending'[s]) : FALSE
    BY ONLY <1>1
  <2>1. Line(s)'
    BY ONLY <2>2, <2>3, <2>4, closed'[s], reader'[s] = "done", got'[s] = got[s]
       DEF Line, Sentinel
  <2> QED
    BY <1>1, <1>3, <2>1
<1>4. CASE Room(s) > 0 /\ inbound' = [inbound EXCEPT ![s] = Append(@, Sentinel)]
  <2>1. /\ inbound'[s] = Append(u, 0) /\ \A t \in Socks \ {s} : inbound'[t] = inbound[t]
        /\ DOMAIN inbound' = Socks
    BY <1>1, <1>4 DEF Sentinel
  <2>2. Len(u) < QueueMax
    BY <1>1, <1>2, <1>4 DEF Room
  <2>3. /\ Len(u) <= QueueMax
        /\ \A i \in 1 .. Len(u) : u[i] # 0 => u[i] = got[s] + i
        /\ \A i, j \in 1 .. Len(u) : i <= j /\ u[i] = 0 => u[j] = 0
    BY <1>1 DEF Line, Sentinel
  <2> HIDE DEF u
  <2>4. /\ Append(u, 0) \in Seq(0 .. MaxFrames) /\ Len(Append(u, 0)) = Len(u) + 1
        /\ \A i \in 1 .. Len(u) : Append(u, 0)[i] = u[i]
        /\ Append(u, 0)[Len(u) + 1] = 0
    BY ONLY <1>1, <1>2, AppendIs
  <2> DEFINE q == inbound'[s]
             n == Len(u)
  <2>5. /\ q \in Seq(0 .. MaxFrames) /\ Len(q) = n + 1
        /\ \A i \in 1 .. n : q[i] = u[i]
        /\ q[n + 1] = 0
    BY ONLY <2>1, <2>4, Zenon
  <2>6. inbound' \in [Socks -> Seq(0 .. MaxFrames)]
    <3>1. \A t \in Socks : inbound'[t] \in Seq(0 .. MaxFrames)
      BY <1>1, <2>1, <2>5
    <3>2. inbound' = [t \in Socks |-> inbound'[t]]
      BY <1>4, <1>1
    <3> QED
      BY ONLY <3>1, <3>2
  <2>7. /\ n \in Nat /\ n < QueueMax
        /\ \A i \in 1 .. n : u[i] # 0 => u[i] = got[s] + i
        /\ \A i, j \in 1 .. n : i <= j /\ u[i] = 0 => u[j] = 0
    BY ONLY <1>2, <2>2, <2>3, Zenon
  <2> HIDE DEF q, n
  <2>8. \A i \in 1 .. n + 1 : i \in 1 .. n \/ i = n + 1
    BY ONLY <2>7
  <2>9. \A i \in 1 .. n + 1 : q[i] # 0 => q[i] = got[s] + i
    BY ONLY <2>5, <2>7, <2>8
  <2>10. \A i, j \in 1 .. n + 1 : i <= j /\ q[i] = 0 => q[j] = 0
    BY ONLY <2>5, <2>7, <2>8
  <2>11. n + 1 <= QueueMax
    BY ONLY <1>1, <2>7
  <2>12. /\ Len(q) <= QueueMax
         /\ \A i \in 1 .. Len(q) : q[i] # 0 => q[i] = got[s] + i
         /\ \A i, j \in 1 .. Len(q) : i <= j /\ q[i] = 0 => q[j] = 0
    BY ONLY <2>5, <2>9, <2>10, <2>11, Zenon
  <2>13. Line(s)'
    BY ONLY <1>1, <2>12, pending'[s] = <<>>, closed'[s], reader'[s] = "done", got'[s] = got[s]
       DEF Line, Sentinel, q
  <2> QED
    BY <2>1, <2>6, <2>13
<1> QED
  BY <1>3, <1>4

LEMMA EndsKeeps ==
  ASSUME SockInv, NEW s \in Socks, ReaderEnds(s) \/ ReaderCancelled(s)
  PROVE  SockInv'
<1>1. /\ reader[s] \in {"run", "cancel"}
      /\ \/ inbound' = inbound
         \/ Room(s) > 0 /\ inbound' = [inbound EXCEPT ![s] = Append(@, Sentinel)]
      /\ reader' = [reader EXCEPT ![s] = "done"]
      /\ \/ /\ exc' = [exc EXCEPT ![s] = TRUE] /\ closed' = [closed EXCEPT ![s] = TRUE]
            /\ peer' = [peer EXCEPT ![s] = FALSE] /\ pending' = pending /\ reader[s] = "run"
         \/ /\ pending' = [pending EXCEPT ![s] = <<>>] /\ UNCHANGED <<exc, closed, peer>>
            /\ reader[s] = "cancel"
      /\ UNCHANGED <<ws, sent, consumer, got, disc>>
  BY DEF ReaderEnds, ReaderCancelled, WakeUp
<1>2. SockTypes /\ Reader(s) /\ Line(s)
  BY DEF SockInv
<1>3. pending'[s] = <<>> /\ closed'[s] /\ reader'[s] = "done" /\ got'[s] = got[s]
  BY <1>1, <1>2 DEF SockTypes, Reader
<1>4. /\ inbound' \in [Socks -> Seq(0 .. MaxFrames)]
      /\ \A t \in Socks \ {s} : inbound'[t] = inbound[t]
      /\ Line(s)'
  BY <1>1, <1>3, SentinelPut
<1>5. SockTypes'
  <2>1. <<>> \in Seq(1 .. MaxFrames)
    OBVIOUS
  <2>2. /\ exc' \in [Socks -> BOOLEAN] /\ closed' \in [Socks -> BOOLEAN] /\ peer' \in [Socks -> BOOLEAN]
        /\ pending' \in [Socks -> Seq(1 .. MaxFrames)]
    <3>1. /\ exc \in [Socks -> BOOLEAN] /\ closed \in [Socks -> BOOLEAN] /\ peer \in [Socks -> BOOLEAN]
          /\ pending \in [Socks -> Seq(1 .. MaxFrames)]
      BY <1>2 DEF SockTypes
    <3> QED
      BY ONLY <1>1, <2>1, <3>1
  <2>3. reader' \in [Socks -> {"off", "run", "put", "cancel", "done"}]
    BY <1>1, <1>2 DEF SockTypes
  <2> QED
    BY <1>1, <1>2, <1>4, <2>2, <2>3 DEF SockTypes
<1>6. \A t \in Socks \ {s} : Same(t)
  BY <1>1, <1>2, <1>4 DEF SockTypes, Same
<1>7. \A t \in Socks \ {s} : Reader(t)' /\ Line(t)'
  BY <1>1, <1>6, SameKept DEF SockInv
<1>8. Reader(s)'
  BY <1>3 DEF Reader, Live
<1>9. \A d \in Callers : Closer(d)'
  <2>1. \A t \in Socks : (closed[t] => closed'[t]) /\ (reader[t] # "off" => reader'[t] # "off")
                         /\ (reader[t] = "done" => reader'[t] = "done")
    BY <1>3, <1>6 DEF Same
  <2> QED
    BY <1>1, <2>1 DEF SockInv, Closer
<1> QED
  BY <1>4, <1>5, <1>7, <1>8, <1>9 DEF SockInv

LEMMA TakeKeeps ==
  ASSUME SockInv, NEW s \in Socks, inbound[s] # <<>>, Take(s),
         UNCHANGED <<ws, closed, exc, reader, pending, peer, sent, disc>>
  PROVE  SockInv'
<1> DEFINE u == inbound[s]
           n == Len(u)
<1>0. PICK c \in {"ended", "busy", "failed"} :
        /\ consumer' = [consumer EXCEPT ![s] = c] /\ (c = "ended" <=> Head(u) = 0)
        /\ inbound' = [inbound EXCEPT ![s] = Tail(@)]
        /\ got' = IF Head(u) = 0 THEN got ELSE [got EXCEPT ![s] = Head(u)]
  <2>1. CASE Head(u) = 0
    BY <2>1 DEF Take, Sentinel
  <2>2. CASE Head(u) # 0
    BY <2>2 DEF Take, Sentinel
  <2> QED
    BY <2>1, <2>2
<1>1. /\ inbound' = [inbound EXCEPT ![s] = Tail(@)]
      /\ consumer' = [consumer EXCEPT ![s] = c]
      /\ got' = [got EXCEPT ![s] = IF Head(u) = 0 THEN @ ELSE Head(u)]
      /\ UNCHANGED <<ws, closed, exc, reader, pending, peer, sent, disc>>
  BY <1>0 DEF SockInv, SockTypes
<1>2. SockTypes /\ Reader(s) /\ Line(s)
  BY DEF SockInv
<1>3. u \in Seq(0 .. MaxFrames) /\ got[s] \in Nat /\ MaxFrames \in Nat /\ sent[s] \in Nat
      /\ Len(pending[s]) \in Nat /\ u # <<>> /\ QueueMax \in Nat
  BY <1>2, SocketAssumption DEF SockTypes
<1>4. /\ n <= QueueMax
      /\ \A i \in 1 .. n : u[i] # 0 => u[i] = got[s] + i
      /\ \A i, j \in 1 .. n : i <= j /\ u[i] = 0 => u[j] = 0
      /\ \A i \in 1 .. n : u[i] = 0 => reader[s] = "done"
      /\ \A i \in 1 .. Len(pending[s]) : pending[s][i] = got[s] + n + i
      /\ ~closed[s] => got[s] + n + Len(pending[s]) = sent[s]
  BY <1>2 DEF Line, Sentinel
<1> HIDE DEF u
<1>5. /\ Tail(u) \in Seq(0 .. MaxFrames) /\ n \in Nat /\ n >= 1 /\ Len(Tail(u)) = n - 1
      /\ \A i \in 1 .. n - 1 : Tail(u)[i] = u[i + 1]
      /\ Head(u) = u[1] /\ u[1] \in 0 .. MaxFrames
  BY ONLY <1>3, TailIs
<1> HIDE DEF n
<1>6. /\ inbound'[s] = Tail(u) /\ DOMAIN inbound' = Socks /\ \A t \in Socks \ {s} : inbound'[t] = inbound[t]
      /\ inbound' = [inbound EXCEPT ![s] = Tail(u)]
  BY <1>1, <1>2 DEF SockTypes, u
<1>7. /\ got'[s] = IF u[1] = 0 THEN got[s] ELSE u[1]
      /\ consumer'[s] = c /\ (c = "ended" <=> u[1] = 0)
  BY <1>0, <1>1, <1>2, <1>5 DEF SockTypes
<1>8. SockTypes'
  <2>1. inbound' \in [Socks -> Seq(0 .. MaxFrames)]
    BY <1>2, <1>5, <1>6 DEF SockTypes
  <2>2. got' \in [Socks -> 0 .. MaxFrames]
    BY <1>1, <1>2, <1>5 DEF SockTypes
  <2>3. consumer' \in [Socks -> {"off", "busy", "get", "stuck", "failed", "ended", "cancelled"}]
    BY <1>1, <1>2 DEF SockTypes
  <2> QED
    BY <1>1, <1>2, <2>1, <2>2, <2>3 DEF SockTypes
<1>9. \A t \in Socks \ {s} : Same(t)
  BY <1>1, <1>2, <1>6 DEF SockTypes, Same
<1>10. \A t \in Socks \ {s} : Reader(t)' /\ Line(t)'
  BY <1>1, <1>9, SameKept DEF SockInv
<1>11. 1 \in 1 .. n /\ \A i \in 1 .. n - 1 : i + 1 \in 1 .. n
  BY ONLY <1>5
<1>12. Reader(s)'
  BY <1>1, <1>2, <1>4, <1>7, <1>11 DEF Reader
<1>13. ASSUME u[1] = 0 PROVE Line(s)'
  <2>1. reader[s] = "done" /\ closed[s] /\ pending[s] = <<>> /\ \A i \in 1 .. n : u[i] = 0
    BY <1>2, <1>4, <1>11, <1>13 DEF Reader
  <2>2. \A i \in 1 .. n - 1 : Tail(u)[i] = 0
    BY ONLY <1>5, <1>11, <2>1
  <2>3. Len(pending[s]) = 0 /\ n - 1 <= QueueMax
    BY <1>3, <1>4, <1>5, <2>1
  <2>4. \A i \in 1 .. Len(inbound'[s]) : inbound'[s][i] = 0
    BY ONLY <1>5, <1>6, <2>2, Zenon
  <2>5. Len(inbound'[s]) <= QueueMax
    BY ONLY <1>5, <1>6, <2>3, Zenon
  <2>6. Line(s)'
    BY ONLY <1>1, <2>1, <2>3, <2>4, <2>5 DEF Line, Sentinel
  <2> QED
    BY <2>6
<1>14. ASSUME u[1] # 0 PROVE Line(s)'
  <2>1. got'[s] = got[s] + 1
    BY ONLY <1>4, <1>7, <1>11, <1>14
  <2> DEFINE q == inbound'[s]
  <2>2. /\ Len(q) = n - 1 /\ \A i \in 1 .. n - 1 : q[i] = u[i + 1]
    BY ONLY <1>5, <1>6, Zenon
  <2> HIDE DEF q
  <2>3. \A i \in 1 .. n - 1 : q[i] # 0 => q[i] = (got[s] + 1) + i
    <3> TAKE i \in 1 .. n - 1
    <3>1. i + 1 \in 1 .. n /\ q[i] = u[i + 1] /\ i \in Nat
      <4>1. i \in Nat
        BY ONLY <1>5, i \in 1 .. n - 1
      <4> QED
        BY ONLY <1>11, <2>2, <4>1, i \in 1 .. n - 1, Zenon
    <3> DEFINE g == got[s]
    <3>3. g \in Nat /\ i \in Nat
      BY ONLY <1>3, <3>1, Zenon
    <3> HIDE DEF g
    <3>4. g + (i + 1) = (g + 1) + i
      BY ONLY <3>3
    <3>2. got[s] + (i + 1) = (got[s] + 1) + i
      BY <3>4 DEF g
    <3> QED
      BY ONLY <1>4, <3>1, <3>2, Zenon
  <2>4. \A i, j \in 1 .. n - 1 : i <= j /\ q[i] = 0 => q[j] = 0
    <3> SUFFICES ASSUME NEW i \in 1 .. n - 1, NEW j \in 1 .. n - 1, i <= j, q[i] = 0
                 PROVE  q[j] = 0
      OBVIOUS
    <3>1. i + 1 <= j + 1 /\ i + 1 \in 1 .. n /\ j + 1 \in 1 .. n
      BY ONLY <1>5, <1>11, i \in 1 .. n - 1, j \in 1 .. n - 1, i <= j
    <3> QED
      BY <1>4, <2>2, <3>1
  <2>5. \A i \in 1 .. n - 1 : q[i] = 0 => reader[s] = "done"
    BY ONLY <1>4, <1>11, <2>2
  <2>6. \A i \in 1 .. Len(pending[s]) : pending[s][i] = (got[s] + 1) + (n - 1) + i
    BY ONLY <1>3, <1>4, <1>5
  <2>7. ~closed[s] => (got[s] + 1) + (n - 1) + Len(pending[s]) = sent[s]
    BY ONLY <1>3, <1>4, <1>5
  <2>8. n - 1 <= QueueMax
    BY ONLY <1>3, <1>4, <1>5
  <2>9. /\ Len(q) <= QueueMax
        /\ \A i \in 1 .. Len(q) : q[i] # 0 => q[i] = got'[s] + i
        /\ \A i, j \in 1 .. Len(q) : i <= j /\ q[i] = 0 => q[j] = 0
        /\ \A i \in 1 .. Len(q) : q[i] = 0 => reader[s] = "done"
        /\ \A i \in 1 .. Len(pending[s]) : pending[s][i] = got'[s] + Len(q) + i
        /\ ~closed[s] => got'[s] + Len(q) + Len(pending[s]) = sent[s]
    BY ONLY <2>1, <2>2, <2>3, <2>4, <2>5, <2>6, <2>7, <2>8, Zenon
  <2>10. Line(s)'
    BY ONLY <1>1, <2>9 DEF Line, Sentinel, q
  <2> QED
    BY <2>10
<1>15. \A d \in Callers : Closer(d)'
  BY <1>1 DEF SockInv, Closer
<1> QED
  BY <1>8, <1>10, <1>12, <1>13, <1>14, <1>15 DEF SockInv


LEMMA SockKept ==
  ASSUME SockInv, UNCHANGED sockVars
  PROVE  SockInv'
<1> USE DEF SockInv, sockVars
<1>1. SockTypes'
  BY DEF SockTypes
<1>2. \A t \in Socks : Reader(t)' /\ Line(t)'
  BY SameKept DEF Same
<1>3. \A d \in Callers : Closer(d)'
  BY DEF Closer
<1> QED
  BY <1>1, <1>2, <1>3

(* The consumer of a socket starts, waits, ends or is cancelled.           *)
LEMMA ConsumerKeeps ==
  ASSUME SockInv, NEW s \in Socks, NEW c \in {"off", "busy", "get", "stuck", "failed", "ended", "cancelled"},
         consumer' = [consumer EXCEPT ![s] = c],
         c = "ended" => exc[s] \/ consumer[s] = "ended",
         UNCHANGED <<ws, closed, exc, inbound, reader, pending, peer, sent, got, disc>>
  PROVE  SockInv'
<1>1. SockTypes /\ Reader(s) /\ Line(s)
  BY DEF SockInv
<1>2. SockTypes'
  BY <1>1 DEF SockTypes
<1>3. \A t \in Socks \ {s} : Same(t)
  BY <1>1 DEF SockTypes, Same
<1>4. \A t \in Socks \ {s} : Reader(t)' /\ Line(t)'
  BY <1>3, SameKept DEF SockInv
<1>5. Line(s)'
  BY <1>1 DEF Line
<1>6. Reader(s)'
  <2>1. consumer'[s] = c
    BY <1>1 DEF SockTypes
  <2> QED
    BY <1>1, <2>1 DEF Reader
<1>7. \A d \in Callers : Closer(d)'
  BY DEF SockInv, Closer
<1> QED
  BY <1>2, <1>4, <1>5, <1>6, <1>7 DEF SockInv

LEMMA RecvKeeps ==
  ASSUME SockInv, NEW s \in Socks, RecvFrame(s) \/ RecvWakes(s) \/ HandlerBlocks(s)
  PROVE  SockInv'
<1>0. CASE HandlerBlocks(s)
  BY <1>0, ConsumerKeeps DEF HandlerBlocks
<1>1. CASE ~HandlerBlocks(s) /\ inbound[s] # <<>> /\ Take(s)
  BY <1>1, TakeKeeps DEF RecvFrame, RecvWakes
<1>2. CASE ~HandlerBlocks(s) /\ ~(inbound[s] # <<>> /\ Take(s))
  <2>1. /\ consumer' = [consumer EXCEPT ![s] = IF closed[s] /\ exc[s] THEN "ended" ELSE "get"]
        /\ UNCHANGED <<ws, closed, exc, inbound, reader, pending, peer, sent, got, disc>>
    BY <1>2 DEF RecvFrame, RecvWakes
  <2>2. PICK c \in {"get", "ended"} : c = IF closed[s] /\ exc[s] THEN "ended" ELSE "get"
    OBVIOUS
  <2> QED
    BY <2>1, <2>2, ConsumerKeeps
<1> QED
  BY <1>0, <1>1, <1>2

LEMMA DiscBeginKeeps ==
  ASSUME SockInv, NEW d \in Callers, NEW s \in Socks, reader[s] # "off", DiscBegin(d, s)
  PROVE  SockInv'
<1>1. CASE closed[s] /\ ~ws[s]
  BY <1>1, SockKept DEF DiscBegin, sockVars
<1>2. CASE ~(closed[s] /\ ~ws[s])
  <2>1. /\ disc[d] = NotCalled
        /\ disc' = [disc EXCEPT ![d] = [pc |-> "reader", sock |-> s]]
        /\ closed' = [closed EXCEPT ![s] = TRUE]
        /\ ws' = [ws EXCEPT ![s] = FALSE]
        /\ reader' = [reader EXCEPT ![s] = IF @ \in {"run", "put"} THEN "cancel" ELSE @]
        /\ UNCHANGED <<exc, inbound, pending, peer, sent, consumer, got>>
    BY <1>2 DEF DiscBegin, CancelReader, Idle
  <2>2. SockTypes /\ Reader(s) /\ Line(s)
    BY DEF SockInv
  <2>3. /\ disc'[d].pc = "reader" /\ disc'[d].sock = s
        /\ \A e \in Callers \ {d} : disc'[e] = disc[e]
        /\ disc[d].pc = "idle"
    BY <2>1, <2>2 DEF SockTypes, NotCalled
  <2>4. /\ closed'[s] /\ ~ws'[s]
        /\ reader'[s] = IF reader[s] \in {"run", "put"} THEN "cancel" ELSE reader[s]
    BY <2>1, <2>2 DEF SockTypes
  <2>5. SockTypes'
    <3>1. disc' \in [Callers -> [pc : {"idle", "reader", "put"}, sock : Socks \cup {NoSock}]]
      BY <2>1, <2>2 DEF SockTypes
    <3> QED
      BY <2>1, <2>2, <3>1 DEF SockTypes
  <2>6. \A t \in Socks \ {s} : Same(t)
    BY <2>1, <2>2 DEF SockTypes, Same
  <2>7. \A t \in Socks \ {s} : Reader(t)' /\ Line(t)'
    <3>1. \A t \in Socks : \A e \in Callers :
            disc[e].sock = t /\ disc[e].pc = "reader" => disc'[e].sock = t /\ disc'[e].pc = "reader"
      BY <2>3
    <3> QED
      BY <2>6, <3>1, SameKept DEF SockInv
  <2>8. Reader(s)'
    BY <2>1, <2>2, <2>3, <2>4 DEF Reader, Live
  <2>9. Line(s)'
    BY <2>1, <2>2, <2>4 DEF Line
  <2>10. \A t \in Socks : (closed[t] => closed'[t]) /\ (reader[t] # "off" => reader'[t] # "off")
                          /\ (reader[t] = "done" => reader'[t] = "done")
    BY <2>4, <2>6 DEF Same
  <2>11. \A e \in Callers : Closer(e)'
    <3>1. ASSUME NEW e \in Callers \ {d} PROVE Closer(e)'
      BY <2>3, <2>10 DEF SockInv, Closer
    <3>2. Closer(d)'
      BY <2>3, <2>4, <2>10 DEF Closer
    <3> QED
      BY <3>1, <3>2
  <2> QED
    BY <2>5, <2>7, <2>8, <2>9, <2>11 DEF SockInv
<1> QED
  BY <1>1, <1>2

LEMMA DiscCloseKeeps ==
  ASSUME SockInv, NEW d \in Callers, DiscClose(d)
  PROVE  SockInv'
<1>0. PICK s : s = disc[d].sock
  OBVIOUS
<1>1. /\ disc[d].pc = "reader" /\ reader[s] \in {"off", "done"}
      /\ peer' = [peer EXCEPT ![s] = FALSE]
      /\ disc' = [disc EXCEPT ![d].pc = "put"]
      /\ UNCHANGED <<ws, closed, exc, inbound, reader, pending, sent, consumer, got>>
  BY <1>0 DEF DiscClose
<1>2. SockTypes /\ Closer(d) /\ s \in Socks /\ reader[s] = "done"
  BY <1>0, <1>1 DEF SockInv, Closer
<1>3. /\ disc'[d].pc = "put" /\ disc'[d].sock = s /\ \A e \in Callers \ {d} : disc'[e] = disc[e]
      /\ disc' \in [Callers -> [pc : {"idle", "reader", "put"}, sock : Socks \cup {NoSock}]]
  BY <1>0, <1>1, <1>2 DEF SockTypes
<1>4. SockTypes'
  BY <1>1, <1>2, <1>3 DEF SockTypes
<1>5. \A t \in Socks \ {s} : Reader(t)' /\ Line(t)'
  <2>1. \A t \in Socks \ {s} : Same(t)
    BY <1>1, <1>2 DEF SockTypes, Same
  <2>2. \A t \in Socks \ {s} : \A e \in Callers :
          disc[e].sock = t /\ disc[e].pc = "reader" => disc'[e].sock = t /\ disc'[e].pc = "reader"
    BY <1>0, <1>3
  <2> QED
    BY <2>1, <2>2, SameKept DEF SockInv
<1>6. Reader(s)' /\ Line(s)'
  BY <1>1, <1>2 DEF SockInv, Reader, Line, Live
<1>7. \A e \in Callers : Closer(e)'
  <2>1. ASSUME NEW e \in Callers \ {d} PROVE Closer(e)'
    BY <1>1, <1>3 DEF SockInv, Closer
  <2>2. Closer(d)'
    BY <1>1, <1>2, <1>3 DEF Closer
  <2> QED
    BY <2>1, <2>2
<1> QED
  BY <1>4, <1>5, <1>6, <1>7 DEF SockInv

LEMMA DiscPutKeeps ==
  ASSUME SockInv, NEW d \in Callers, DiscPut(d)
  PROVE  SockInv'
<1>0. PICK s : s = disc[d].sock
  OBVIOUS
<1>1. /\ disc[d].pc = "put" /\ Room(s) > 0
      /\ inbound' = [inbound EXCEPT ![s] = Append(@, Sentinel)]
      /\ disc' = [disc EXCEPT ![d] = NotCalled]
      /\ UNCHANGED <<ws, closed, exc, reader, pending, peer, sent, consumer, got>>
  BY <1>0 DEF DiscPut
<1>2. SockTypes /\ s \in Socks /\ reader[s] = "done"
  BY <1>0, <1>1 DEF SockInv, Closer
<1>3. pending'[s] = <<>> /\ closed'[s] /\ reader'[s] = "done" /\ got'[s] = got[s] /\ Reader(s)
  BY <1>1, <1>2 DEF SockInv, Reader
<1>4. /\ disc'[d] = NotCalled /\ \A e \in Callers \ {d} : disc'[e] = disc[e]
      /\ disc' \in [Callers -> [pc : {"idle", "reader", "put"}, sock : Socks \cup {NoSock}]]
  BY <1>1, <1>2 DEF SockTypes, NotCalled
<1>5. /\ inbound' \in [Socks -> Seq(0 .. MaxFrames)]
      /\ \A t \in Socks \ {s} : inbound'[t] = inbound[t]
      /\ Line(s)'
  BY <1>1, <1>2, <1>3, SentinelPut
<1>6. SockTypes'
  BY <1>1, <1>2, <1>4, <1>5 DEF SockTypes
<1>7. \A t \in Socks \ {s} : Reader(t)' /\ Line(t)'
  <2>1. \A t \in Socks \ {s} : Same(t)
    BY <1>1, <1>5 DEF Same
  <2>2. \A t \in Socks \ {s} : \A e \in Callers :
          disc[e].sock = t /\ disc[e].pc = "reader" => disc'[e].sock = t /\ disc'[e].pc = "reader"
    BY <1>1, <1>4
  <2> QED
    BY <2>1, <2>2, SameKept DEF SockInv
<1>8. Reader(s)'
  BY <1>1, <1>2, <1>3 DEF Reader, Live
<1>9. \A e \in Callers : Closer(e)'
  <2>1. ASSUME NEW e \in Callers \ {d} PROVE Closer(e)'
    BY <1>1, <1>4 DEF SockInv, Closer
  <2>2. Closer(d)'
    BY <1>4 DEF Closer, NotCalled
  <2> QED
    BY <2>1, <2>2
<1> QED
  BY <1>5, <1>6, <1>7, <1>8, <1>9 DEF SockInv


-----------------------------------------------------------------------------
(***************************************************************************)
(* The client over its sockets.                                            *)
(***************************************************************************)
ClientTypes ==
  /\ app \in {"idle", "login", "emit", "login_failed", "disc_bg", "disc_sock"}
  /\ connected \in BOOLEAN /\ closedEv \in BOOLEAN /\ already \in BOOLEAN
  /\ sockRef \in Socks \cup {NoSock} /\ bgRef \in Socks \cup {NoSock}
  /\ actRef \in Socks \cup {NoSock}
  /\ bg \in [Socks -> {"none", "new", "run", "cancel", "done"}]
  /\ stopped \in [Socks -> BOOLEAN]
  /\ ping \in [Socks -> {"off", "sleep", "await", "over", "unheard"}]
  /\ failures \in [Socks -> 0 .. MaxPingFailures]
  /\ \A s \in Socks : ping[s] \notin {"over", "unheard"} => failures[s] < MaxPingFailures
  /\ events \in [Socks -> Nat]

(* Who refers to which connection, and when.  A client that is not         *)
(* connected and not in disconnect() keeps a socket only when its reader   *)
(* is done, it is being closed, or its receiver stopped on a bad frame, so *)
(* a new connection may take its place.                                    *)
Stopped(s) == consumer[s] = "failed" /\ bg[s] = "done"

Refs ==
  /\ \A s \in Socks : reader[s] = "off" => bg[s] = "none"
  /\ sockRef # NoSock => reader[sockRef] # "off"
  /\ connected /\ app # "emit" =>
       app = "idle" /\ sockRef # NoSock /\ bg[sockRef] \in {"new", "run"}
  /\ app = "emit" => connected /\ sockRef # NoSock /\ Opening(sockRef)
  /\ \A s \in Socks : bg[s] \in {"new", "run"} => connected /\ sockRef = s /\ bgRef = s
  /\ \A s \in Socks : bg[s] = "cancel" => app = "disc_bg"
  /\ app \in {"idle", "login", "login_failed"} /\ ~connected /\ sockRef # NoSock =>
       reader[sockRef] = "done" \/ Disconnecting(sockRef) \/ Stopped(sockRef)
  /\ app = "disc_sock" => sockRef = NoSock

IInv == SockInv /\ ClientTypes /\ Refs /\ NoLeakedConnection

LEMMA NoSockIsNone == NoSock \notin Socks
BY DEF NoSock, Socks

LEMMA InitIInv == Init => IInv
<1> SUFFICES ASSUME Init PROVE IInv
  OBVIOUS
<1>1. SockInv
  BY SockInitInv DEF Init
<1>2. ClientTypes
  <2>1. connected \in BOOLEAN /\ closedEv \in BOOLEAN /\ already \in BOOLEAN
    BY Zenon DEF Init
  <2> QED
    BY <2>1, ClientAssumption DEF Init, ClientTypes
<1>3. Refs
  BY DEF Init, Refs
<1>4. NoLeakedConnection
  BY DEF Init, SockInit, NoLeakedConnection
<1> QED
  BY <1>1, <1>2, <1>3, <1>4 DEF IInv

(* What a step of a socket means for the client.                           *)
SockProgress ==
  \A t \in Socks :
    /\ reader'[t] = "off" <=> reader[t] = "off"
    /\ reader[t] = "done" => reader'[t] = "done"
    /\ reader'[t] \in Live => reader[t] \in Live
    /\ reader'[t] \in Live /\ Disconnecting(t) => Disconnecting(t)'
    /\ consumer[t] = "failed" => consumer'[t] = "failed"

LEMMA RefsKept ==
  ASSUME IInv, SockInv', SockProgress, UNCHANGED <<app, connected, sockRef, bgRef, bg>>
  PROVE  Refs' /\ NoLeakedConnection'
<1> USE DEF IInv, SockProgress
<1>0. \A t \in Socks : Opening(t) => Opening(t)'
  BY DEF Opening
<1>1. Refs'
  <2>1. PICK r : r = sockRef
    OBVIOUS
  <2>2. r # NoSock => r \in Socks
    BY <2>1 DEF ClientTypes
  <2>3. app = "emit" => Opening(r)'
    BY <1>0, <2>1, <2>2 DEF Refs
  <2>4. r # NoSock /\ (reader[r] = "done" \/ Disconnecting(r) \/ Stopped(r)) =>
          reader'[r] = "done" \/ Disconnecting(r)' \/ Stopped(r)'
    <3>1. r # NoSock => reader[r] # "off" /\ reader'[r] # "off"
      BY <2>1, <2>2 DEF Refs
    <3>2. r # NoSock => reader'[r] \in Live \/ reader'[r] = "done"
      BY <2>2, <3>1 DEF SockInv, SockTypes, Live
    <3> QED
      BY <2>2, <3>2 DEF Stopped
  <2> QED
    BY <2>1, <2>2, <2>3, <2>4 DEF Refs, ClientTypes, Disconnecting, Stopped, Opening
<1>3. NoLeakedConnection'
  <2> SUFFICES ASSUME NEW t \in Socks, reader'[t] \in Live
               PROVE  (sockRef = t \/ (app = "login" /\ Opening(t)) \/ Disconnecting(t)
                       \/ LeftOpen(t))'
    BY DEF NoLeakedConnection, Live
  <2>1. sockRef = t \/ (app = "login" /\ Opening(t)) \/ Disconnecting(t) \/ LeftOpen(t)
    BY DEF NoLeakedConnection, Live
  <2> QED
    BY <1>0, <2>1 DEF LeftOpen
<1> QED
  BY <1>1, <1>3

LEMMA StillProgress ==
  ASSUME UNCHANGED <<reader, disc, consumer>>
  PROVE  SockProgress
BY DEF SockProgress, Disconnecting

LEMMA SockStepKeeps ==
  ASSUME SockInv, NEW s \in Socks, SockStep(s)
  PROVE  SockInv' /\ SockProgress
<1>1. SockInv'
  BY MessageKeeps, PutKeeps, EndsKeeps, RecvKeeps DEF SockStep
<1>2. SockTypes /\ disc' = disc
  BY DEF SockInv, SockStep, ReaderMessage, ReaderPut, ReaderEnds, ReaderCancelled, RecvFrame, RecvWakes,
     HandlerBlocks
<1>a. \A t \in Socks : consumer[t] = "failed" => consumer'[t] = "failed"
  <2>1. \/ consumer' = consumer
        \/ consumer[s] # "failed" /\ \E c : consumer' = [consumer EXCEPT ![s] = c]
    <3>1. CASE Take(s) /\ consumer[s] # "failed"
      BY <3>1 DEF Take
    <3> QED
      BY <3>1 DEF SockStep, ReaderMessage, ReaderPut, ReaderEnds, ReaderCancelled, RecvFrame,
         RecvWakes, HandlerBlocks
  <2> QED
    BY <1>2, <2>1 DEF SockTypes
<1>3. \/ reader' = reader
      \/ reader[s] \in {"run", "put", "cancel"} /\ \E x \in {"run", "put", "done"} : reader' = [reader EXCEPT ![s] = x]
  BY DEF SockStep, ReaderMessage, ReaderPut, ReaderEnds, ReaderCancelled, RecvFrame, RecvWakes,
     HandlerBlocks
<1>4. SockProgress
  <2>1. CASE reader' = reader
    BY <1>2, <1>a, <2>1 DEF SockProgress, Disconnecting
  <2>2. ASSUME NEW x \in {"run", "put", "done"}, reader' = [reader EXCEPT ![s] = x],
               reader[s] \in {"run", "put", "cancel"}
        PROVE  SockProgress
    <3>1. reader'[s] = x /\ \A t \in Socks \ {s} : reader'[t] = reader[t]
      BY <1>2, <2>2 DEF SockTypes
    <3>2. \A t \in Socks : Disconnecting(t) => Disconnecting(t)'
      BY <1>2 DEF Disconnecting
    <3> QED
      BY <1>a, <2>2, <3>1, <3>2 DEF SockProgress, Live
  <2> QED
    BY <1>3, <2>1, <2>2
<1> QED
  BY <1>1, <1>4

LEMMA DiscStepKeeps ==
  ASSUME SockInv, NEW d \in Callers, DiscStep(d)
  PROVE  SockInv' /\ SockProgress
<1>1. SockInv'
  BY DiscCloseKeeps, DiscPutKeeps DEF DiscStep
<1>2. SockTypes /\ reader' = reader /\ consumer' = consumer
  BY DEF SockInv, DiscStep, DiscClose, DiscPut
<1>3. ASSUME NEW t \in Socks, Disconnecting(t), reader[t] # "done"
      PROVE  Disconnecting(t)'
  <2>1. PICK e \in Callers : disc[e].sock = t
    BY <1>3 DEF Disconnecting
  <2>2. CASE DiscClose(d)
    <3>1. disc'[e].sock = t
      BY <1>2, <2>1, <2>2 DEF DiscClose, SockTypes
    <3> QED
      BY <3>1 DEF Disconnecting
  <2>3. CASE DiscPut(d)
    <3>1. disc[d].pc = "put" /\ disc' = [disc EXCEPT ![d] = NotCalled]
      BY <2>3 DEF DiscPut
    <3>2. e # d
      BY <1>3, <2>1, <3>1 DEF SockInv, Closer
    <3>3. disc'[e] = disc[e]
      BY <1>2, <3>1, <3>2 DEF SockTypes
    <3> QED
      BY <2>1, <3>3 DEF Disconnecting
  <2> QED
    BY <2>2, <2>3 DEF DiscStep
<1>4. SockProgress
  BY <1>2, <1>3 DEF SockProgress, Live
<1> QED
  BY <1>1, <1>4

(* A call of disconnect: afterwards the socket is being closed, or its     *)
(* reader was gone already.                                                *)
LEMMA DiscBeginCloses ==
  ASSUME SockInv, NEW d \in Callers, NEW s \in Socks, reader[s] # "off", DiscBegin(d, s)
  PROVE  SockInv' /\ SockProgress /\ (reader'[s] \in Live => Disconnecting(s)')
<1>1. SockInv'
  BY DiscBeginKeeps
<1>2. SockTypes /\ Reader(s)
  BY DEF SockInv
<1>3. CASE closed[s] /\ ~ws[s]
  <2>1. reader' = reader /\ disc' = disc /\ consumer' = consumer
    BY <1>3 DEF DiscBegin
  <2>2. reader[s] \in Live => Disconnecting(s)
    BY <1>2, <1>3 DEF Reader, Disconnecting
  <2>3. Disconnecting(s) => Disconnecting(s)'
    BY <2>1 DEF Disconnecting
  <2> QED
    BY <1>1, <2>1, <2>2, <2>3, StillProgress
<1>4. CASE ~(closed[s] /\ ~ws[s])
  <2>1. /\ disc[d] = NotCalled
        /\ disc' = [disc EXCEPT ![d] = [pc |-> "reader", sock |-> s]]
        /\ reader' = [reader EXCEPT ![s] = IF @ \in {"run", "put"} THEN "cancel" ELSE @]
        /\ consumer' = consumer
    BY <1>4 DEF DiscBegin, CancelReader, Idle
  <2>2. disc'[d].sock = s /\ disc[d].sock = NoSock /\ \A e \in Callers \ {d} : disc'[e] = disc[e]
    BY <1>2, <2>1 DEF SockTypes, NotCalled
  <2>3. Disconnecting(s)' /\ \A t \in Socks : Disconnecting(t) => Disconnecting(t)'
    BY <2>2, NoSockIsNone DEF Disconnecting
  <2>4. /\ reader'[s] = IF reader[s] \in {"run", "put"} THEN "cancel" ELSE reader[s]
        /\ \A t \in Socks \ {s} : reader'[t] = reader[t]
    BY <1>2, <2>1 DEF SockTypes
  <2> QED
    BY <1>1, <2>1, <2>3, <2>4 DEF SockProgress, Live
<1> QED
  BY <1>3, <1>4


-----------------------------------------------------------------------------
(***************************************************************************)
(* The application's calls.                                                *)
(***************************************************************************)
LEMMA ConnectPreserves ==
  ASSUME IInv, NEW s \in Socks, Connect(s)
  PROVE  IInv'
<1> USE DEF IInv
<1>1. SockInv'
  BY ConnectKeeps DEF Connect
<1>2. ClientTypes'
  BY DEF Connect, ClientTypes
<1>3. /\ app = "idle" /\ ~connected /\ app' = "login" /\ reader[s] = "off"
      /\ UNCHANGED <<connected, sockRef, bgRef, bg, disc, consumer>>
      /\ reader'[s] = "run" /\ \A t \in Socks \ {s} : reader'[t] = reader[t]
      /\ \A t \in Socks : t > s => reader[t] = "off"
  BY DEF Connect, SockConnect, SockInv, SockTypes, Socks
<1>4. Refs'
  <2>1. bg[s] = "none" /\ sockRef # s
    BY <1>3, NoSockIsNone DEF Refs
  <2> QED
    BY <1>3, <2>1, NoSockIsNone DEF Refs, ClientTypes, Disconnecting, Stopped
<1>5. Opening(s)'
  <2>1. \A t \in Socks : t > s => t # s
    BY DEF Socks
  <2> QED
    BY <1>3, <2>1 DEF Opening, Refs
<1>6. NoLeakedConnection'
  BY <1>3, <1>5 DEF NoLeakedConnection, Disconnecting, LeftOpen
<1> QED
  BY <1>1, <1>2, <1>4, <1>6

LEMMA OpeningIsOne ==
  ASSUME NEW s \in Socks, NEW t \in Socks, Opening(s), Opening(t)
  PROVE  s = t
BY DEF Opening, Socks

LEMMA LoginDonePreserves ==
  ASSUME IInv, NEW s \in Socks, LoginDone(s)
  PROVE  IInv'
<1> USE DEF IInv
<1>1. SockInv'
  BY SockKept DEF LoginDone
<1>2. /\ app = "login" /\ Opening(s) /\ app' = "emit" /\ connected' = TRUE
      /\ sockRef' = s /\ UNCHANGED <<reader, disc, consumer, bg, bgRef>>
  BY DEF LoginDone, ClientTypes, sockVars
<1>3. ClientTypes'
  BY <1>2 DEF LoginDone, ClientTypes
<1>4. ~connected /\ \A t \in Socks : bg[t] \notin {"new", "run", "cancel"}
  BY <1>2 DEF Refs
<1>5. Refs'
  BY <1>2, <1>4, NoSockIsNone DEF Refs, Opening, ClientTypes
<1>6. NoLeakedConnection'
  <2> SUFFICES ASSUME NEW t \in Socks, reader[t] \in Live, t # s
               PROVE  (Disconnecting(t) \/ LeftOpen(t))'
    BY <1>2 DEF NoLeakedConnection, Live
  <2>1. sockRef = t => Disconnecting(t) \/ Stopped(t)
    BY <1>2, <1>4, NoSockIsNone DEF Refs, Live
  <2>2. ~Opening(t)
    BY <1>2, OpeningIsOne
  <2>3. Disconnecting(t) \/ Stopped(t)
    BY <2>1, <2>2 DEF NoLeakedConnection, Live, LeftOpen, Stopped
  <2> QED
    BY <1>2, <2>3 DEF Disconnecting, LeftOpen, Stopped
<1> QED
  BY <1>1, <1>3, <1>5, <1>6

LEMMA LoginReturnsPreserves ==
  ASSUME IInv, LoginReturns
  PROVE  IInv'
<1> USE DEF IInv
<1>1. SockInv'
  BY SockKept DEF LoginReturns
<1>2. PICK s : s = sockRef
  OBVIOUS
<1>3. s \in Socks /\ Opening(s) /\ connected
  BY <1>2 DEF LoginReturns, Refs, ClientTypes
<1>4. /\ app = "emit" /\ app' = "idle" /\ bgRef' = s
      /\ UNCHANGED <<reader, disc, consumer, sockRef, connected>>
      /\ bg'[s] = "new" /\ \A t \in Socks \ {s} : bg'[t] = bg[t]
      /\ bg' \in [Socks -> {"none", "new", "run", "cancel", "done"}]
  BY <1>2, <1>3 DEF LoginReturns, ClientTypes, sockVars
<1>5. ClientTypes'
  BY <1>3, <1>4 DEF LoginReturns, ClientTypes
<1>6. \A t \in Socks : bg[t] \notin {"new", "run", "cancel"}
  BY <1>2, <1>3, <1>4 DEF Refs, Opening
<1>7. Refs'
  BY <1>2, <1>3, <1>4, <1>6, NoSockIsNone DEF Refs, Opening
<1>8. NoLeakedConnection'
  BY <1>2, <1>3, <1>4, <1>6 DEF NoLeakedConnection, Disconnecting, LeftOpen
<1> QED
  BY <1>1, <1>5, <1>7, <1>8

LEMMA LoginFailsPreserves ==
  ASSUME IInv, NEW s \in Socks, LoginFails(s)
  PROVE  IInv'
<1> USE DEF IInv
<1>1. /\ app = "login" /\ app' = "login_failed" /\ Opening(s) /\ DiscBegin("login", s)
      /\ sockRef' \in {sockRef, s}
      /\ UNCHANGED <<connected, bgRef, actRef, closedEv, bg, stopped, ping, failures,
                     already, events>>
  BY DEF LoginFails
<1>2. SockInv' /\ SockProgress /\ (reader'[s] \in Live => Disconnecting(s)')
  BY <1>1, DiscBeginCloses, ClientAssumption DEF Opening
<1>3. ClientTypes'
  BY <1>1 DEF ClientTypes
<1>a. \A t \in Socks : reader'[t] # "off" => reader'[t] \in Live \/ reader'[t] = "done"
  BY <1>2 DEF SockInv, SockTypes, Live
<1>b. ~connected /\ \A t \in Socks : bg[t] \notin {"new", "run", "cancel"}
  BY <1>1 DEF Refs
<1>c. \A t \in Socks : Stopped(t) => Stopped(t)'
  BY <1>1, <1>2 DEF Stopped, SockProgress
<1>4. Refs'
  <2>1. PICK r : r = sockRef'
    OBVIOUS
  <2>2. r # NoSock => r \in Socks
    BY <1>1, <2>1 DEF ClientTypes
  <2>3. r # NoSock => reader'[r] # "off"
    BY <1>1, <1>2, <2>1, <2>2 DEF Refs, SockProgress, Opening
  <2>4. r # NoSock => reader'[r] = "done" \/ Disconnecting(r)' \/ Stopped(r)'
    <3>1. CASE r = s
      BY <1>2, <1>a, <2>3, <3>1, NoSockIsNone
    <3>2. CASE r # s /\ r # NoSock
      <4>1. reader[r] = "done" \/ Disconnecting(r) \/ Stopped(r)
        BY <1>1, <1>b, <2>1, <3>2 DEF Refs
      <4> QED
        BY <1>2, <1>a, <1>c, <2>2, <2>3, <3>2, <4>1 DEF SockProgress
    <3> QED
      BY <3>1, <3>2
  <2>5. \A t \in Socks : reader'[t] = "off" => bg'[t] = "none"
    BY <1>1, <1>2 DEF Refs, SockProgress
  <2> QED
    BY <1>1, <1>b, <2>1, <2>3, <2>4, <2>5 DEF Refs, Disconnecting, Stopped
<1>5. NoLeakedConnection'
  <2> SUFFICES ASSUME NEW t \in Socks, reader'[t] \in Live
               PROVE  sockRef' = t \/ Disconnecting(t)' \/ LeftOpen(t)'
    BY DEF NoLeakedConnection, Live
  <2>1. reader[t] \in Live
    BY <1>2 DEF SockProgress
  <2>2. sockRef = t \/ Opening(t) \/ Disconnecting(t) \/ Stopped(t)
    BY <2>1 DEF NoLeakedConnection, Live, LeftOpen, Stopped
  <2>3. Opening(t) => t = s
    BY <1>1, OpeningIsOne
  <2>4. sockRef = t => Disconnecting(t) \/ Stopped(t)
    BY <1>1, <1>b, <2>1, NoSockIsNone DEF Refs, Live
  <2> QED
    BY <1>1, <1>2, <1>c, <2>2, <2>3, <2>4 DEF SockProgress, LeftOpen, Stopped
<1> QED
  BY <1>2, <1>3, <1>4, <1>5

LEMMA LoginRaisesPreserves ==
  ASSUME IInv, LoginRaises
  PROVE  IInv'
<1> USE DEF IInv
<1>1. SockInv'
  BY SockKept DEF LoginRaises
<1>2. /\ app = "login_failed" /\ app' = "idle" /\ UNCHANGED <<reader, disc, consumer>>
      /\ UNCHANGED <<connected, sockRef, bgRef, actRef, closedEv, bg, stopped, ping, failures,
                     already, events>>
  BY DEF LoginRaises, sockVars
<1>3. ClientTypes'
  BY <1>2 DEF ClientTypes
<1>4. Refs'
  BY <1>2 DEF Refs, ClientTypes, Disconnecting, Stopped, Opening
<1>5. NoLeakedConnection'
  BY <1>2 DEF NoLeakedConnection, Disconnecting, LeftOpen
<1> QED
  BY <1>1, <1>3, <1>4, <1>5

LEMMA DisconnectPreserves ==
  ASSUME IInv, Disconnect
  PROVE  IInv'
<1> USE DEF IInv
<1>1. SockInv'
  BY SockKept DEF Disconnect
<1>2. /\ app = "idle" /\ app' = "disc_bg" /\ connected' = FALSE /\ sockRef' = sockRef
      /\ bgRef' = NoSock /\ UNCHANGED <<reader, disc, consumer>>
      /\ \A t \in Socks : bg'[t] = IF t = bgRef /\ bg[t] \in {"new", "run"} THEN "cancel" ELSE bg[t]
      /\ bg' \in [Socks -> {"none", "new", "run", "cancel", "done"}]
  BY DEF Disconnect, ClientTypes, sockVars
<1>3. ClientTypes'
  <2>1. already' \in BOOLEAN /\ connected' \in BOOLEAN
    BY Zenon DEF Disconnect
  <2> QED
    BY <1>2, <2>1 DEF Disconnect, ClientTypes
<1>4. Refs'
  BY <1>2, NoSockIsNone DEF Refs, ClientTypes
<1>5. NoLeakedConnection'
  BY <1>2 DEF NoLeakedConnection, Disconnecting, LeftOpen
<1> QED
  BY <1>1, <1>3, <1>4, <1>5

LEMMA DisconnectSocketPreserves ==
  ASSUME IInv, DisconnectSocket
  PROVE  IInv'
<1> USE DEF IInv
<1>1. /\ app = "disc_bg" /\ app' = "disc_sock" /\ sockRef' = NoSock
      /\ UNCHANGED <<connected, bgRef, closedEv, bg, failures, already, events>>
      /\ StopActivator /\ CloseSocket /\ \A t \in Socks : bg[t] # "cancel"
  BY DEF DisconnectSocket
<1>2. /\ SockInv' /\ SockProgress
      /\ sockRef # NoSock => (reader'[sockRef] \in Live => \E d \in Callers : disc'[d].sock = sockRef)
  <2>1. CASE sockRef = NoSock
    <3>1. UNCHANGED sockVars
      BY <1>1, <2>1 DEF CloseSocket
    <3>2. UNCHANGED <<reader, disc, consumer>>
      BY <3>1 DEF sockVars
    <3> QED
      BY <2>1, <3>1, <3>2, SockKept, StillProgress
  <2>2. CASE sockRef # NoSock
    <3>0. PICK s : s = sockRef
      OBVIOUS
    <3>1. DiscBegin("user", s) /\ s \in Socks /\ reader[s] # "off" /\ "user" \in Callers
      BY <1>1, <2>2, <3>0, ClientAssumption DEF CloseSocket, ClientTypes, Refs
    <3>2. SockInv' /\ SockProgress /\ (reader'[s] \in Live => Disconnecting(s)')
      BY <3>1, DiscBeginCloses
    <3> QED
      BY <3>0, <3>2 DEF Disconnecting
  <2> QED
    BY <2>1, <2>2
<1>3. ClientTypes'
  <2>1. /\ actRef' = NoSock /\ stopped' \in [Socks -> BOOLEAN]
        /\ ping' \in [Socks -> {"off", "sleep", "await", "over", "unheard"}]
        /\ \A t \in Socks : ping'[t] = ping[t] \/ ping'[t] = "over"
    BY <1>1 DEF StopActivator, ClientTypes
  <2> QED
    BY <1>1, <2>1 DEF ClientTypes
<1>4. Refs'
  BY <1>1, <1>2, NoSockIsNone DEF Refs, SockProgress, ClientTypes
<1>5. NoLeakedConnection'
  <2> SUFFICES ASSUME NEW t \in Socks, reader'[t] \in Live
               PROVE  Disconnecting(t)' \/ LeftOpen(t)'
    BY DEF NoLeakedConnection, Live
  <2>1. sockRef = t \/ Disconnecting(t) \/ Stopped(t)
    BY <1>1, <1>2 DEF NoLeakedConnection, SockProgress, Live, LeftOpen, Stopped
  <2>4. CASE Stopped(t)
    BY <1>1, <1>2, <2>4, NoSockIsNone DEF SockProgress, LeftOpen, Stopped
  <2>2. CASE sockRef = t
    BY <1>2, <2>2, NoSockIsNone DEF Disconnecting
  <2>3. CASE Disconnecting(t)
    BY <1>2, <2>3 DEF SockProgress
  <2> QED
    BY <2>1, <2>2, <2>3, <2>4
<1> QED
  BY <1>2, <1>3, <1>4, <1>5

LEMMA EmittedType ==
  ASSUME ClientTypes
  PROVE  Emitted(events) \in [Socks -> Nat]
<1>1. PICK c : c = Current
  OBVIOUS
<1>2. events \in [Socks -> Nat]
  BY DEF ClientTypes
<1>3. CASE c \in Socks
  <2>1. events[c] + 1 \in Nat
    BY <1>2, <1>3
  <2>2. [events EXCEPT ![c] = @ + 1] \in [Socks -> Nat]
    BY <1>2, <1>3, <2>1
  <2> QED
    BY <1>1, <1>2, <2>2 DEF Emitted
<1>4. CASE c \notin Socks
  <2>1. [events EXCEPT ![c] = @ + 1] \in [Socks -> Nat]
    BY <1>2, <1>4
  <2> QED
    BY <1>1, <1>2, <2>1 DEF Emitted
<1> QED
  BY <1>3, <1>4

LEMMA DisconnectDonePreserves ==
  ASSUME IInv, DisconnectDone
  PROVE  IInv'
<1> USE DEF IInv
<1>1. SockInv'
  BY SockKept DEF DisconnectDone
<1>2. /\ app = "disc_sock" /\ app' = "idle" /\ UNCHANGED <<reader, disc, consumer>>
      /\ closedEv' = TRUE /\ already' = FALSE
      /\ UNCHANGED <<connected, sockRef, bgRef, actRef, bg, stopped, ping, failures>>
      /\ events' \in [Socks -> Nat]
  BY EmittedType DEF DisconnectDone, sockVars, ClientTypes
<1>3. ClientTypes'
  BY <1>2 DEF ClientTypes
<1>4. Refs'
  BY <1>2 DEF Refs, ClientTypes
<1>5. NoLeakedConnection'
  BY <1>2 DEF NoLeakedConnection, Disconnecting, LeftOpen
<1> QED
  BY <1>1, <1>3, <1>4, <1>5


-----------------------------------------------------------------------------
(***************************************************************************)
(* The background task and the keepalive.                                  *)
(***************************************************************************)
LEMMA BgStartPreserves ==
  ASSUME IInv, NEW s \in Socks, BgStart(s)
  PROVE  IInv'
<1> USE DEF IInv
<1>1. SockInv'
  BY ConsumerKeeps DEF BgStart
<1>2. /\ bg[s] = "new" /\ bg'[s] = "run" /\ \A t \in Socks \ {s} : bg'[t] = bg[t]
      /\ bg' \in [Socks -> {"none", "new", "run", "cancel", "done"}]
      /\ UNCHANGED <<reader, disc, app, connected, sockRef, bgRef, actRef, closedEv, stopped,
                     ping, failures, already, events>>
  BY DEF BgStart, ClientTypes
<1>a. \A t \in Socks \ {s} : consumer'[t] = consumer[t]
  BY DEF BgStart, SockInv, SockTypes
<1>3. ClientTypes'
  BY <1>2 DEF ClientTypes
<1>4. Refs'
  BY <1>2, NoSockIsNone DEF Refs, ClientTypes, Opening
<1>5. NoLeakedConnection'
  <2>1. \A t \in Socks : Opening(t) => Opening(t)'
    BY <1>2 DEF Opening
  <2> QED
    BY <1>2, <1>a, <2>1 DEF NoLeakedConnection, Disconnecting, LeftOpen
<1> QED
  BY <1>1, <1>3, <1>4, <1>5

LEMMA BgEndsPreserves ==
  ASSUME IInv, NEW s \in Socks, BgEnds(s)
  PROVE  IInv'
<1> USE DEF IInv
<1>1. SockInv'
  BY SockKept DEF BgEnds
<1>2. /\ bg[s] = "run" /\ bg'[s] = "done" /\ \A t \in Socks \ {s} : bg'[t] = bg[t]
      /\ bg' \in [Socks -> {"none", "new", "run", "cancel", "done"}]
      /\ consumer[s] \in {"ended", "failed"} /\ connected' = FALSE /\ closedEv' = TRUE
      /\ UNCHANGED <<reader, disc, consumer, app, sockRef, bgRef, actRef, stopped, ping, failures, already>>
      /\ events' \in [Socks -> Nat]
  BY EmittedType DEF BgEnds, NowConnected, ClientTypes, sockVars
<1>3. reader[s] = "done" \/ Stopped(s)'
  BY <1>2 DEF SockInv, Reader, Stopped
<1>4. ClientTypes'
  BY <1>2 DEF ClientTypes
<1>5. Refs'
  <2>1. connected /\ sockRef = s /\ app # "emit"
    BY <1>2 DEF Refs, Opening
  <2> QED
    BY <1>2, <1>3, <2>1, NoSockIsNone DEF Refs, ClientTypes
<1>6. NoLeakedConnection'
  <2>1. \A t \in Socks : Opening(t) => Opening(t)'
    BY <1>2 DEF Opening
  <2> QED
    BY <1>2, <2>1 DEF NoLeakedConnection, Disconnecting, LeftOpen
<1> QED
  BY <1>1, <1>4, <1>5, <1>6

LEMMA BgCancelledPreserves ==
  ASSUME IInv, NEW s \in Socks, BgCancelled(s)
  PROVE  IInv'
<1> USE DEF IInv
<1>1. SockInv'
  <2>1. CASE consumer[s] = "off"
    BY <2>1, SockKept DEF BgCancelled, sockVars
  <2>2. CASE consumer[s] # "off"
    <3>1. PICK c : c = IF consumer[s] \in {"ended", "failed"} THEN consumer[s] ELSE "cancelled"
      OBVIOUS
    <3>2. consumer' = [consumer EXCEPT ![s] = c]
      BY <2>2, <3>1 DEF BgCancelled, SockInv, SockTypes
    <3>3. c \in {"off", "busy", "get", "stuck", "failed", "ended", "cancelled"} /\ (c = "ended" => consumer[s] = "ended")
      BY <3>1
    <3> QED
      BY <3>2, <3>3, ConsumerKeeps DEF BgCancelled
  <2> QED
    BY <2>1, <2>2
<1>2. /\ bg[s] = "cancel" /\ bg'[s] = "done" /\ \A t \in Socks \ {s} : bg'[t] = bg[t]
      /\ bg' \in [Socks -> {"none", "new", "run", "cancel", "done"}]
      /\ UNCHANGED <<reader, disc, app, sockRef, bgRef, actRef, stopped, ping, failures, already>>
      /\ events' \in [Socks -> Nat]
  BY EmittedType DEF BgCancelled, ClientTypes
<1>a. \A t \in Socks \ {s} : consumer'[t] = consumer[t]
  BY DEF BgCancelled, SockInv, SockTypes
<1>3. connected' = FALSE /\ (closedEv' = closedEv \/ closedEv' = TRUE) /\ app = "disc_bg"
  BY <1>2 DEF BgCancelled, Refs, ClientTypes
<1>4. ClientTypes'
  BY <1>2, <1>3 DEF ClientTypes
<1>5. Refs'
  BY <1>2, <1>3, NoSockIsNone DEF Refs, ClientTypes
<1>6. NoLeakedConnection'
  BY <1>2, <1>3, <1>a DEF NoLeakedConnection, Disconnecting, LeftOpen
<1> QED
  BY <1>1, <1>4, <1>5, <1>6

LEMMA PingPreserves ==
  ASSUME IInv, NEW s \in Socks, PingStart(s) \/ PingSent(s) \/ PingAnswered(s) \/ PingFails(s)
  PROVE  IInv'
<1> USE DEF IInv
<1>1. UNCHANGED sockVars /\ UNCHANGED <<app, connected, sockRef, bgRef, actRef, closedEv, bg,
                                       stopped, already, events>>
  BY DEF PingStart, PingSent, PingAnswered, PingFails
<1>2. SockInv'
  BY <1>1, SockKept
<1>3. Refs' /\ NoLeakedConnection'
  BY <1>1, <1>2, StillProgress, RefsKept DEF sockVars
<1>4. /\ ping' \in [Socks -> {"off", "sleep", "await", "over", "unheard"}]
      /\ failures' \in [Socks -> 0 .. MaxPingFailures]
      /\ \A t \in Socks : ping'[t] \notin {"over", "unheard"} => failures'[t] < MaxPingFailures
  <2> USE ClientAssumption DEF ClientTypes
  <2>1. CASE PingStart(s)
    BY <2>1 DEF PingStart
  <2>2. CASE PingSent(s)
    BY <2>2 DEF PingSent
  <2>3. CASE PingAnswered(s)
    BY <2>3 DEF PingAnswered
  <2>4. CASE PingFails(s)
    BY <2>4 DEF PingFails
  <2> QED
    BY <2>1, <2>2, <2>3, <2>4
<1>5. ClientTypes'
  BY <1>1, <1>4 DEF ClientTypes
<1> QED
  BY <1>2, <1>3, <1>5

LEMMA PingGivesUpPreserves ==
  ASSUME IInv, NEW s \in Socks, PingGivesUp(s)
  PROVE  IInv'
<1> USE DEF IInv
<1>1. SockInv' /\ SockProgress
  <2>1. CASE MayClose
    <3>1. PICK r : r = sockRef
      OBVIOUS
    <3>2. DiscBegin("fatal", r) /\ r \in Socks /\ reader[r] # "off" /\ "fatal" \in Callers
      BY <2>1, <3>1, ClientAssumption DEF PingGivesUp, MayClose, ClientTypes, Refs
    <3> QED
      BY <3>2, DiscBeginCloses
  <2>2. CASE ~MayClose
    <3>1. UNCHANGED sockVars
      BY <2>2 DEF PingGivesUp
    <3>2. UNCHANGED <<reader, disc, consumer>>
      BY <3>1 DEF sockVars
    <3> QED
      BY <3>1, <3>2, SockKept, StillProgress
  <2> QED
    BY <2>1, <2>2
<1>2. /\ UNCHANGED <<app, connected, sockRef, bgRef, actRef, closedEv, bg, stopped, already, events>>
      /\ \E x \in {"over", "unheard"} : ping' = [ping EXCEPT ![s] = x]
      /\ failures' = [failures EXCEPT ![s] = @ + 1]
      /\ ping[s] \notin {"over", "unheard"}
  BY DEF PingGivesUp, PingLost
<1>3. Refs' /\ NoLeakedConnection'
  BY <1>1, <1>2, RefsKept
<1>4. ClientTypes'
  BY <1>2, ClientAssumption DEF ClientTypes
<1> QED
  BY <1>1, <1>3, <1>4

-----------------------------------------------------------------------------
LEMMA OthersPreserve ==
  ASSUME IInv, SockInv', SockProgress, UNCHANGED clientVars
  PROVE  IInv'
<1>1. Refs' /\ NoLeakedConnection'
  BY RefsKept DEF clientVars
<1>2. ClientTypes'
  BY DEF IInv, ClientTypes, clientVars
<1> QED
  BY <1>1, <1>2 DEF IInv

LEMMA NextIInv == IInv /\ [Next]_vars => IInv'
<1> SUFFICES ASSUME IInv, [Next]_vars PROVE IInv'
  OBVIOUS
<1>1. CASE Application
  BY <1>1, ConnectPreserves, LoginDonePreserves, LoginReturnsPreserves, LoginFailsPreserves,
     LoginRaisesPreserves,     DisconnectPreserves, DisconnectSocketPreserves, DisconnectDonePreserves DEF Application
<1>2. ASSUME NEW s \in Socks, Background(s) PROVE IInv'
  BY <1>2, BgStartPreserves, BgEndsPreserves, BgCancelledPreserves, PingPreserves,
     PingGivesUpPreserves DEF Background
<1>3. ASSUME NEW s \in Socks, SockStep(s), UNCHANGED clientVars PROVE IInv'
  BY <1>3, SockStepKeeps, OthersPreserve DEF IInv
<1>4. ASSUME NEW d \in Callers, DiscStep(d), UNCHANGED clientVars PROVE IInv'
  BY <1>4, DiscStepKeeps, OthersPreserve DEF IInv
<1>5. CASE UNCHANGED vars
  <2>1. UNCHANGED sockVars /\ UNCHANGED clientVars /\ UNCHANGED <<reader, disc, consumer>>
    BY <1>5 DEF vars, sockVars
  <2> QED
    BY <2>1, SockKept, StillProgress, OthersPreserve DEF IInv
<1> QED
  BY <1>1, <1>2, <1>3, <1>4, <1>5 DEF Next

LEMMA Invariance == Spec => []IInv
BY InitIInv, NextIInv, PTL DEF Spec

(***************************************************************************)
(* Every variable of the client and of its sockets keeps its type; above   *)
(* all the inbound queue never holds more than queue_maxsize items and the *)
(* ping loop never counts past max_ping_failures.                          *)
(***************************************************************************)
THEOREM ClientTypeOK == Spec => []TypeOK
<1>1. IInv => TypeOK
  <2> SUFFICES ASSUME IInv PROVE TypeOK
    OBVIOUS
  <2>1. SockTypeOK
    <3>1. {ws, closed, exc, peer} \subseteq [Socks -> BOOLEAN]
      BY DEF IInv, SockInv, SockTypes
    <3> QED
      BY <3>1 DEF IInv, SockInv, SockTypes, Line, SockTypeOK
  <2>2. {connected, closedEv, already} \subseteq BOOLEAN
    BY DEF IInv, ClientTypes
  <2>3. {sockRef, bgRef, actRef} \subseteq Socks \cup {NoSock}
    BY DEF IInv, ClientTypes
  <2> QED
    BY <2>1, <2>2, <2>3 DEF IInv, ClientTypes, TypeOK
<1> QED
  BY <1>1, Invariance, PTL

(***************************************************************************)
(* No socket with a running reader is forgotten: it is the client's _sock, *)
(* connect() is still logging in on it, a disconnect() awaits its reader,  *)
(* or its receiver stopped on a frame that did not authenticate.           *)
(***************************************************************************)
THEOREM NoLeakedConnectionHolds == Spec => []NoLeakedConnection
<1>1. IInv => NoLeakedConnection
  BY DEF IInv
<1> QED
  BY <1>1, Invariance, PTL

(***************************************************************************)
(* While _connected is set, connect() awaits the handlers of `connected',  *)
(* or the client's _bg_task is the task of its _sock and has not ended, so *)
(* the end of the socket will be noticed.                                  *)
(***************************************************************************)
THEOREM ConnectedIsSupervisedHolds == Spec => []ConnectedIsSupervised
<1>1. IInv => ConnectedIsSupervised
  BY DEF IInv, Refs, ClientTypes, ConnectedIsSupervised
<1> QED
  BY <1>1, Invariance, PTL


LEMMA ConcatIs ==
  ASSUME NEW T, NEW u \in Seq(T), NEW v \in Seq(T)
  PROVE  /\ u \o v \in Seq(T) /\ Len(u) \in Nat /\ Len(v) \in Nat /\ Len(u \o v) = Len(u) + Len(v)
         /\ \A i \in 1 .. Len(u) : (u \o v)[i] = u[i]
         /\ \A i \in 1 .. Len(v) : (u \o v)[Len(u) + i] = v[i]
OBVIOUS

LEMMA CountedSeq ==
  ASSUME NEW T, NEW q \in Seq(T), NEW g \in Nat, NEW n, n = Len(q),
         \A i \in 1 .. n : q[i] = g + i
  PROVE  q = [i \in 1 .. n |-> g + i]
<1>1. q = [i \in 1 .. n |-> q[i]]
  OBVIOUS
<1> QED
  BY <1>1, Zenon

(***************************************************************************)
(* recv_frame hands the receiver the server's frames in order and without  *)
(* a gap, for any queue_maxsize, any stacking of frames in a message, and  *)
(* wherever the reader ends or is cancelled; sentinels come last.          *)
(***************************************************************************)
THEOREM FramesInOrderHolds == Spec => []FramesInOrder
<1>1. IInv => FramesInOrder
  <2> SUFFICES ASSUME IInv, NEW s \in Socks
               PROVE  LET line == inbound[s] \o pending[s]
                      IN  /\ ~closed[s] => line = [i \in 1 .. sent[s] - got[s] |-> got[s] + i]
                          /\ \A i \in 1 .. Len(line) :
                               \/ line[i] = got[s] + i
                               \/ \A j \in i .. Len(line) : line[j] = Sentinel
    BY DEF FramesInOrder
  <2> DEFINE u == inbound[s]
             v == pending[s]
             g == got[s]
             T == 0 .. MaxFrames
             line == u \o v
             m == Len(u)
             k == Len(v)
             n == Len(line)
  <2>1. u \in Seq(T) /\ v \in Seq(T) /\ g \in Nat /\ sent[s] \in Nat
    BY SocketAssumption DEF IInv, SockInv, SockTypes
  <2>2. /\ \A i \in 1 .. m : u[i] # Sentinel => u[i] = g + i
        /\ \A i, j \in 1 .. m : i <= j /\ u[i] = Sentinel => u[j] = Sentinel
        /\ \A i \in 1 .. m : u[i] = Sentinel => reader[s] = "done"
        /\ \A i \in 1 .. k : v[i] = g + m + i
        /\ ~closed[s] => g + m + k = sent[s]
        /\ reader[s] = "done" => closed[s] /\ v = <<>>
    BY DEF IInv, SockInv, Line, Reader
  <2> HIDE DEF u, v, g, T
  <2>3. /\ line \in Seq(T) /\ m \in Nat /\ k \in Nat /\ n = m + k
        /\ \A i \in 1 .. m : line[i] = u[i]
        /\ \A i \in 1 .. k : line[m + i] = v[i]
    BY <2>1, ConcatIs
  <2>4. v = <<>> => k = 0
    OBVIOUS
  <2> HIDE DEF line, m, k, n
  <2>5. \A i \in m + 1 .. n : line[i] = g + i
    <3> SUFFICES ASSUME NEW i \in m + 1 .. n PROVE line[i] = g + i
      OBVIOUS
    <3>1. i - m \in 1 .. k /\ i = m + (i - m)
      BY <2>3
    <3>2. line[i] = v[i - m]
      BY <2>3, <3>1
    <3> QED
      BY <2>1, <2>2, <2>3, <3>1, <3>2
  <2>6. ASSUME ~closed[s] PROVE line = [i \in 1 .. sent[s] - g |-> g + i]
    <3>1. n = sent[s] - g /\ n = Len(line)
      BY <2>1, <2>2, <2>3, <2>6 DEF n
    <3>2. \A i \in 1 .. n : line[i] = g + i
      BY <2>2, <2>3, <2>5, <2>6
    <3>3. line = [i \in 1 .. n |-> g + i]
      BY <2>1, <2>3, <3>1, <3>2, CountedSeq
    <3> QED
      BY <3>1, <3>3
  <2>7. ASSUME NEW i \in 1 .. n
        PROVE  line[i] = g + i \/ \A j \in i .. n : line[j] = Sentinel
    <3>1. CASE i > m
      BY <2>3, <2>5, <3>1
    <3>2. CASE i <= m /\ u[i] # Sentinel
      BY <2>2, <2>3, <3>2
    <3>3. CASE i <= m /\ u[i] = Sentinel
      <4>1. i \in 1 .. m
        BY <2>3, <3>3
      <4>2. k = 0
        BY <2>2, <2>4, <3>3, <4>1
      <4>3. \A j \in i .. n : j \in 1 .. m
        BY <2>3, <4>1, <4>2
      <4> QED
        BY <2>2, <2>3, <3>3, <4>1, <4>3
    <3> QED
      BY <2>3, <3>1, <3>2, <3>3
  <2> QED
    BY <2>6, <2>7 DEF line, n, u, v, g
<1> QED
  BY <1>1, Invariance, PTL

=============================================================================
