-------------------------- MODULE SockTunnelProofs --------------------------
(***************************************************************************)
(* The SOCKS5 handshake, for answers of any length: what a short read can  *)
(* do to it and what it cannot, and that it is a dial.                     *)
(***************************************************************************)
EXTENDS SockTunnel, TLAPS

\* The descriptor at each statement.
FdInv ==
  /\ pc = "socket" => fd = "none"
  /\ pc \notin {"socket", "failed"} => fd = "open"
  /\ pc = "failed" => fd # "open"

\* How far the stream has been taken at each statement: exactly as far as the
\* protocol says when no read fell short, and never further.
StreamInv ==
  /\ pc \in {"socket", "connect", "greeting"} =>
       got = 0 /\ total = 0 /\ res1 = 0 /\ resp2 = 0 /\ ~short
  /\ pc = "method" => got <= 2 /\ total = 0 /\ (~short => got = 2)
  /\ pc = "reply" => got <= 2 + total /\ total < 2 /\ (~short => got = 2 + total)
  /\ pc = "address" => got <= 4 /\ (~short => got = 4)
  /\ pc \in {"decide", "up"} /\ ~short => resp2 = 7 /\ got >= 12
  /\ pc = "decide" => got <= 14
  /\ pc = "up" /\ resp2 = 7 => proxy.addr

TunnelInv == TunnelTypeOK /\ FdInv /\ StreamInv

\* Initially the invariant holds.
LEMMA TunnelInitially ==
  ASSUME TunnelInit
  PROVE  TunnelInv
  <1>1. proxy.len \in Nat
    BY ReplyAssumption DEF TunnelInit, Proxies
  <1>2. TunnelTypeOK
    <2>1. timed \in BOOLEAN /\ shut \in BOOLEAN /\ short \in BOOLEAN
      BY DEF TunnelInit
    <2>2. sent \in 0..(2 + proxy.len) /\ got \in 0..sent /\ total \in 0..2
          /\ res1 \in 0..4 /\ resp2 \in 0..7
      BY <1>1 DEF TunnelInit
    <2>3. QED
      BY <2>1, <2>2 DEF TunnelInit, TunnelTypeOK
  <1>3. FdInv /\ StreamInv
    BY DEF TunnelInit, FdInv, StreamInv
  <1>4. QED
    BY <1>2, <1>3 DEF TunnelInv

\* Every step of SockTunnel keeps the invariant.
LEMMA TunnelStep ==
  ASSUME TunnelInv, Tunnel
  PROVE  TunnelInv'
  <1> USE ReplyAssumption DEF TunnelInv, TunnelTypeOK, FdInv, StreamInv, net, Proxies
  <1>1. CASE NoSocket
    BY <1>1 DEF NoSocket
  <1>2. CASE GetSocket
    BY <1>2 DEF GetSocket
  <1>3. CASE ConnectFails
    BY <1>3 DEF ConnectFails, GiveUp
  <1>4. CASE Connects
    BY <1>4 DEF Connects
  <1>5. CASE RecvGreeting
    <2>1. PICK n \in 0..2 :
            /\ Recv(2, n) /\ got' = got + n /\ short' = (short \/ n < 2)
            /\ res1' = IF n = 2 THEN got + 2 ELSE res1
      BY <1>5 DEF RecvGreeting
    <2>2. n <= sent - got
      BY <2>1 DEF Recv, Smaller
    <2>3. TunnelTypeOK'
      BY <1>5, <2>1, <2>2 DEF RecvGreeting
    <2>4. ~short' => ~short /\ n >= 2
      <3>1. ~short' => ~short /\ ~(n < 2)
        BY <2>1, Zenon
      <3>2. ~(n < 2) => n >= 2
        OBVIOUS
      <3>3. QED
        BY <3>1, <3>2
    <2>5. FdInv'
      BY <1>5 DEF RecvGreeting
    <2>6. StreamInv'
      BY <1>5, <2>1, <2>2, <2>4 DEF RecvGreeting
    <2>7. QED
      BY <2>3, <2>5, <2>6
  <1>6. CASE MethodAccepted
    BY <1>6 DEF MethodAccepted
  <1>7. CASE MethodRefused
    BY <1>7 DEF MethodRefused, GiveUp
  <1>8. CASE RecvReply
    <2>1. PICK n \in 0..(2 - total) :
            /\ Recv(2 - total, n) /\ got' = got + n /\ total' = total + n
            /\ res1' = IF n > 0 /\ total + n = 2 THEN got + n ELSE res1
            /\ short' = (short \/ n = 0)
            /\ pc' = IF n = 0 \/ total + n = 2 THEN "address" ELSE "reply"
      BY <1>8 DEF RecvReply
    <2>2. n <= sent - got
      BY <2>1 DEF Recv, Smaller
    <2>3. TunnelTypeOK'
      BY <1>8, <2>1, <2>2 DEF RecvReply
    <2>4. ~short' => ~short /\ n # 0
      BY <2>1
    <2>5. FdInv'
      BY <1>8 DEF RecvReply
    <2>6. StreamInv'
      BY <1>8, <2>1, <2>2, <2>4 DEF RecvReply
    <2>7. QED
      BY <2>3, <2>5, <2>6
  <1>9. CASE RecvAddress
    <2>1. PICK n \in 0..10 :
            /\ Recv(10, n) /\ got' = got + n /\ short' = (short \/ n < 8)
            /\ resp2' = IF n >= 3 THEN got + 3 ELSE 0
      BY <1>9 DEF RecvAddress
    <2>2. n <= sent - got
      BY <2>1 DEF Recv, Smaller
    <2>3. TunnelTypeOK'
      BY <1>9, <2>1, <2>2 DEF RecvAddress
    <2>4. ~short' => ~short /\ n >= 8
      <3>1. ~short' => ~short /\ ~(n < 8)
        BY <2>1, Zenon
      <3>2. ~(n < 8) => n >= 8
        OBVIOUS
      <3>3. QED
        BY <3>1, <3>2
    <2>5. FdInv'
      BY <1>9 DEF RecvAddress
    <2>6. StreamInv'
      BY <1>9, <2>1, <2>2, <2>4 DEF RecvAddress
    <2>7. QED
      BY <2>3, <2>5, <2>6
  <1>10. CASE Granted
    <2>1. resp2 = 7 => proxy.addr
      <3>1. IsZero(7) = {proxy.addr}
        BY DEF IsZero
      <3>2. resp2 = 7 => TRUE \in {proxy.addr}
        BY <1>10, <3>1, Zenon DEF Granted
      <3>3. QED
        BY <3>2, Zenon
    <2>2. TunnelTypeOK' /\ FdInv'
      BY <1>10 DEF Granted
    <2>3. StreamInv'
      BY <1>10, <2>1 DEF Granted
    <2>4. QED
      BY <2>2, <2>3
  <1>11. CASE Denied
    BY <1>11 DEF Denied, GiveUp
  <1>12. QED
    BY <1>1, <1>2, <1>3, <1>4, <1>5, <1>6, <1>7, <1>8, <1>9, <1>10, <1>11 DEF Tunnel

\* Whatever the proxy does, and whenever, keeps it too.
LEMMA ProxyStep ==
  ASSUME TunnelInv, ProxySends \/ ProxyShuts
  PROVE  TunnelInv'
  <1> USE ReplyAssumption DEF TunnelInv, TunnelTypeOK, FdInv, StreamInv, net, Proxies
  <1>1. CASE ProxySends
    BY <1>1 DEF ProxySends, Due
  <1>2. CASE ProxyShuts
    BY <1>2 DEF ProxyShuts
  <1>3. QED
    BY <1>1, <1>2

\* The invariant holds in every state.
THEOREM TunnelInvHolds == TunnelSpec => []TunnelInv
  <1>1. TunnelInv /\ [TunnelNext]_vars => TunnelInv'
    <2>1. CASE Tunnel
      BY <2>1, TunnelStep
    <2>2. CASE ProxySends \/ ProxyShuts
      BY <2>2, ProxyStep
    <2>3. CASE Returned \/ UNCHANGED vars
      BY <2>3 DEF Returned, vars, net, TunnelInv, TunnelTypeOK, FdInv, StreamInv, Proxies
    <2>4. QED
      BY <2>1, <2>2, <2>3 DEF TunnelNext
  <1>2. QED
    BY <1>1, TunnelInitially, PTL DEF TunnelSpec

\* A refusal is taken for a grant only by the first byte of a bound address
\* that is 0, or after a read that fell short.
THEOREM RefusalCaughtHolds == TunnelSpec => []RefusalCaught
  <1>1. TunnelInv => RefusalCaught
    BY DEF TunnelInv, StreamInv, RefusalCaught
  <1>2. QED
    BY <1>1, TunnelInvHolds, PTL

\* Every variable of the handshake keeps its type, for any replies: no more bytes
\* are taken than the proxy has sent (SocksModule.cpp 60-117).
THEOREM TunnelTypesHold == TunnelSpec => []TunnelTypeOK
  <1>1. TunnelInv => TunnelTypeOK
    BY DEF TunnelInv
  <1>2. QED
    BY <1>1, TunnelInvHolds, PTL

\* Over IPv4, and when no read falls short, the answer is taken to its end.
THEOREM CleanTunnelHolds == TunnelSpec => []CleanTunnel
  <1>1. TunnelInv => CleanTunnel
    BY ReplyAssumption DEF TunnelInv, TunnelTypeOK, StreamInv, CleanTunnel, Proxies
  <1>2. QED
    BY <1>1, TunnelInvHolds, PTL

\* SockTunnel is a dial: no descriptor survives a failure.
THEOREM DialPromiseHolds == TunnelSpec => KeepsDialPromise
  <1> USE DEF TheDial!vars, TheDial!Next, TheDial!GetSocket, TheDial!Succeed,
          TheDial!Fail, DialState, TunnelInv, FdInv
  <1>1. TunnelInit => TheDial!Init
    BY DEF TunnelInit, TheDial!Init
  <1>2. TunnelInv /\ [TunnelNext]_vars => [TheDial!Next]_(TheDial!vars)
    <2> SUFFICES ASSUME TunnelInv, [TunnelNext]_vars
                 PROVE  [TheDial!Next]_(TheDial!vars)
      OBVIOUS
    <2>1. CASE NoSocket \/ GetSocket \/ ConnectFails \/ Connects
      BY <2>1 DEF NoSocket, GetSocket, ConnectFails, Connects, GiveUp
    <2>2. CASE RecvGreeting \/ RecvReply \/ RecvAddress
      BY <2>2 DEF RecvGreeting, RecvReply, RecvAddress
    <2>3. CASE MethodAccepted \/ MethodRefused \/ Granted \/ Denied
      BY <2>3 DEF MethodAccepted, MethodRefused, Granted, Denied, GiveUp
    <2>4. CASE ProxySends \/ ProxyShuts \/ Returned \/ UNCHANGED vars
      BY <2>4 DEF ProxySends, ProxyShuts, Returned, vars
    <2>5. QED
      BY <2>1, <2>2, <2>3, <2>4 DEF TunnelNext, Tunnel
  <1>3. QED
    BY <1>1, <1>2, TunnelInvHolds, PTL DEF TunnelSpec, KeepsDialPromise, TheDial!Spec

----------------------------------------------------------------------------
(* Why SockTunnel returns.                                               *)

\* How far SockTunnel is: the statement, and within the loop the bytes it has.
Rank == CASE pc = "socket" -> 0 [] pc = "connect" -> 1 [] pc = "greeting" -> 2
          [] pc = "method" -> 3 [] pc = "reply" -> 4 + total
          [] pc = "address" -> 6 [] pc = "decide" -> 7 [] OTHER -> 8

\* No step goes back or stays where it was, the loop over the reply's first two bytes
\* included (SocksModule.cpp:94-106).
TunnelAdvances == [][Tunnel => Rank \in 0..7 /\ Rank' > Rank]_vars

\* Something can be done at each statement when a receive timeout is set: what the
\* guards of the steps ask for is there.
NeverStuck ==
  timed =>
    \/ pc \in {"socket", "connect", "up", "failed"}
    \/ pc = "greeting" /\ \E n \in 0..2 : Recv(2, n)
    \/ pc = "method" /\ \E b \in BOOLEAN : b \in IsZero(res1)
    \/ pc = "reply" /\ \E n \in 0..(2 - total) : Recv(2 - total, n)
    \/ pc = "address" /\ \E n \in 0..10 : Recv(10, n)
    \/ pc = "decide" /\ \E b \in BOOLEAN : b \in IsZero(resp2)

\* A recv with a timeout has a result.
LEMMA RecvHasResult ==
  ASSUME TunnelTypeOK, timed, NEW max \in Nat
  PROVE  \E n \in 0..max : Recv(max, n)
  <1>1. sent \in Nat /\ got \in Nat /\ got <= sent
    <2>1. proxy.len \in Nat
      BY ReplyAssumption DEF TunnelTypeOK, Proxies
    <2>2. sent \in 0..(2 + proxy.len) /\ got \in 0..sent
      BY DEF TunnelTypeOK
    <2>3. QED
      BY <2>1, <2>2
  <1>2. CASE sent > got
    <2>1. Smaller(max, sent - got) \in 0..max
      BY <1>1, <1>2 DEF Smaller
    <2>2. QED
      BY <1>2, <2>1 DEF Recv
  <1>3. CASE ~(sent > got)
    <2>1. sent = got /\ 0 \in 0..max
      BY <1>1, <1>3
    <2>2. QED
      BY <2>1 DEF Recv
  <1>4. QED
    BY <1>2, <1>3

\* A byte is zero or it is not.
LEMMA ByteIsSomething ==
  ASSUME TunnelTypeOK, NEW p \in 0..7
  PROVE  \E b \in BOOLEAN : b \in IsZero(p)
  <1>1. proxy.method \in BOOLEAN /\ proxy.rep \in BOOLEAN /\ proxy.addr \in BOOLEAN
    BY DEF TunnelTypeOK, Proxies
  <1>2. CASE p \in {0, 2, 4, 5, 7}
    <2>1. CASE p = 0
      <3>1. TRUE \in IsZero(p)
        BY <2>1 DEF IsZero
      <3>2. QED
        BY <3>1
    <2>2. CASE p = 2
      BY <1>1, <2>2 DEF IsZero
    <2>3. CASE p = 4
      BY <1>1, <2>3 DEF IsZero
    <2>4. CASE p = 5
      <3>1. TRUE \in IsZero(p)
        BY <2>4 DEF IsZero
      <3>2. QED
        BY <3>1
    <2>5. CASE p = 7
      BY <1>1, <2>5 DEF IsZero
    <2>6. QED
      BY <1>2, <2>1, <2>2, <2>3, <2>4, <2>5
  <1>3. CASE p \notin {0, 2, 4, 5, 7}
    BY <1>3 DEF IsZero
  <1>4. QED
    BY <1>2, <1>3

\* With a receive timeout no statement of SockTunnel waits for ever, whatever the
\* proxy does: the half of TunnelReturns that is not fairness.
THEOREM NeverStuckHolds == TunnelSpec => []NeverStuck
  <1>1. TunnelInv => NeverStuck
    <2> SUFFICES ASSUME TunnelInv, timed PROVE NeverStuck
      BY DEF NeverStuck
    <2>1. TunnelTypeOK /\ total \in 0..2 /\ res1 \in 0..7 /\ resp2 \in 0..7
      BY DEF TunnelInv, TunnelTypeOK
    <2>2. 2 \in Nat /\ 10 \in Nat /\ 2 - total \in Nat
      BY <2>1
    <2>3. /\ \E n \in 0..2 : Recv(2, n)
          /\ \E n \in 0..10 : Recv(10, n)
          /\ \E n \in 0..(2 - total) : Recv(2 - total, n)
      BY <2>1, <2>2, RecvHasResult, Zenon
    <2>4. /\ \E b \in BOOLEAN : b \in IsZero(res1)
          /\ \E b \in BOOLEAN : b \in IsZero(resp2)
      BY <2>1, ByteIsSomething, Zenon
    <2>5. QED
      BY <2>1, <2>3, <2>4, Zenon DEF NeverStuck, TunnelTypeOK
  <1>2. QED
    BY <1>1, TunnelInvHolds, PTL

\* Every step of SockTunnel is one of at most eight: the other half of TunnelReturns.
THEOREM TunnelAdvancesHolds == TunnelSpec => TunnelAdvances
  <1>1. TunnelInv /\ [TunnelNext]_vars => [Tunnel => Rank \in 0..7 /\ Rank' > Rank]_vars
    <2> SUFFICES ASSUME TunnelInv, Tunnel PROVE Rank \in 0..7 /\ Rank' > Rank
      OBVIOUS
    <2>1. pc = "reply" => total \in 0..1
      BY DEF TunnelInv, TunnelTypeOK, StreamInv
    <2>2. CASE NoSocket \/ GetSocket
      BY <2>2 DEF NoSocket, GetSocket, Rank
    <2>3. CASE ConnectFails \/ Connects
      BY <2>3 DEF ConnectFails, GiveUp, Connects, Rank
    <2>4. CASE RecvGreeting \/ MethodRefused \/ RecvAddress \/ Granted \/ Denied
      <3>1. CASE RecvGreeting
        <4>1. pc = "greeting" /\ pc' = "method"
          BY <3>1 DEF RecvGreeting
        <4>2. QED
          BY <4>1 DEF Rank
      <3>2. CASE MethodRefused
        <4>1. pc = "method" /\ pc' = "failed"
          BY <3>2 DEF MethodRefused, GiveUp
        <4>2. QED
          BY <4>1 DEF Rank
      <3>3. CASE RecvAddress
        <4>1. pc = "address" /\ pc' = "decide"
          BY <3>3 DEF RecvAddress
        <4>2. QED
          BY <4>1 DEF Rank
      <3>4. CASE Granted \/ Denied
        <4>1. pc = "decide" /\ pc' \in {"up", "failed"}
          BY <3>4 DEF Granted, Denied, GiveUp
        <4>2. QED
          BY <4>1 DEF Rank
      <3>5. QED
        BY <2>4, <3>1, <3>2, <3>3, <3>4
    <2>5. CASE MethodAccepted
      <3>1. total = 0
        BY <2>5 DEF MethodAccepted, TunnelInv, StreamInv
      <3>2. QED
        BY <2>5, <3>1 DEF MethodAccepted, Rank
    <2>6. CASE RecvReply
      <3>1. PICK n \in 0..(2 - total) :
              /\ total' = total + n
              /\ pc' = IF n = 0 \/ total + n = 2 THEN "address" ELSE "reply"
        BY <2>6 DEF RecvReply
      <3>2. pc = "reply" /\ total \in 0..1
        BY <2>1, <2>6 DEF RecvReply
      <3>3. CASE n = 0 \/ total + n = 2
        BY <3>1, <3>2, <3>3 DEF Rank
      <3>4. CASE ~(n = 0 \/ total + n = 2)
        BY <3>1, <3>2, <3>4 DEF Rank
      <3>5. QED
        BY <3>3, <3>4
    <2>7. QED
      BY <2>2, <2>3, <2>4, <2>5, <2>6 DEF Tunnel
  <1>2. QED
    BY <1>1, TunnelInvHolds, PTL DEF TunnelSpec, TunnelAdvances
=============================================================================
