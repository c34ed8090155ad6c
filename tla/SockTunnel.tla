----------------------------- MODULE SockTunnel -----------------------------
(***************************************************************************)
(* SocksProxy::SockTunnel (Generic_Module/SocksModule.cpp): the SOCKS5     *)
(* greeting and CONNECT request of the Tor and SOCKS scans, over a stream  *)
(* whose bytes arrive in segments of the network's choosing.               *)
(*                                                                         *)
(* A byte is its position in what the proxy sends: 1 and 2 are the answer  *)
(* to the greeting, 3 on the answer to CONNECT: VER, REP, RSV, ATYP, the   *)
(* bound address and port.  Position 0 is a byte of a buffer that nothing  *)
(* has written.                                                            *)
(***************************************************************************)
EXTENDS Integers

CONSTANT ReplyLens  \* lengths of the proxy's answer to CONNECT (10 for IPv4)

ASSUME ReplyAssumption == ReplyLens \subseteq {n \in Nat : n >= 8}

VARIABLES
  timed,  \* a receive timeout is set
  proxy,  \* what this proxy answers
  pc,     \* the statement SockTunnel is about to execute
  fd,     \* its socket: "none", "open" or "closed"
  sent,   \* bytes the proxy has sent
  shut,   \* the proxy has closed its side
  got,    \* bytes SockTunnel has taken from the stream
  total,  \* total_received
  res1,   \* the byte in res[1]
  resp2,  \* the byte in response[2]
  short   \* a recv delivered less than the message it was meant for

net  == <<sent, shut>>
vars == <<timed, proxy, pc, fd, net, got, total, res1, resp2, short>>

\* method: no authentication is accepted; rep: the request is granted; addr:
\* the first byte of the bound address is 0; len: the length of the reply.
Proxies == [method : BOOLEAN, rep : BOOLEAN, addr : BOOLEAN, len : ReplyLens]

TunnelInit ==
  /\ timed \in BOOLEAN /\ proxy \in Proxies
  /\ pc = "socket" /\ fd = "none"
  /\ sent = 0 /\ shut = FALSE
  /\ got = 0 /\ total = 0 /\ res1 = 0 /\ resp2 = 0 /\ short = FALSE

\* The values byte p == 0 may have: those of the messages are fixed, an unset
\* byte is anything.
IsZero(p) ==
  CASE p = 0 -> BOOLEAN
    [] p = 2 -> {proxy.method}
    [] p = 4 -> {proxy.rep}
    [] p = 5 -> {TRUE}
    [] p = 7 -> {proxy.addr}
    [] OTHER -> {FALSE}

Smaller(a, b) == IF a < b THEN a ELSE b

\* Mutant: SO_RCVTIMEO is not set.
RecvForEver(max, n) ==
  \/ sent > got /\ n = Smaller(max, sent - got)
  \/ sent = got /\ shut /\ n = 0

\* recv(sock, buf, max): what has arrived, up to max; 0 stands for the end of
\* the stream and for the -1 of the timeout, which the code treats alike.
Recv(max, n) ==
  \/ sent > got /\ n = Smaller(max, sent - got)
  \/ sent = got /\ (shut \/ timed) /\ n = 0

----------------------------------------------------------------------------
\* socket() fails.
NoSocket ==
  /\ pc = "socket" /\ pc' = "failed"
  /\ UNCHANGED <<timed, proxy, fd, net, got, total, res1, resp2, short>>

GetSocket ==
  /\ pc = "socket" /\ pc' = "connect"
  /\ fd' = "open"
  /\ UNCHANGED <<timed, proxy, net, got, total, res1, resp2, short>>

\* Mutant: return -1 without the close.
GiveUpOpen ==
  /\ pc' = "failed"
  /\ UNCHANGED <<timed, proxy, fd, net, got, total, res1, resp2, short>>

\* close(sock); return -1.
GiveUp ==
  /\ pc' = "failed"
  /\ fd' = "closed"
  /\ UNCHANGED <<timed, proxy, net, got, total, res1, resp2, short>>

\* inet_pton or connect fails.
ConnectFails == pc = "connect" /\ GiveUp

\* connect, and the greeting is sent.
Connects ==
  /\ pc = "connect" /\ pc' = "greeting"
  /\ UNCHANGED <<timed, proxy, fd, net, got, total, res1, resp2, short>>

\* recv(sock, res, 2), once, its result not looked at.
RecvGreeting ==
  /\ pc = "greeting" /\ pc' = "method"
  /\ \E n \in 0..2 :
       /\ Recv(2, n)
       /\ got' = got + n
       /\ res1' = IF n = 2 THEN got + 2 ELSE res1
       /\ short' = (short \/ n < 2)
  /\ UNCHANGED <<timed, proxy, fd, net, total, resp2>>

\* res[1] == 0: the CONNECT request is sent.
MethodAccepted ==
  /\ pc = "method" /\ pc' = "reply"
  /\ TRUE \in IsZero(res1)
  /\ UNCHANGED <<timed, proxy, fd, net, got, total, res1, resp2, short>>

MethodRefused ==
  /\ pc = "method"
  /\ FALSE \in IsZero(res1)
  /\ GiveUp

\* Mutant: one recv for the two bytes.
RecvReplyOnce ==
  /\ pc = "reply" /\ pc' = "address"
  /\ \E n \in 0..2 :
       /\ Recv(2, n)
       /\ got' = got + n
       /\ total' = n
  /\ UNCHANGED <<timed, proxy, fd, net, res1, resp2, short>>

\* Mutant: every recv of the loop asks for two bytes.
RecvReplyTwo ==
  /\ pc = "reply"
  /\ \E n \in 0..2 :
       /\ Recv(2, n)
       /\ got' = got + n
       /\ total' = total + n
       /\ short' = (short \/ n = 0)
       /\ pc' = IF n = 0 \/ total + n >= 2 THEN "address" ELSE "reply"
  /\ UNCHANGED <<timed, proxy, fd, net, res1, resp2>>

\* while (total_received < 2) recv(sock, res + total_received, ...), which an
\* error or the end of the stream leaves.
RecvReply ==
  /\ pc = "reply"
  /\ \E n \in 0..(2 - total) :
       /\ Recv(2 - total, n)
       /\ got' = got + n
       /\ total' = total + n
       /\ res1' = IF n > 0 /\ total + n = 2 THEN got + n ELSE res1
       /\ short' = (short \/ n = 0)
       /\ pc' = IF n = 0 \/ total + n = 2 THEN "address" ELSE "reply"
  /\ UNCHANGED <<timed, proxy, fd, net, resp2>>

\* Mutant: only the bytes that are looked at are taken.
RecvAddressHead ==
  /\ pc = "address" /\ pc' = "decide"
  /\ \E n \in 0..3 :
       /\ Recv(3, n)
       /\ got' = got + n
       /\ resp2' = IF n = 3 THEN got + 3 ELSE 0
       /\ short' = (short \/ n < 3)
  /\ UNCHANGED <<timed, proxy, fd, net, total, res1>>

\* recv(sock, response, 10), once: eight bytes are due from an IPv4 proxy.
RecvAddress ==
  /\ pc = "address" /\ pc' = "decide"
  /\ \E n \in 0..10 :
       /\ Recv(10, n)
       /\ got' = got + n
       /\ resp2' = IF n >= 3 THEN got + 3 ELSE 0
       /\ short' = (short \/ n < 8)
  /\ UNCHANGED <<timed, proxy, fd, net, total, res1>>

\* response[2] == 0, which msg_according_to_code calls "Success".
Granted ==
  /\ pc = "decide" /\ pc' = "up"
  /\ TRUE \in IsZero(resp2)
  /\ UNCHANGED <<timed, proxy, fd, net, got, total, res1, resp2, short>>

Denied ==
  /\ pc = "decide"
  /\ FALSE \in IsZero(resp2)
  /\ GiveUp

Tunnel == \/ NoSocket \/ GetSocket \/ ConnectFails \/ Connects \/ RecvGreeting
          \/ MethodAccepted \/ MethodRefused \/ RecvReply \/ RecvAddress
          \/ Granted \/ Denied

----------------------------------------------------------------------------
(* The proxy.                                                              *)

\* What it may have sent by now: a refused greeting gets no further answer.
Due ==
  CASE pc \in {"socket", "connect", "failed"}        -> 0
    [] pc \in {"greeting", "method"} \/ ~proxy.method -> 2
    [] OTHER                                        -> 2 + proxy.len

\* Another segment of its answer arrives.
ProxySends ==
  /\ ~shut
  /\ \E n \in 1..Due : sent < n /\ sent' = n
  /\ UNCHANGED <<timed, proxy, pc, fd, shut, got, total, res1, resp2, short>>

ProxyShuts ==
  /\ pc \notin {"socket", "connect", "failed"} /\ ~shut
  /\ shut' = TRUE
  /\ UNCHANGED <<timed, proxy, pc, fd, sent, got, total, res1, resp2, short>>

Returned == pc \in {"up", "failed"} /\ UNCHANGED vars

TunnelNext == Tunnel \/ ProxySends \/ ProxyShuts \/ Returned

\* SockTunnel runs when it can; the proxy owes it nothing.
TunnelSpec == TunnelInit /\ [][TunnelNext]_vars /\ WF_vars(Tunnel)

----------------------------------------------------------------------------
\* Every variable has its type.
TunnelTypeOK ==
  /\ timed \in BOOLEAN /\ proxy \in Proxies
  /\ pc \in {"socket", "connect", "greeting", "method", "reply", "address",
             "decide", "up", "failed"}
  /\ fd \in {"none", "open", "closed"}
  /\ shut \in BOOLEAN /\ short \in BOOLEAN
  /\ sent \in 0..(2 + proxy.len) /\ got \in 0..sent
  /\ total \in 0..2 /\ res1 \in 0..4 /\ resp2 \in 0..7

\* A proxy that refuses is taken for one that grants only when the first byte
\* of its bound address is 0 or when some read fell short, which shifts the
\* byte that is looked at or leaves it unset (SocksModule.cpp 108-117).
RefusalCaught == pc = "up" /\ ~proxy.rep => proxy.addr \/ short

\* When no read falls short, a tunnel over IPv4 is handed over with nothing of
\* the proxy's answer left in the stream for the HTTP parser to trip over.
CleanTunnel == pc = "up" /\ ~short /\ proxy.len = 10 => got = 2 + proxy.len

\* With a receive timeout SockTunnel returns, whatever the proxy does.
TunnelReturns == timed ~> pc \in {"up", "failed"}

DialState == IF pc = "up" THEN "up" ELSE IF pc = "failed" THEN "down" ELSE "dialing"

TheDial == INSTANCE Dial WITH state <- DialState, open <- (fd = "open")

\* SockTunnel is a dial: an open descriptor, or -1 and nothing left open.
KeepsDialPromise == TheDial!Spec

\* SocksModule.cpp 56: "Returns the active socket descriptor on success, or -1
\* on any failure", so where the whole of every answer is read, a descriptor is
\* returned only for a granted request.
FailureIsReported == pc = "up" /\ ~short => proxy.method /\ proxy.rep
=============================================================================
