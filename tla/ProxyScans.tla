----------------------------- MODULE ProxyScans -----------------------------
(***************************************************************************)
(* The scans through an HTTP proxy and through a SOCKS5 proxy: SendAsync   *)
(* of Proxy_Module/HttpScan/scan.cs and SocksScan/scan.cs, and the native  *)
(* HttpProxyScan and SocksScan.  Both native classes keep ssl in a member  *)
(* their constructors do not set, and return a result struct nothing       *)
(* initialises.                                                            *)
(***************************************************************************)
EXTENDS ScanBase

HttpRegister == Register("h_reg", "h_create")

\* Mutant: the engine is destroyed before the call.
CreateEngineGone(from, to) ==
  /\ DelayEnds(from, to)
  /\ engine' = "none"
  /\ ssl' = "wild"
  /\ UNCHANGED <<conf, tokenVars, lostEngines, resolved, sock, fdVars,
                 readVars, out, batchVars>>

\* await Task.Delay(value), which does not see the token; http_create.
CreateEngine(from, to) ==
  /\ DelayEnds(from, to)
  /\ engine' = "live"
  /\ ssl' = "wild"
  /\ UNCHANGED <<conf, tokenVars, lostEngines, resolved, sock, fdVars,
                 readVars, out, batchVars>>

\* The delay throws before the engine is made.
ProxyDelayFails ==
  /\ DelayThrows("h_create") \/ DelayThrows("s_create")
  /\ pc' = "failed"
  /\ armed' = FALSE
  /\ UNCHANGED <<conf, token, cancelFlag, nflag, engineVars, netVars, readVars,
                 out, batchVars>>

HttpCreate   == CreateEngine("h_create", "h_call")
HttpCall     == Call("h_call", "h_begin")
SocksCreate  == CreateEngine("s_create", "s_reg")
SocksRegister == Register("s_reg", "s_call")
SocksCall    == Call("s_call", "s_begin")

\* The result is copied whatever it holds, and the engine destroyed.
ProxyPost ==
  /\ pc = "x_post"
  /\ Finish(out)

----------------------------------------------------------------------------

\* The native scan was cancelled before it began.
ProxyBeginCancelled ==
  /\ pc \in {"h_begin", "s_begin"} /\ nflag
  /\ NativeReturn("garbage")
  /\ UNCHANGED netVars

\* HttpProxy or SockTunnel returns a descriptor or -1; the scan goes on with
\* either, and makes the SSL object when https.
ProxyTunnel(from, tls, chk) ==
  /\ Become(from, IF conf.https THEN tls ELSE chk)
  /\ ~nflag
  /\ \/ \E f \in Fds : Open(f) /\ sock' = f
     \/ sock' = NoFd /\ fds' = fds
  /\ ssl' = IF conf.https THEN "live" ELSE ssl
  /\ UNCHANGED <<conf, tokenVars, engineVars, foreign, readVars, out, batchVars>>

HttpTunnel  == ProxyTunnel("h_begin", "h_tls", "h_chk")
SocksTunnel == ProxyTunnel("s_begin", "s_tls", "s_chk")

\* SSL_connect < 0, as on a descriptor of -1.
ProxyTlsFails ==
  /\ pc \in {"h_tls", "s_tls"}
  /\ ssl' = "freed"
  /\ Close(sock)
  /\ NativeReturn("garbage")
  /\ UNCHANGED sock

\* SSL_connect >= 0: 0, a handshake shut down, passes too.
ProxyTls ==
  /\ pc \in {"h_tls", "s_tls"}
  /\ sock # NoFd
  /\ pc' = IF pc = "h_tls" THEN "h_chk" ELSE "s_chk"
  /\ UNCHANGED <<conf, tokenVars, engineVars, netVars, readVars, out, batchVars>>

\* A cancel check: if (isHttps) SSL_shutdown, SSL_free; close(sock); return
\* result, of which the later checks have filled a part.
CancelCheck(at, results) ==
  /\ pc = at /\ nflag
  /\ IF conf.https THEN ReleaseSsl("x_post") ELSE ssl' = ssl /\ pc' = "x_post"
  /\ Close(sock)
  /\ out' \in results
  /\ UNCHANGED <<conf, tokenVars, engineVars, sock, readVars, batchVars>>

ProxyCancelled ==
  \E at \in {"h_chk", "s_chk", "h_post", "s_post"} : CancelCheck(at, {"garbage"})

ProxyCancelledLate ==
  \E at \in {"h_final", "s_final"} : CancelCheck(at, {"garbage"} \cup ({hdr} \ {"junk"}))

\* Only the HTTP scan runs the query on a sock of -1.
ProxyQuery ==
  /\ pc \in {"h_chk", "s_chk"} /\ ~nflag
  /\ pc = "s_chk" => sock # NoFd
  /\ BeginExchange
  /\ UNCHANGED <<conf, tokenVars, engineVars, netVars, out, batchVars>>

\* if (sock < 0) return result: before the query (socks), after it (http).
ProxyNoSocket ==
  /\ pc \in {"s_chk", "h_post"} /\ ~nflag
  /\ sock = NoFd
  /\ NativeReturn("garbage")
  /\ UNCHANGED netVars

ProxyPostCheck ==
  /\ \/ Become("h_post", "h_final") /\ sock # NoFd
     \/ Become("s_post", "s_final")
  /\ ~nflag
  /\ UNCHANGED <<conf, tokenVars, engineVars, netVars, readVars, out, batchVars>>

\* Mutant: the guard of the release is missing.
HttpReleaseUnguarded ==
  /\ pc = "h_final" /\ ~nflag
  /\ hdr # "junk"
  /\ ReleaseSsl("h_close2")
  /\ Close(sock)
  /\ UNCHANGED <<conf, tokenVars, engineVars, sock, readVars, out, batchVars>>

\* The result is filled; if (isHttps && ssl) free it and close(sock) ...
HttpRelease ==
  /\ pc = "h_final" /\ ~nflag
  /\ hdr # "junk"
  /\ ReleaseIfSet("h_close2")
  /\ IF conf.https /\ ssl # "null" THEN Close(sock) ELSE UNCHANGED fdVars
  /\ UNCHANGED <<conf, tokenVars, engineVars, sock, readVars, out, batchVars>>

\* ... and if (sock >= 0) close(sock), which nothing has set to -1.
HttpClose ==
  /\ pc = "h_close2"
  /\ Close(sock)
  /\ NativeReturn(hdr)
  /\ UNCHANGED <<sock, ssl>>

\* The result is filled; SSL_shutdown, SSL_free and close in any case.
SocksRelease ==
  /\ pc = "s_final" /\ ~nflag
  /\ hdr # "junk"
  /\ ReleaseSsl("x_post")
  /\ Close(sock)
  /\ out' = hdr
  /\ UNCHANGED <<conf, tokenVars, engineVars, sock, readVars, batchVars>>

ProxyNext ==
  \/ HttpRegister \/ HttpCreate \/ HttpCall \/ SocksCreate \/ SocksRegister
  \/ SocksCall \/ ProxyDelayFails \/ ProxyPost \/ ProxyBeginCancelled
  \/ HttpTunnel \/ SocksTunnel \/ ProxyTlsFails \/ ProxyTls
  \/ ProxyCancelled \/ ProxyCancelledLate \/ ProxyQuery \/ ProxyNoSocket
  \/ ProxyPostCheck \/ HttpRelease \/ HttpClose \/ SocksRelease
=============================================================================
