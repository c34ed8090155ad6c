------------------------------ MODULE TorScan ------------------------------
(***************************************************************************)
(* The scan through Tor: MainTorScan.SendAsync (Tor/TorScan.cs) and Scan   *)
(* (TorScan/tor_scan.cpp), which rotates the circuit and runs the query    *)
(* once more when the answer's status is bad.                              *)
(***************************************************************************)
EXTENDS ScanBase

\* The delay ends before the token is cancelled.
TorDelay ==
  /\ DelayEnds("t_delay", "t_reg")
  /\ ~token
  /\ UNCHANGED <<conf, tokenVars, engineVars, netVars, readVars, out, batchVars>>

\* An exception of the delay leaves the batch; there is no engine yet.
TorDelayFails ==
  /\ DelayCancelled("t_delay", "tor") \/ DelayThrows("t_delay")
  /\ pc' = "failed"
  /\ UNCHANGED <<conf, tokenVars, engineVars, netVars, readVars, out, batchVars>>

\* Register; a cancelled token returns an empty result, else the engine is made.
TorRegister ==
  /\ pc = "t_reg"
  /\ \/ token /\ Finish("empty")
     \/ /\ ~token
        /\ pc' = "t_call"
        /\ armed' = TRUE /\ cancelFlag' = FALSE
        /\ engine' = "live"
        /\ UNCHANGED <<conf, token, nflag, lostEngines, resolved, netVars,
                       readVars, out, batchVars>>

TorCall == Call("t_call", "t_begin")

\* An output with no domain and status 0 is replaced; finally destroys the engine.
TorPost ==
  /\ pc = "t_post"
  /\ Finish(IF out = "zero" THEN "halted" ELSE out)

----------------------------------------------------------------------------

\* Mutant: without the memset.
TorReturnUnset == NativeReturn("garbage") /\ UNCHANGED netVars

\* Return output, memset to zero, without touching sock and ssl.
TorReturnZero ==
  NativeReturn("zero") /\ UNCHANGED netVars

TorBeginStops ==
  /\ pc = "t_begin"           \* cancelled, or SockTunnel returned -1
  /\ TorReturnZero

\* SockTunnel succeeds; SSL_new when https.
Tunnel(from, tls) ==
  /\ Become(from, IF conf.https THEN tls ELSE IF from = "t_begin" THEN "t_chk" ELSE "i_begin")
  /\ ~nflag
  /\ \E f \in Fds : Open(f) /\ sock' = f
  /\ ssl' = IF conf.https THEN "live" ELSE ssl

TorTunnel ==
  /\ Tunnel("t_begin", "t_tls")
  /\ UNCHANGED <<conf, tokenVars, engineVars, foreign, readVars, out, batchVars>>

\* SSL_connect <= 0, first time or after the rotation.
TorTlsFails ==
  /\ pc \in {"t_tls", "t_tls2"}
  /\ ssl' = "freed"
  /\ Close(sock)
  /\ NativeReturn("zero")
  /\ UNCHANGED sock

TorTls ==
  /\ Become("t_tls", "t_chk")
  /\ UNCHANGED <<conf, tokenVars, engineVars, netVars, readVars, out, batchVars>>

TorCancelled ==
  /\ pc = "t_chk" /\ nflag
  /\ ssl' = IF conf.https THEN "freed" ELSE ssl
  /\ Close(sock)
  /\ NativeReturn("zero")
  /\ UNCHANGED sock

TorQuery ==
  /\ pc = "t_chk" /\ ~nflag
  /\ BeginExchange
  /\ UNCHANGED <<conf, tokenVars, engineVars, netVars, out, batchVars>>

\* Mutant: only an answer of 400 and above is bad.
BadStatusFrom400 == hdr = "bad"

\* status_code < 200 || (status_code >= 400 && status_code != 404)
BadStatus == hdr \in {"bad", "none", "cancelled"}

TorAccept ==
  /\ Become("t_eval", "t_fill")
  /\ hdr # "junk" /\ ~BadStatus
  /\ UNCHANGED <<conf, tokenVars, engineVars, netVars, readVars, out, batchVars>>

\* Mutant: the closed descriptor stays in sock.
TorResetKeepsSock ==
  /\ Become("t_eval", "t_rot")
  /\ BadStatus
  /\ ssl' = IF conf.https THEN "null" ELSE ssl
  /\ Close(sock)
  /\ UNCHANGED <<conf, tokenVars, engineVars, sock, readVars, out, batchVars>>

\* Reset the transport before the rotation.
TorReset ==
  /\ Become("t_eval", "t_rot")
  /\ BadStatus
  /\ CleanUp
  /\ UNCHANGED <<conf, tokenVars, engineVars, readVars, out, batchVars>>

\* TorRotation gets no control connection.
RotationFails ==
  /\ Become("t_rot", "t_again")
  /\ UNCHANGED <<conf, tokenVars, engineVars, netVars, readVars, out, batchVars>>

\* The control connection; sock, -1 meanwhile, stands for ctrl_sock.
RotationConnects ==
  /\ Become("t_rot", "t_auth")
  /\ \E f \in Fds : Open(f) /\ sock' = f
  /\ UNCHANGED <<conf, tokenVars, engineVars, foreign, ssl, readVars, out, batchVars>>

\* Authentication fails, or NEWNYM is sent and the cool down slept through;
\* either way the control socket is closed and the result ignored.
RotationEnds ==
  /\ Become("t_auth", "t_again")
  /\ Close(sock) /\ sock' = NoFd
  /\ UNCHANGED <<conf, tokenVars, engineVars, ssl, readVars, out, batchVars>>

\* The control socket has no receive timeout.
RotationBlocks ==
  /\ Become("t_auth", "ctrl_blocked")
  /\ UNCHANGED <<conf, tokenVars, engineVars, netVars, readVars, out, batchVars>>

TorAgainCancelled ==
  /\ pc = "t_again" /\ nflag
  /\ TorReturnZero

TorTunnelAgain ==
  /\ Tunnel("t_again", "t_tls2")
  /\ tries' = IF conf.https THEN tries ELSE tries + 1
  /\ UNCHANGED <<conf, tokenVars, engineVars, foreign, hdr, total, out, batchVars>>

TorTlsAgain ==
  /\ pc = "t_tls2"
  /\ BeginExchange
  /\ UNCHANGED <<conf, tokenVars, engineVars, netVars, out, batchVars>>

\* SockTunnel failed: the query is run all the same, on sock -1 and ssl null.
TorQueryWithoutTunnel ==
  /\ pc = "t_again" /\ ~nflag
  /\ BeginExchange
  /\ UNCHANGED <<conf, tokenVars, engineVars, netVars, out, batchVars>>

\* Mutant: the final close is missing.
TorFillKeepsSocket ==
  /\ pc = "t_fill"
  /\ hdr # "junk"
  /\ ReleaseIfSet("t_post")
  /\ out' = hdr
  /\ UNCHANGED <<conf, tokenVars, engineVars, sock, fdVars, readVars, batchVars>>

\* The output is filled, then if (isHttps && ssl) and if (sock >= 0).
TorFill ==
  /\ pc = "t_fill"
  /\ hdr # "junk"
  /\ ReleaseIfSet("t_post")
  /\ Close(sock)
  /\ out' = hdr
  /\ UNCHANGED <<conf, tokenVars, engineVars, sock, readVars, batchVars>>

TorNext ==
  \/ TorDelay \/ TorDelayFails \/ TorRegister \/ TorCall \/ TorPost
  \/ TorBeginStops \/ TorTunnel \/ TorTlsFails \/ TorTls \/ TorCancelled
  \/ TorQuery \/ TorAccept \/ TorReset \/ RotationFails \/ RotationConnects
  \/ RotationEnds \/ RotationBlocks \/ TorAgainCancelled \/ TorTunnelAgain
  \/ TorTlsAgain \/ TorQueryWithoutTunnel \/ TorFill
=============================================================================
