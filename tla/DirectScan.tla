----------------------------- MODULE DirectScan -----------------------------
(***************************************************************************)
(* The direct scan: CppScan.SendAsync (Fingerprinter/Warmup.cs) and        *)
(* CppScanModule (ScanModule/scan.cpp).                                    *)
(***************************************************************************)
EXTENDS ScanBase

\* create_engine_scan: the constructor resolves the target, or fails to.
CppCreate ==
  /\ Become("c_create", "c_delay")
  /\ engine' = "live"
  /\ resolved' \in BOOLEAN
  /\ armed' = TRUE /\ cancelFlag' = token
  /\ UNCHANGED <<conf, token, nflag, lostEngines, netVars, readVars, out, batchVars>>

\* The resolver's recvfrom has no timeout: the answer never comes.
CppDnsLost ==
  /\ Become("c_create", "dns_blocked")
  /\ UNCHANGED <<conf, tokenVars, engineVars, netVars, readVars, out, batchVars>>

\* The delay ends before the token is cancelled...
CppDelay ==
  /\ DelayEnds("c_delay", "c_check")
  /\ ~token
  /\ UNCHANGED <<conf, tokenVars, engineVars, netVars, readVars, out, batchVars>>

\* ... or the delay, cancelled or impossible, throws through SendAsync and the
\* batch loop.  The engine's handle was a local: nobody destroys it.
CppDelayFails ==
  /\ DelayCancelled("c_delay", "cpp") \/ DelayThrows("c_delay")
  /\ pc' = "failed"
  /\ engine' = "none" /\ lostEngines' = lostEngines + 1
  /\ armed' = FALSE
  /\ UNCHANGED <<conf, token, cancelFlag, nflag, resolved, netVars, readVars,
                 out, batchVars>>

\* The check before the native call.
CppCheck ==
  /\ pc = "c_check"
  /\ \/ token /\ Finish("empty")
     \/ /\ ~token
        /\ pc' = "c_call"
        /\ UNCHANGED <<conf, tokenVars, engineVars, netVars, readVars, out, batchVars>>

CppCall == Call("c_call", "d_socket")

\* The check after it, the copy of the result, engine_destroy_scan.
CppPost ==
  /\ pc = "c_post"
  /\ Finish(IF token THEN "empty" ELSE out)

----------------------------------------------------------------------------

\* No resolved target or no descriptor: the output is returned as it is.
ScanNoSocket ==
  /\ pc = "d_socket"
  /\ ~resolved \/ Free = {}
  /\ NativeReturn("garbage")
  /\ UNCHANGED netVars

ScanSocket ==
  /\ Become("d_socket", "d_connect")
  /\ resolved
  /\ \E f \in Fds : Open(f) /\ sock' = f
  /\ UNCHANGED <<conf, tokenVars, engineVars, foreign, ssl, readVars, out, batchVars>>

ScanConnectFails ==
  /\ pc = "d_connect"
  /\ Close(sock)
  /\ NativeReturn("garbage")
  /\ UNCHANGED <<sock, ssl>>

ScanConnect ==
  /\ pc = "d_connect"
  /\ IF conf.https
     THEN pc' = "d_tls" /\ ssl' = "live" /\ UNCHANGED readVars
     ELSE BeginExchange /\ ssl' = ssl
  /\ UNCHANGED <<conf, tokenVars, engineVars, sock, fdVars, out, batchVars>>

ScanTlsFails ==
  /\ pc = "d_tls"
  /\ ssl' = "freed"
  /\ Close(sock)
  /\ NativeReturn("garbage")
  /\ UNCHANGED sock

ScanTls ==
  /\ pc = "d_tls"
  /\ BeginExchange
  /\ UNCHANGED <<conf, tokenVars, engineVars, netVars, out, batchVars>>

\* The output is filled and returned; sock and ssl are left as they are.
ScanFill ==
  /\ pc = "d_fill"
  /\ hdr # "junk"
  /\ NativeReturn(hdr)
  /\ UNCHANGED netVars

DirectNext ==
  \/ CppCreate \/ CppDnsLost \/ CppDelay \/ CppDelayFails \/ CppCheck
  \/ CppCall \/ CppPost
  \/ ScanNoSocket \/ ScanSocket \/ ScanConnectFails \/ ScanConnect
  \/ ScanTlsFails \/ ScanTls \/ ScanFill
=============================================================================
