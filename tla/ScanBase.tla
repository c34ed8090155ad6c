------------------------------ MODULE ScanBase ------------------------------
(***************************************************************************)
(* What the four status scans share: the cancellation token and the flag   *)
(* the managed wrappers hand to the native library, the kernel's           *)
(* descriptor table, the OpenSSL handle, the result list of a batch, and   *)
(* the HTTP exchange every native scan runs (interface_scan).              *)
(*                                                                         *)
(* One request is in flight at a time: a batch is a sequential loop on one *)
(* thread.  What interleaves with it is whoever cancels the token and the  *)
(* other threads of the process, which open and close descriptors of their *)
(* own.  pc is the position of the scan thread, managed or native.         *)
(***************************************************************************)
EXTENDS Integers, FiniteSets

CONSTANTS
  Fds,        \* descriptors the process may have open (its RLIMIT_NOFILE)
  NoFd,       \* the value -1 of a descriptor variable
  NPaths,     \* words in the wordlist of the batch
  BufCap,     \* reads without a header end that fill the 64 KiB buffer
  Backends,   \* scans under study, of {"cpp", "tor", "http", "socks"}
  FlagModes   \* how native code sees the flag: "copy" (what P/Invoke does
              \* with a ref bool) or "shared" (what bool* promises a C caller)

ASSUME ScanAssumption ==
  /\ NoFd \notin Fds
  /\ IsFiniteSet(Fds)
  /\ NPaths \in Nat \ {0}
  /\ BufCap \in Nat \ {0}
  /\ Backends \subseteq {"cpp", "tor", "http", "socks"}
  /\ FlagModes \subseteq {"copy", "shared"}

VARIABLES
  conf,        \* the loaded configuration; no step changes it
  pc,          \* where the scan thread is
  token,       \* cts.IsCancellationRequested
  armed,       \* the request's callback is registered with the token
  cancelFlag,  \* the managed local the callback sets
  nflag,       \* what native code reads through cancel_flag
  engine,      \* the native engine of the request
  lostEngines, \* engines nobody will ever destroy
  resolved,    \* CppScanModule::domain_resolved is not empty
  fds,         \* descriptor table: who opened each descriptor
  foreign,     \* a scan closed a descriptor another thread had opened
  sock,        \* the native variable sock
  ssl,         \* the native variable ssl
  sslLost,     \* an SSL object was dropped without SSL_free
  hdr,         \* what interface_scan returned: class of the header block
  total,       \* reads so far without a header end
  tries,       \* executions of interface_scan for this request
  out,         \* the struct the native call returns
  reported,    \* Result.Count of the batch
  report       \* the entry added last

tokenVars  == <<token, armed, cancelFlag, nflag>>
engineVars == <<engine, lostEngines, resolved>>
fdVars     == <<fds, foreign>>
netVars    == <<sock, ssl, fds, foreign>>
readVars   == <<hdr, total, tries>>
batchVars  == <<reported, report, sslLost>>
vars == <<conf, pc, tokenVars, engineVars, netVars, readVars, out, batchVars>>

\* What Random.Next(Delay, Delay * factor) makes of the loaded delay: a wait to
\* sleep through, or, where the product wraps below Delay, an exception; a
\* delay the file left out is stack memory and can also make a wait that
\* Task.Delay refuses, or -1, which it takes for endless.
Delays == {"drawn", "wrapped", "unset"}

Config == [backend : Backends, https : BOOLEAN, timed : BOOLEAN, flag : FlagModes,
           delay : Delays]

\* A complete header block: status 200-399, 404, another status, or a block
\* without "HTTP/".  "none" is an empty block, "cancelled" a zeroed struct.
Answers == {"ok", "nf", "bad", "junk"}
Headers == Answers \cup {"none", "cancelled"}
\* "zero": a memset struct; "garbage": a struct no statement initialised.
Outputs == Headers \cup {"zero", "garbage"}
Reports == Outputs \cup {"nothing", "empty", "halted"}

\* "failed": an exception has left the batch.  "torn": that of its save, with a
\* part of the result file written.
ManagedPcs == {"next", "done", "failed", "torn", "c_create", "c_delay", "c_check",
               "c_call", "c_post", "t_delay", "t_reg", "t_call", "t_post",
               "h_reg", "h_create", "h_call", "s_create", "s_reg", "s_call",
               "x_post"}
Blocked    == {"delay_blocked", "dns_blocked", "ctrl_blocked", "io_blocked"}
Crashed    == {"crash_ssl", "crash_status"}
ExchangePcs == {"i_begin", "i_chk", "i_read"}
NativePcs  == ExchangePcs \cup
              {"d_socket", "d_connect", "d_tls", "d_fill",
               "t_begin", "t_tls", "t_chk", "t_eval", "t_rot", "t_auth",
               "t_again", "t_tls2", "t_fill",
               "h_begin", "h_tls", "h_chk", "h_post", "h_final", "h_close2",
               "s_begin", "s_tls", "s_chk", "s_post", "s_final",
               "ctrl_blocked", "io_blocked"}

Alive    == pc \notin Crashed
AtRest   == pc \in {"next", "done", "failed", "torn"}
InNative == pc \in NativePcs
Free     == {f \in Fds : fds[f] = "free"}
Held     == {f \in Fds : fds[f] = "scan"}

Become(from, to) == pc = from /\ pc' = to

----------------------------------------------------------------------------
(* Descriptors and SSL handles.                                            *)

\* socket(): some free descriptor becomes the scan's.
Open(f) == /\ f \in Free
           /\ fds' = [fds EXCEPT ![f] = "scan"]

\* close(f): EBADF on -1 or on a free descriptor, else whoever owns it loses it.
Close(f) ==
  /\ fds' = IF f = NoFd THEN fds ELSE [fds EXCEPT ![f] = "free"]
  /\ foreign' = (foreign \/ (f # NoFd /\ fds[f] = "other"))

\* SSL_shutdown then SSL_free through a variable nothing checks first: on a
\* handle that is not live the library dereferences a null, stale or
\* uninitialised pointer, which kills the process or is tolerated.
ReleaseSsl(to) ==
  \/ ssl = "live" /\ ssl' = "freed" /\ pc' = to
  \/ ssl # "live" /\ ssl' = ssl /\ pc' \in {to, "crash_ssl"}

\* The same behind if (isHttps && ssl).
ReleaseIfSet(to) ==
  IF conf.https /\ ssl # "null" THEN ReleaseSsl(to) ELSE ssl' = ssl /\ pc' = to

----------------------------------------------------------------------------
(* The managed batch loop (ExecCppScan and its three siblings).            *)

\* for (i...) SendAsync(wordlists[i]): the request's locals are fresh.
StartRequest ==
  /\ pc = "next"
  /\ reported < NPaths
  /\ pc' = CASE conf.backend = "cpp"  -> "c_create"
             [] conf.backend = "tor"  -> "t_delay"
             [] conf.backend = "http" -> "h_reg"
             [] OTHER                 -> "s_create"
  /\ tries' = 0
  /\ report' = "nothing"
  /\ UNCHANGED <<conf, tokenVars, engineVars, netVars, hdr, total, out,
                 reported, sslLost>>

\* Mutant: the save moved inside the loop.
SaveInLoop ==
  /\ Become("next", "done")
  /\ UNCHANGED <<conf, tokenVars, engineVars, netVars, readVars, out, batchVars>>

\* WriteToJsonAsync after the loop, and only then.
SaveBatch ==
  /\ Become("next", "done")
  /\ reported = NPaths
  /\ UNCHANGED <<conf, tokenVars, engineVars, netVars, readVars, out, batchVars>>

\* It throws: Serialize on a latency that is no number, WriteAllTextAsync
\* before the file is there or with a part of it written.
SaveFails ==
  /\ pc = "next" /\ reported = NPaths
  /\ pc' \in {"failed", "torn"}
  /\ UNCHANGED <<conf, tokenVars, engineVars, netVars, readVars, out, batchVars>>

\* await Task.Delay(Next(Delay, Delay * factor)) is over.
DelayEnds(from, to) ==
  /\ Become(from, to)
  /\ conf.delay # "wrapped"

\* Next or Task.Delay throws before anything is waited for.
DelayThrows(from) ==
  /\ pc = from
  /\ conf.delay # "drawn"

\* A wait of -1 ends with its token only.
DelayEndless ==
  /\ pc \in {"c_delay", "t_delay", "h_create", "s_create"}
  /\ conf.delay = "unset"
  /\ pc \in {"c_delay", "t_delay"} => ~token
  /\ pc' = "delay_blocked"
  /\ UNCHANGED <<conf, tokenVars, engineVars, netVars, readVars, out, batchVars>>

\* The token ends a wait it was handed to, by TaskCanceledException.
DelayCancelled(from, backend) ==
  /\ token
  /\ pc = from \/ (pc = "delay_blocked" /\ conf.backend = backend)

\* SendAsync returns r: its locals and those of the native call are gone, the
\* engine with them (whoever calls this has destroyed it).
Finish(r) ==
  /\ pc' = "next"
  /\ reported' = reported + 1
  /\ report' = r
  /\ sslLost' = (sslLost \/ ssl = "live")
  /\ engine' = "none"
  /\ resolved' = FALSE
  /\ armed' = FALSE /\ cancelFlag' = FALSE /\ nflag' = FALSE
  /\ sock' = NoFd /\ ssl' = "null"
  /\ hdr' = "none" /\ total' = 0 /\ out' = "zero"
  /\ UNCHANGED <<conf, token, lostEngines, fdVars, tries>>

\* cts.Register: a token already cancelled runs the callback at once.
Register(from, to) ==
  /\ Become(from, to)
  /\ armed' = TRUE
  /\ cancelFlag' = token
  /\ UNCHANGED <<conf, token, nflag, engineVars, netVars, readVars, out, batchVars>>

\* The P/Invoke call: native code starts from the flag's value at this point.
\* What the marshaller copies back on return is a local nothing reads again.
Call(from, to) ==
  /\ Become(from, to)
  /\ nflag' = cancelFlag
  /\ UNCHANGED <<conf, token, armed, cancelFlag, engineVars, netVars, readVars,
                 out, batchVars>>

----------------------------------------------------------------------------
(* interface_scan: the request and the reading of the response headers.    *)

\* Where the caller continues.
ReturnPc ==
  CASE conf.backend = "cpp"  -> "d_fill"
    [] conf.backend = "tor"  -> IF tries = 1 THEN "t_eval" ELSE "t_fill"
    [] conf.backend = "http" -> "h_post"
    [] OTHER                 -> "s_post"

\* if (isHttps && ssl) free and null it; if (sock >= 0) close and set -1.
CleanUp ==
  /\ ssl' = IF conf.https THEN "null" ELSE ssl
  /\ Close(sock)
  /\ sock' = NoFd

\* The exits of interface_scan that clean up: cancelled, or nothing written.
AbortExchange(h) ==
  /\ CleanUp
  /\ hdr' = h
  /\ pc' = ReturnPc
  /\ UNCHANGED <<conf, tokenVars, engineVars, total, tries, out, batchVars>>

\* The exits that leave sock and ssl open for the caller.
EndExchange(h) ==
  /\ hdr' = h
  /\ pc' = ReturnPc
  /\ UNCHANGED <<conf, tokenVars, engineVars, netVars, total, tries, out, batchVars>>

\* Mutant: the flag is not looked at in the read loop.
CancelOnlyBeforeWrite ==
  /\ pc = "i_begin"
  /\ nflag
  /\ AbortExchange("cancelled")

ExchangeCancelled ==
  /\ pc \in {"i_begin", "i_chk"}
  /\ nflag
  /\ AbortExchange("cancelled")

\* SSL_write or send fails; both do on a descriptor of -1.
WriteFails ==
  /\ pc = "i_begin" /\ ~nflag
  /\ conf.https => ssl = "live"
  /\ AbortExchange("none")

\* SSL_write through a handle that is not live.
WriteWithoutHandle ==
  /\ pc = "i_begin" /\ ~nflag
  /\ conf.https /\ ssl # "live"
  /\ \/ pc' = "crash_ssl" /\ UNCHANGED <<netVars, hdr>>
     \/ pc' = ReturnPc /\ CleanUp /\ hdr' = "none"
  /\ UNCHANGED <<conf, tokenVars, engineVars, total, tries, out, batchVars>>

WriteSucceeds ==
  /\ Become("i_begin", "i_chk") /\ ~nflag
  /\ sock # NoFd
  /\ conf.https => ssl = "live"
  /\ total' = 0
  /\ UNCHANGED <<conf, tokenVars, engineVars, netVars, hdr, tries, out, batchVars>>

\* Mutant: the loop forgets how much it has read.
ReadMoreUnbounded ==
  /\ Become("i_chk", "i_read") /\ ~nflag
  /\ UNCHANGED <<conf, tokenVars, engineVars, netVars, readVars, out, batchVars>>

\* The head of the read loop: room left in the buffer.
ReadMore ==
  /\ Become("i_chk", "i_read") /\ ~nflag
  /\ total < BufCap
  /\ UNCHANGED <<conf, tokenVars, engineVars, netVars, readVars, out, batchVars>>

BufferFull ==
  /\ pc = "i_chk" /\ ~nflag
  /\ total >= BufCap
  /\ EndExchange("none")

\* Bytes arrive, no header end yet.
ReadPartial ==
  /\ Become("i_read", "i_chk")
  /\ total' = total + 1
  /\ UNCHANGED <<conf, tokenVars, engineVars, netVars, hdr, tries, out, batchVars>>

\* The header end arrives.
ReadHeaders ==
  /\ pc = "i_read"
  /\ \E h \in Answers : EndExchange(h)

\* Mutant: a plain timeout is retried as the TLS one is.
ReadRetried ==
  /\ Become("i_read", "i_chk")
  /\ UNCHANGED <<conf, tokenVars, engineVars, netVars, readVars, out, batchVars>>

\* EOF, an error or, on a plain socket, the receive timeout.
ReadFails ==
  /\ pc = "i_read"
  /\ EndExchange("none")

\* A timed-out SSL_read is SSL_ERROR_WANT_READ, and the loop retries it.
ReadStalls ==
  /\ Become("i_read", "i_chk")
  /\ conf.https /\ conf.timed
  /\ UNCHANGED <<conf, tokenVars, engineVars, netVars, readVars, out, batchVars>>

\* A receive timeout of 0 is none: a silent peer is waited for, here or in a
\* proxy or TLS handshake.
IoBlocks ==
  /\ pc \in {"i_read", "d_tls", "t_begin", "t_tls", "t_again", "t_tls2",
             "h_begin", "h_tls", "s_begin", "s_tls"}
  /\ ~conf.timed
  /\ pc \in {"t_begin", "t_again", "h_begin", "s_begin"} => ~nflag
  /\ pc \in {"h_tls", "s_tls"} => sock # NoFd
  /\ pc' = "io_blocked"
  /\ UNCHANGED <<conf, tokenVars, engineVars, netVars, readVars, out, batchVars>>

\* extract_status_from_buffer on a block without "HTTP/": strchr(NULL, ' ').
ExtractCrashes ==
  /\ pc \in {"d_fill", "t_eval", "t_fill", "h_final", "s_final"}
  /\ hdr = "junk"
  /\ pc' = "crash_status"
  /\ UNCHANGED <<conf, tokenVars, engineVars, netVars, readVars, out, batchVars>>

Exchange ==
  \/ ExchangeCancelled \/ WriteFails \/ WriteWithoutHandle \/ WriteSucceeds
  \/ ReadMore \/ BufferFull \/ ReadPartial \/ ReadHeaders \/ ReadFails
  \/ ReadStalls \/ IoBlocks \/ ExtractCrashes

\* Entering interface_scan.
BeginExchange ==
  /\ pc' = "i_begin"
  /\ tries' = tries + 1
  /\ UNCHANGED <<hdr, total>>

\* A native scan returns the struct o to its wrapper.
NativeReturn(o) ==
  /\ out' = o
  /\ pc' = CASE conf.backend = "cpp" -> "c_post"
             [] conf.backend = "tor" -> "t_post"
             [] OTHER                -> "x_post"
  /\ UNCHANGED <<conf, tokenVars, engineVars, readVars, batchVars>>

----------------------------------------------------------------------------
(* The environment.                                                        *)

\* Whoever owns the CancellationTokenSource cancels it: the callback runs.
Cancel ==
  /\ Alive
  /\ ~token
  /\ token' = TRUE
  /\ cancelFlag' = (cancelFlag \/ armed)
  /\ nflag' = (nflag \/ (armed /\ conf.flag = "shared" /\ InNative))
  /\ UNCHANGED <<conf, pc, armed, engineVars, netVars, readVars, out, batchVars>>

\* Other threads of the process use the same descriptor table.
OtherOpens ==
  /\ Alive
  /\ \E f \in Free : fds' = [fds EXCEPT ![f] = "other"]
  /\ UNCHANGED <<conf, pc, tokenVars, engineVars, foreign, sock, ssl, readVars,
                 out, batchVars>>

OtherCloses ==
  /\ Alive
  /\ \E f \in Fds : fds[f] = "other" /\ fds' = [fds EXCEPT ![f] = "free"]
  /\ UNCHANGED <<conf, pc, tokenVars, engineVars, foreign, sock, ssl, readVars,
                 out, batchVars>>

Environment == Cancel \/ OtherOpens \/ OtherCloses

ScanInit ==
  /\ conf \in Config
  /\ pc = "next"
  /\ token = FALSE /\ armed = FALSE /\ cancelFlag = FALSE /\ nflag = FALSE
  /\ engine = "none" /\ lostEngines = 0 /\ resolved = FALSE
  /\ fds = [f \in Fds |-> "free"] /\ foreign = FALSE
  /\ sock = NoFd /\ ssl = "null"
  /\ hdr = "none" /\ total = 0 /\ tries = 0 /\ out = "zero"
  /\ reported = 0 /\ report = "nothing" /\ sslLost = FALSE
=============================================================================
