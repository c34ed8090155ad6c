--------------------------- MODULE ScanInvariants ---------------------------
(***************************************************************************)
(* The inductive invariant of ScanSystem, in parts: what strengthens the   *)
(* properties the runs check so that every step preserves them.            *)
(***************************************************************************)
EXTENDS ScanSystem

\* Which positions belong to which backend; the rest are shared.
CppPcs   == {"c_create", "c_delay", "c_check", "c_call", "c_post",
             "d_socket", "d_connect", "d_tls", "d_fill", "dns_blocked"}
TorPcs   == {"t_delay", "t_reg", "t_call", "t_post", "t_begin", "t_tls", "t_chk",
             "t_eval", "t_rot", "t_auth", "t_again", "t_tls2", "t_fill",
             "ctrl_blocked"}
HttpPcs  == {"h_reg", "h_create", "h_call", "h_begin", "h_tls", "h_chk", "h_post",
             "h_final", "h_close2"}
SocksPcs == {"s_create", "s_reg", "s_call", "s_begin", "s_tls", "s_chk", "s_post",
             "s_final"}

\* The thread is where its backend's code is.
PcInv ==
  /\ pc \in CppPcs => conf.backend = "cpp"
  /\ pc \in TorPcs => conf.backend = "tor"
  /\ pc \in HttpPcs => conf.backend = "http"
  /\ pc \in SocksPcs => conf.backend = "socks"
  /\ pc = "x_post" => conf.backend \in {"http", "socks"}
  /\ pc = "delay_blocked" => conf.delay = "unset"

\* Before the first exchange, during one, after it.
Before == {"delay_blocked", "c_create", "c_delay", "c_check", "c_call", "d_socket", "d_connect", "d_tls",
           "t_delay", "t_reg", "t_call", "t_begin", "t_tls", "t_chk",
           "h_reg", "h_create", "h_call", "h_begin", "h_tls", "h_chk",
           "s_create", "s_reg", "s_call", "s_begin", "s_tls", "s_chk"}
Between == {"t_eval", "t_rot", "t_auth", "t_again", "t_tls2"}

\* How often the exchange has run, and how full its buffer is.
CountInv ==
  /\ pc \in Before => tries = 0
  /\ pc \in Between => tries = 1
  /\ pc = "t_fill" => tries \in {1, 2}
  /\ pc \in ExchangePcs => tries = 1 \/ (tries = 2 /\ conf.backend = "tor")
  /\ pc = "i_read" => total < BufCap
  /\ pc \notin {"next", "done", "failed", "torn"} => reported < NPaths
  /\ pc \in {"done", "torn"} => reported = NPaths

\* Types, positions and counts.
TypeInv == TypeOK /\ PcInv /\ CountInv

\* An exception of a delay has left the batch before its last answer.
Abandoned == pc = "failed" /\ reported < NPaths

\* Positions where the request has made its engine and not yet destroyed it.
EnginePcs == NativePcs \cup
  {"c_delay", "c_check", "c_call", "c_post", "t_call", "t_post",
   "h_call", "s_reg", "s_call", "x_post"}

\* The engine of the request in flight is live, and only a direct scan whose
\* delay threw has lost one.
EngineInv ==
  /\ pc \in EnginePcs => engine = "live"
  /\ pc \in {"next", "done", "failed", "torn", "c_create", "t_delay", "t_reg",
             "h_reg", "h_create", "s_create"} => engine = "none"
  /\ pc = "delay_blocked" => (engine = "live" <=> conf.backend = "cpp")
  /\ lostEngines = IF Abandoned /\ conf.backend = "cpp" THEN 1 ELSE 0
  /\ Abandoned => token \/ conf.delay # "drawn"

\* Descriptors of finished requests: the one in sock is the request's own.
Leaked == Held \ {sock}

\* Positions before the scan opens a descriptor, and after its last close.
NoSockPcs == {"next", "done", "failed", "torn", "delay_blocked", "dns_blocked",
              "c_create", "c_delay", "c_check", "c_call", "d_socket",
              "t_delay", "t_reg", "t_call", "t_begin", "t_rot", "t_again",
              "h_reg", "h_create", "h_call", "h_begin",
              "s_create", "s_reg", "s_call", "s_begin"}
\* Positions that hold a descriptor, and those that have closed it.
HasSockPcs == {"d_connect", "d_tls", "t_tls", "t_chk", "t_tls2", "t_auth",
               "i_chk", "i_read", "h_final"}
ClosedPcs == {"t_post", "x_post"}
\* Where sock may name a descriptor the scan has closed.
StalePcs == {"c_post", "t_post", "x_post", "h_close2"} \cup Crashed

\* sock is the scan's own descriptor wherever it is closed or used; only the
\* direct scan leaves others behind, at most one for each finished request.
FdInv ==
  /\ pc \in NoSockPcs => sock = NoFd
  /\ pc \in HasSockPcs => sock # NoFd
  /\ sock # NoFd /\ pc \notin StalePcs => fds[sock] = "scan"
  /\ pc = "h_close2" /\ ~conf.https => sock \in Held
  /\ pc \in ClosedPcs => Held = {}
  /\ conf.backend # "cpp" => Leaked = {}
  /\ Cardinality(Leaked) <= reported
  /\ NoForeignClose

\* The SSL object is live wherever it is used, whoever reaches it; where it is
\* not, sock is -1 and the scan is one HandleSafety excepts.
SslInv ==
  /\ ssl = "live" => conf.https
  /\ ssl = "live" => sock # NoFd \/ pc \in {"h_tls", "s_tls"}
  /\ ssl = "live" /\ conf.backend = "cpp" => sock \in Held
  /\ pc \in ClosedPcs \cup {"h_close2"} => ssl # "live"
  /\ conf.backend \in {"cpp", "tor"} =>
       (pc \in NoSockPcs \cup {"d_connect", "t_auth"} \/ ~conf.https => ssl = "null")
  /\ pc \in {"next", "done", "failed", "torn", "h_reg", "h_create", "s_create"} => ssl = "null"
  /\ pc \in {"d_tls", "t_tls", "t_tls2", "h_tls", "s_tls"} => conf.https /\ ssl = "live"
  /\ conf.https /\ pc \in {"t_chk", "h_chk", "s_chk"} => ssl = "live" /\ sock # NoFd
  /\ conf.https /\ pc \in ExchangePcs =>
       \/ ssl = "live"
       \/ ssl = "null" /\ sock = NoFd /\ conf.backend = "tor" /\ tries = 2
  /\ conf.https /\ pc \in {"d_fill", "t_eval", "t_fill", "h_post", "h_final",
                          "s_post", "s_final"} =>
       ssl = IF sock = NoFd THEN "null" ELSE "live"
  /\ sslLost => conf.https /\ conf.backend = "cpp" /\ Leaked # {}
  /\ HandleSafety

\* What the header class and the output may be, position by position.
AnswerInv ==
  /\ nflag \/ cancelFlag => token
  /\ hdr = "cancelled" => token
  /\ out = "cancelled" => token
  /\ pc \notin {"next", "done", "failed", "torn"} => report = "nothing"
  /\ Abandoned => report = "nothing"
  /\ pc \in {"h_post", "s_post", "t_eval"} \cup Between /\ hdr = "cancelled" => nflag
  /\ pc \in {"h_final", "h_close2", "s_final"} => hdr # "cancelled"
  /\ pc = "x_post" => out # "cancelled"
  /\ conf.backend = "tor" /\ tries = 2 /\ conf.flag = "copy" /\ InNative => ~nflag
  /\ pc = "t_tls2" /\ conf.flag = "copy" => ~nflag
  /\ pc \in Before \cup {"next"} => hdr = "none"
  /\ pc \in ExchangePcs \cup {"t_tls2"} => hdr # "cancelled"
  /\ pc = "t_fill" /\ hdr \in {"none", "bad", "cancelled"} => tries = 2
  /\ pc = "t_fill" /\ hdr = "cancelled" => conf.flag = "shared"
  /\ pc = "t_post" /\ out = "cancelled" => conf.flag = "shared"
  /\ pc = "t_post" /\ out \in {"none", "bad", "cancelled"} => tries = 2
  /\ pc = "t_post" => out # "garbage"
  /\ ReportsAreAnswers
  /\ BadStatusWasRetried

\* The inductive invariant.
IInv == TypeInv /\ EngineInv /\ FdInv /\ SslInv /\ AnswerInv

=============================================================================
