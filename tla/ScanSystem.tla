----------------------------- MODULE ScanSystem -----------------------------
(***************************************************************************)
(* A batch of requests through any of the four backends, composed with     *)
(* cancellation and with the rest of the process.                          *)
(***************************************************************************)
EXTENDS DirectScan, TorScan, ProxyScans

\* The steps of the thread that runs the batch.
Thread == \/ StartRequest \/ SaveBatch \/ SaveFails \/ DelayEndless \/ Exchange
          \/ DirectNext \/ TorNext \/ ProxyNext

\* The batch is over, or the process is.
Ended == pc \in {"done", "failed", "torn"} \cup Blocked \cup Crashed /\ UNCHANGED vars

Next == Thread \/ Environment \/ Ended

Spec == ScanInit /\ [][Next]_vars

\* A thread that can run does run; nobody is obliged to cancel, and a peer
\* may answer a read in any of the ways the read allows, for ever.
FairSpec == Spec /\ WF_vars(Thread)

----------------------------------------------------------------------------
\* Every variable has its type.
TypeOK ==
  /\ conf \in Config
  /\ pc \in ManagedPcs \cup NativePcs \cup Blocked \cup Crashed
  /\ token \in BOOLEAN /\ armed \in BOOLEAN
  /\ cancelFlag \in BOOLEAN /\ nflag \in BOOLEAN
  /\ engine \in {"none", "live"} /\ lostEngines \in Nat /\ resolved \in BOOLEAN
  /\ fds \in [Fds -> {"free", "scan", "other"}] /\ foreign \in BOOLEAN
  /\ sock \in Fds \cup {NoFd} /\ ssl \in {"null", "wild", "live", "freed"}
  /\ hdr \in Headers /\ total \in 0..BufCap /\ tries \in 0..2 /\ out \in Outputs
  /\ reported \in 0..NPaths /\ report \in Reports /\ sslLost \in BOOLEAN

\* Native code only ever runs on a live engine, no engine outlives its
\* request, and the one way to lose an engine is an exception of the direct
\* scan's delay, which ends the batch: its token is cancelled, or its loaded
\* delay is one no wait can be drawn from (Warmup.cs 58-107).
EngineLifecycle ==
  /\ InNative => engine = "live"
  /\ AtRest => engine = "none"
  /\ lostEngines > 0 =>
       /\ lostEngines = 1 /\ pc = "failed" /\ conf.backend = "cpp"
       /\ token \/ conf.delay # "drawn"
       /\ reported < NPaths

\* A scan closes only descriptors it opened, however its cleanups interleave
\* with the opens and closes of other threads; the HTTP-proxy scan over TLS,
\* which closes twice on its normal exit (HttpProxyScanModule.cpp 171-179),
\* is the only one that can break this.
NoForeignClose == foreign => conf.backend = "http" /\ conf.https

\* Between requests the scan holds no descriptor and has dropped no SSL object,
\* whichever of its exits the request took.  The direct scan is the exception:
\* it leaves at most one descriptor open per finished request, and the SSL
\* object with it (scan.cpp 118-135).
NothingHeldAtRest ==
  AtRest =>
    /\ conf.backend # "cpp" => Held = {} /\ ~sslLost
    /\ Cardinality(Held) <= reported
    /\ sslLost => conf.https /\ Held # {}

\* OpenSSL is never entered through a null, stale or uninitialised handle,
\* but for: the Tor scan's second query when its second tunnel failed, the
\* SOCKS scan's unconditional release, and, in both proxy scans, the release
\* of a cancelled scan whose handle interface_scan has already freed.
HandleSafety ==
  pc = "crash_ssl" =>
    \/ conf.backend = "tor" /\ conf.https /\ tries = 2 /\ sock = NoFd
    \/ conf.backend = "socks" /\ (conf.https => sock = NoFd)
    \/ conf.backend = "http" /\ conf.https /\ nflag /\ sock = NoFd

\* What reaches the result list is what a scan answered: the Tor wrapper never
\* reports uninitialised memory, and an aborted exchange is reported only where
\* native code saw the flag change while a Tor scan's second query ran.
ReportsAreAnswers ==
  /\ conf.backend = "tor" => report # "garbage"
  /\ report = "cancelled" =>
       token /\ conf.backend = "tor" /\ conf.flag = "shared" /\ tries = 2

\* A Tor result with a bad or missing status was asked for twice
\* (tor_scan.cpp 163-202).
BadStatusWasRetried ==
  conf.backend = "tor" /\ report \in {"none", "bad", "cancelled"} => tries = 2

\* Over plain HTTP a request whose receive timeout is set always returns: the
\* thread comes to rest, dies, or is held by one of the two reads that have no
\* timeout, the resolver's and the Tor control port's, or by a delay that was
\* never loaded.
PlainRequestReturns ==
  ~conf.https /\ conf.timed ~>
    \/ pc \in {"done", "failed", "torn"} \cup Crashed
    \/ pc \in {"dns_blocked", "ctrl_blocked"}
    \/ pc = "delay_blocked" /\ conf.delay = "unset"

\* If native code saw the flag the callback sets, a cancelled call would return
\* even against a peer that stalls a TLS read for ever.
SharedFlagHalts ==
  conf.flag = "shared" /\ conf.timed /\ cancelFlag /\ InNative ~>
    ~InNative \/ pc = "ctrl_blocked"

----------------------------------------------------------------------------
(* What a batch promises its caller.                                       *)

Phase == CASE pc = "done"   -> "saved" [] pc = "failed" -> "lost"
           [] pc = "torn"   -> "torn"  [] OTHER         -> "open"

Batch == INSTANCE ScanBatch WITH phase <- Phase, count <- reported,
           cancelled <- token, drawn <- conf.delay = "drawn"

\* A result file is written only for a batch with an answer for every word; a
\* batch whose waits can be drawn is abandoned before that only after a
\* cancellation; and a batch abandoned in the loop leaves no file, not even a
\* part of one: only a save that failed does.
KeepsBatchPromise == Batch!Spec

----------------------------------------------------------------------------
\* Warmup.cs 66: the callback's store signals the C++ loops to safely halt
\* execution, so a native call in progress returns once the flag is set.
CancelHaltsNative == conf.timed /\ cancelFlag /\ InNative ~> ~InNative

\* tor_scan.cpp 183: the second query runs on a re-established tunnel.
QueryHasTunnel == pc = "i_begin" => sock # NoFd
=============================================================================
