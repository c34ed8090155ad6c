--------------------------- MODULE ScanTypeProofs ---------------------------
(***************************************************************************)
(* The types of the variables, where the scan thread can be, and how often *)
(* the exchange has run, for every value of the constants.  Every other    *)
(* proof of the scans rests on these.  They are enough for the promise of  *)
(* the batch.                                                              *)
(***************************************************************************)
EXTENDS ScanInvariants, TLAPS

\* The initial states have the types.
LEMMA TypeInit == ScanInit => TypeInv
  <1> SUFFICES ASSUME ScanInit PROVE TypeInv
    OBVIOUS
  <1> USE ScanAssumption DEF TypeInv, TypeOK, PcInv, CountInv, ManagedPcs,
          Headers, Answers, Outputs, Reports, NativePcs, Blocked, Crashed,
          ExchangePcs, CppPcs, TorPcs, HttpPcs, SocksPcs, Before, Between,
          Config, Delays, tokenVars, engineVars, netVars, fdVars, readVars,
          batchVars, Become
  <1>1. TypeOK
    <2>1. fds \in [Fds -> {"free", "scan", "other"}]
      BY DEF ScanInit
    <2>2. total \in 0..BufCap /\ tries \in 0..2 /\ reported \in 0..NPaths
      BY DEF ScanInit
    <2>3. QED
      BY <2>1, <2>2 DEF ScanInit
  <1>2. PcInv /\ CountInv
    BY DEF ScanInit
  <1>3. QED
    BY <1>1, <1>2

\* The return of a request (Finish) leaves room for its report and resets the
\* locals to values of their types.
LEMMA TypeFinish ==
  ASSUME TypeInv, NEW r \in Reports, Finish(r),
         pc \notin {"next", "done", "failed", "torn"}
  PROVE  TypeInv'
  <1> USE ScanAssumption DEF TypeInv, TypeOK, PcInv, CountInv, ManagedPcs,
          Headers, Answers, Outputs, Reports, NativePcs, Blocked, Crashed,
          ExchangePcs, CppPcs, TorPcs, HttpPcs, SocksPcs, Before, Between,
          Config, Delays, tokenVars, engineVars, netVars, fdVars, readVars,
          batchVars, Become, Finish
  <1>1. reported' \in 0..NPaths /\ total' \in 0..BufCap /\ tries' \in 0..2
    OBVIOUS
  <1>2. /\ sslLost' \in BOOLEAN /\ out' \in Outputs /\ hdr' \in Headers
        /\ report' \in Reports
    OBVIOUS
  <1>3. /\ conf' \in Config /\ pc' \in ManagedPcs /\ token' \in BOOLEAN
        /\ armed' \in BOOLEAN /\ cancelFlag' \in BOOLEAN /\ nflag' \in BOOLEAN
    OBVIOUS
  <1>4. /\ engine' \in {"none", "live"} /\ lostEngines' \in Nat
        /\ resolved' \in BOOLEAN
    OBVIOUS
  <1>5. /\ fds' \in [Fds -> {"free", "scan", "other"}] /\ foreign' \in BOOLEAN
        /\ sock' \in Fds \cup {NoFd} /\ ssl' \in {"null", "wild", "live", "freed"}
    OBVIOUS
  <1>6. TypeOK'
    BY <1>1, <1>2, <1>3, <1>4, <1>5
  <1>7. PcInv' /\ CountInv'
    OBVIOUS
  <1>8. QED
    BY <1>6, <1>7

\* Types and positions are kept over every step of interface_scan.
LEMMA TypeExchange ==
  ASSUME TypeInv, Exchange
  PROVE  TypeInv'
  <1> USE ScanAssumption DEF TypeInv, TypeOK, PcInv, CountInv, ManagedPcs,
          Headers, Answers, Outputs, Reports, NativePcs, Blocked, Crashed,
          ExchangePcs, CppPcs, TorPcs, HttpPcs, SocksPcs, Before, Between,
          Config, Delays, tokenVars, engineVars, netVars, fdVars, readVars,
          batchVars, Become
  <1>1. CASE ExchangeCancelled
    BY <1>1 DEF ExchangeCancelled, AbortExchange, CleanUp, Close, ReturnPc
  <1>2. CASE WriteFails
    BY <1>2 DEF WriteFails, AbortExchange, CleanUp, Close, ReturnPc
  <1>3. CASE WriteWithoutHandle
    BY <1>3 DEF WriteWithoutHandle, CleanUp, Close, ReturnPc
  <1>4. CASE WriteSucceeds
    BY <1>4 DEF WriteSucceeds
  <1>5. CASE ReadMore
    BY <1>5 DEF ReadMore
  <1>6. CASE BufferFull
    BY <1>6 DEF BufferFull, EndExchange, ReturnPc
  <1>7. CASE ReadPartial
    BY <1>7 DEF ReadPartial
  <1>8. CASE ReadHeaders
    BY <1>8 DEF ReadHeaders, EndExchange, ReturnPc
  <1>9. CASE ReadFails
    BY <1>9 DEF ReadFails, EndExchange, ReturnPc
  <1>10. CASE ReadStalls
    BY <1>10 DEF ReadStalls
  <1>11. CASE IoBlocks
    BY <1>11 DEF IoBlocks
  <1>12. CASE ExtractCrashes
    BY <1>12 DEF ExtractCrashes
  <1>13. QED
    BY <1>1, <1>2, <1>3, <1>4, <1>5, <1>6, <1>7, <1>8, <1>9, <1>10, <1>11,
       <1>12 DEF Exchange

\* Types and positions are kept over every step of the direct scan.
LEMMA TypeDirect ==
  ASSUME TypeInv, DirectNext
  PROVE  TypeInv'
  <1> USE ScanAssumption DEF TypeInv, TypeOK, PcInv, CountInv, ManagedPcs,
          Headers, Answers, Outputs, Reports, NativePcs, Blocked, Crashed,
          ExchangePcs, CppPcs, TorPcs, HttpPcs, SocksPcs, Before, Between,
          Config, Delays, tokenVars, engineVars, netVars, fdVars, readVars,
          batchVars, Become
  <1>1. CASE CppCreate
    BY <1>1 DEF CppCreate
  <1>2. CASE CppDnsLost
    BY <1>2 DEF CppDnsLost
  <1>3. CASE CppDelay
    BY <1>3 DEF CppDelay, DelayEnds
  <1>4. CASE CppDelayFails
    <2>1. lostEngines' \in Nat
      BY <1>4 DEF CppDelayFails, DelayCancelled, DelayThrows
    <2>2. PcInv' /\ CountInv'
      BY <1>4 DEF CppDelayFails, DelayCancelled, DelayThrows
    <2>3. armed' \in BOOLEAN
      BY <1>4 DEF CppDelayFails, DelayCancelled, DelayThrows
    <2>4. TypeOK'
      BY <1>4, <2>1, <2>3 DEF CppDelayFails, DelayCancelled, DelayThrows
    <2>5. QED
      BY <2>2, <2>4
  <1>5. CASE CppCheck
    <2>1. CASE token
      <3>1. Finish("empty")
        BY <1>5, <2>1 DEF CppCheck
      <3>2. pc \notin {"next", "done", "failed", "torn"} /\ "empty" \in Reports
        BY <1>5 DEF CppCheck
      <3>3. QED
        BY <3>1, <3>2, TypeFinish
    <2>2. CASE ~token
      BY <1>5, <2>2 DEF CppCheck
    <2>3. QED
      BY <2>1, <2>2
  <1>6. CASE CppCall
    BY <1>6 DEF CppCall, Call
  <1>7. CASE CppPost
    BY <1>7, TypeFinish DEF CppPost
  <1>8. CASE ScanNoSocket
    BY <1>8 DEF ScanNoSocket, NativeReturn, Free
  <1>9. CASE ScanSocket
    BY <1>9 DEF ScanSocket, Open, Free
  <1>10. CASE ScanConnectFails
    BY <1>10 DEF ScanConnectFails, NativeReturn, Close
  <1>11. CASE ScanConnect
    BY <1>11 DEF ScanConnect, BeginExchange
  <1>12. CASE ScanTlsFails
    BY <1>12 DEF ScanTlsFails, NativeReturn, Close
  <1>13. CASE ScanTls
    BY <1>13 DEF ScanTls, BeginExchange
  <1>14. CASE ScanFill
    BY <1>14 DEF ScanFill, NativeReturn
  <1>15. QED
    BY <1>1, <1>2, <1>3, <1>4, <1>5, <1>6, <1>7, <1>8, <1>9, <1>10, <1>11,
       <1>12, <1>13, <1>14 DEF DirectNext

\* Types and positions are kept over every step of the Tor scan.
LEMMA TypeTor ==
  ASSUME TypeInv, TorNext
  PROVE  TypeInv'
  <1> USE ScanAssumption DEF TypeInv, TypeOK, PcInv, CountInv, ManagedPcs,
          Headers, Answers, Outputs, Reports, NativePcs, Blocked, Crashed,
          ExchangePcs, CppPcs, TorPcs, HttpPcs, SocksPcs, Before, Between,
          Config, Delays, tokenVars, engineVars, netVars, fdVars, readVars,
          batchVars, Become
  <1>1. CASE TorDelay
    BY <1>1 DEF TorDelay, DelayEnds
  <1>2. CASE TorDelayFails
    BY <1>2 DEF TorDelayFails, DelayCancelled, DelayThrows
  <1>3. CASE TorRegister
    <2>1. CASE token
      <3>1. Finish("empty")
        BY <1>3, <2>1 DEF TorRegister
      <3>2. pc \notin {"next", "done", "failed", "torn"} /\ "empty" \in Reports
        BY <1>3 DEF TorRegister
      <3>3. QED
        BY <3>1, <3>2, TypeFinish
    <2>2. CASE ~token
      <3>1. armed' \in BOOLEAN /\ cancelFlag' \in BOOLEAN
        BY <1>3, <2>2 DEF TorRegister
      <3>2. TypeOK'
        BY <1>3, <2>2, <3>1 DEF TorRegister
      <3>3. PcInv' /\ CountInv'
        BY <1>3, <2>2 DEF TorRegister
      <3>4. QED
        BY <3>2, <3>3
    <2>3. QED
      BY <2>1, <2>2
  <1>4. CASE TorCall
    BY <1>4 DEF TorCall, Call
  <1>5. CASE TorPost
    BY <1>5, TypeFinish DEF TorPost
  <1>6. CASE TorBeginStops
    BY <1>6 DEF TorBeginStops, TorReturnZero, NativeReturn
  <1>7. CASE TorTunnel
    BY <1>7 DEF TorTunnel, Tunnel, Open, Free
  <1>8. CASE TorTlsFails
    BY <1>8 DEF TorTlsFails, NativeReturn, Close
  <1>9. CASE TorTls
    BY <1>9 DEF TorTls
  <1>10. CASE TorCancelled
    BY <1>10 DEF TorCancelled, NativeReturn, Close
  <1>11. CASE TorQuery
    BY <1>11 DEF TorQuery, BeginExchange
  <1>12. CASE TorAccept
    BY <1>12 DEF TorAccept, BadStatus
  <1>13. CASE TorReset
    BY <1>13 DEF TorReset, BadStatus, CleanUp, Close
  <1>14. CASE RotationFails
    BY <1>14 DEF RotationFails
  <1>15. CASE RotationConnects
    BY <1>15 DEF RotationConnects, Open, Free
  <1>16. CASE RotationEnds
    BY <1>16 DEF RotationEnds, Close
  <1>17. CASE RotationBlocks
    BY <1>17 DEF RotationBlocks
  <1>18. CASE TorAgainCancelled
    BY <1>18 DEF TorAgainCancelled, TorReturnZero, NativeReturn
  <1>19. CASE TorTunnelAgain
    BY <1>19 DEF TorTunnelAgain, Tunnel, Open, Free
  <1>20. CASE TorTlsAgain
    BY <1>20 DEF TorTlsAgain, BeginExchange
  <1>21. CASE TorQueryWithoutTunnel
    BY <1>21 DEF TorQueryWithoutTunnel, BeginExchange
  <1>22. CASE TorFill
    BY <1>22 DEF TorFill, ReleaseIfSet, ReleaseSsl, Close
  <1>23. QED
    BY <1>1, <1>2, <1>3, <1>4, <1>5, <1>6, <1>7, <1>8, <1>9, <1>10, <1>11,
       <1>12, <1>13, <1>14, <1>15, <1>16, <1>17, <1>18, <1>19, <1>20, <1>21,
       <1>22 DEF TorNext

\* Types and positions are kept over every step of the two proxy scans.
LEMMA TypeProxy ==
  ASSUME TypeInv, ProxyNext
  PROVE  TypeInv'
  <1> USE ScanAssumption DEF TypeInv, TypeOK, PcInv, CountInv, ManagedPcs,
          Headers, Answers, Outputs, Reports, NativePcs, Blocked, Crashed,
          ExchangePcs, CppPcs, TorPcs, HttpPcs, SocksPcs, Before, Between,
          Config, Delays, tokenVars, engineVars, netVars, fdVars, readVars,
          batchVars, Become
  <1>1. CASE HttpRegister
    BY <1>1 DEF HttpRegister, Register
  <1>2. CASE HttpCreate
    BY <1>2 DEF HttpCreate, CreateEngine, DelayEnds
  <1>3. CASE HttpCall
    BY <1>3 DEF HttpCall, Call
  <1>4. CASE SocksCreate
    BY <1>4 DEF SocksCreate, CreateEngine, DelayEnds
  <1>5. CASE SocksRegister
    BY <1>5 DEF SocksRegister, Register
  <1>6. CASE SocksCall
    BY <1>6 DEF SocksCall, Call
  <1>7. CASE ProxyPost
    BY <1>7, TypeFinish DEF ProxyPost
  <1>8. CASE ProxyBeginCancelled
    BY <1>8 DEF ProxyBeginCancelled, NativeReturn
  <1>9. CASE HttpTunnel
    BY <1>9 DEF HttpTunnel, ProxyTunnel, Open, Free
  <1>10. CASE SocksTunnel
    BY <1>10 DEF SocksTunnel, ProxyTunnel, Open, Free
  <1>11. CASE ProxyTlsFails
    BY <1>11 DEF ProxyTlsFails, NativeReturn, Close
  <1>12. CASE ProxyTls
    BY <1>12 DEF ProxyTls
  <1>13. CASE ProxyCancelled
    BY <1>13 DEF ProxyCancelled, CancelCheck, ReleaseSsl, Close
  <1>14. CASE ProxyCancelledLate
    BY <1>14 DEF ProxyCancelledLate, CancelCheck, ReleaseSsl, Close
  <1>15. CASE ProxyQuery
    BY <1>15 DEF ProxyQuery, BeginExchange
  <1>16. CASE ProxyNoSocket
    BY <1>16 DEF ProxyNoSocket, NativeReturn
  <1>17. CASE ProxyPostCheck
    BY <1>17 DEF ProxyPostCheck
  <1>18. CASE HttpRelease
    BY <1>18 DEF HttpRelease, ReleaseIfSet, ReleaseSsl, Close
  <1>19. CASE HttpClose
    BY <1>19 DEF HttpClose, NativeReturn, Close
  <1>20. CASE SocksRelease
    BY <1>20 DEF SocksRelease, ReleaseSsl, Close
  <1>21. CASE ProxyDelayFails
    <2>1. armed' \in BOOLEAN
      BY <1>21 DEF ProxyDelayFails
    <2>2. TypeOK'
      BY <1>21, <2>1 DEF ProxyDelayFails, DelayThrows
    <2>3. PcInv' /\ CountInv'
      BY <1>21 DEF ProxyDelayFails, DelayThrows
    <2>4. QED
      BY <2>2, <2>3
  <1>22. QED
    BY <1>1, <1>2, <1>3, <1>4, <1>5, <1>6, <1>7, <1>8, <1>9, <1>10, <1>11,
       <1>12, <1>13, <1>14, <1>15, <1>16, <1>17, <1>18, <1>19, <1>20, <1>21 DEF
       ProxyNext

\* Types and positions are kept over every step of the rest of the process.
LEMMA TypeEnv ==
  ASSUME TypeInv, Environment
  PROVE  TypeInv'
  <1> USE ScanAssumption DEF TypeInv, TypeOK, PcInv, CountInv, ManagedPcs,
          Headers, Answers, Outputs, Reports, NativePcs, Blocked, Crashed,
          ExchangePcs, CppPcs, TorPcs, HttpPcs, SocksPcs, Before, Between,
          Config, Delays, tokenVars, engineVars, netVars, fdVars, readVars,
          batchVars, Become
  <1>1. CASE Cancel
    BY <1>1 DEF Cancel, InNative
  <1>2. CASE OtherOpens
    BY <1>2 DEF OtherOpens, Free
  <1>3. CASE OtherCloses
    BY <1>3 DEF OtherCloses
  <1>4. QED
    BY <1>1, <1>2, <1>3 DEF Environment

\* Types and positions are kept over every step.
LEMMA TypeStep ==
  ASSUME TypeInv, [Next]_vars
  PROVE  TypeInv'
  <1> USE ScanAssumption DEF TypeInv, TypeOK, PcInv, CountInv, ManagedPcs,
          Headers, Answers, Outputs, Reports, NativePcs, Blocked, Crashed,
          ExchangePcs, CppPcs, TorPcs, HttpPcs, SocksPcs, Before, Between,
          Config, Delays, tokenVars, engineVars, netVars, fdVars, readVars,
          batchVars, Become
  <1>1. CASE StartRequest
    BY <1>1 DEF StartRequest
  <1>2. CASE SaveBatch
    BY <1>2 DEF SaveBatch
  <1>3. CASE Exchange
    BY <1>3, TypeExchange
  <1>4. CASE DirectNext
    BY <1>4, TypeDirect
  <1>5. CASE TorNext
    BY <1>5, TypeTor
  <1>6. CASE ProxyNext
    BY <1>6, TypeProxy
  <1>7. CASE Environment
    BY <1>7, TypeEnv
  <1>8. CASE UNCHANGED vars
    BY <1>8 DEF vars
  <1>9. CASE SaveFails
    BY <1>9 DEF SaveFails
  <1>10. CASE DelayEndless
    BY <1>10 DEF DelayEndless
  <1>11. QED
    BY <1>1, <1>2, <1>3, <1>4, <1>5, <1>6, <1>7, <1>8, <1>9, <1>10 DEF Next,
       Thread, Ended

\* The variables always have their types, and the thread is always where its
\* backend's code can be.
THEOREM TypeCorrect == Spec => []TypeInv
  <1>1. ScanInit => TypeInv
    BY TypeInit
  <1>2. TypeInv /\ [Next]_vars => TypeInv'
    BY TypeStep
  <1>3. QED
    BY <1>1, <1>2, PTL DEF Spec

\* Type correctness in the form the runs check it.
THEOREM TypesHold == Spec => []TypeOK
  <1>1. TypeInv => TypeOK
    BY DEF TypeInv
  <1>2. QED
    BY <1>1, TypeCorrect, PTL

----------------------------------------------------------------------------
(* The scans implement what ScanBatch promises: every step of the system   *)
(* is a step of the batch or leaves it as it is.                           *)

\* A step of the system, seen as a step of the batch.
BatchStep == [Batch!Next]_(Batch!vars)

\* A request returns while the batch lacks an answer: the batch gains one.
LEMMA BatchFinish ==
  ASSUME TypeInv, NEW r, Finish(r), pc \notin {"next", "done", "failed", "torn"}
  PROVE  BatchStep
  <1>1. Phase = "open" /\ Phase' = "open"
    BY DEF Phase, Finish
  <1>2. /\ reported < NPaths /\ reported' = reported + 1
        /\ token' = token /\ conf' = conf
    BY DEF TypeInv, CountInv, Finish
  <1>3. QED
    BY <1>1, <1>2 DEF BatchStep, Batch!Next, Batch!AddResult

\* The promise of the batch over every step of interface_scan.
LEMMA BatchExchange ==
  ASSUME TypeInv, Exchange
  PROVE  BatchStep
  <1> USE ScanAssumption DEF TypeInv, CountInv, Phase, BatchStep, Batch!vars,
          Batch!Next, Batch!CancelBatch, Batch!AddResult, Batch!Save,
          Batch!LoseSave, Batch!Abandon, Before, Between, ExchangePcs, Blocked,
          Crashed, tokenVars, engineVars, netVars, fdVars, readVars, batchVars,
          Become
  <1>1. CASE ExchangeCancelled
    BY <1>1 DEF ExchangeCancelled, AbortExchange, CleanUp, Close, ReturnPc
  <1>2. CASE WriteFails
    BY <1>2 DEF WriteFails, AbortExchange, CleanUp, Close, ReturnPc
  <1>3. CASE WriteWithoutHandle
    BY <1>3 DEF WriteWithoutHandle, CleanUp, Close, ReturnPc
  <1>4. CASE WriteSucceeds
    BY <1>4 DEF WriteSucceeds
  <1>5. CASE ReadMore
    BY <1>5 DEF ReadMore
  <1>6. CASE BufferFull
    BY <1>6 DEF BufferFull, EndExchange, ReturnPc
  <1>7. CASE ReadPartial
    BY <1>7 DEF ReadPartial
  <1>8. CASE ReadHeaders
    BY <1>8 DEF ReadHeaders, EndExchange, ReturnPc
  <1>9. CASE ReadFails
    BY <1>9 DEF ReadFails, EndExchange, ReturnPc
  <1>10. CASE ReadStalls
    BY <1>10 DEF ReadStalls
  <1>11. CASE IoBlocks
    BY <1>11 DEF IoBlocks
  <1>12. CASE ExtractCrashes
    BY <1>12 DEF ExtractCrashes
  <1>13. QED
    BY <1>1, <1>2, <1>3, <1>4, <1>5, <1>6, <1>7, <1>8, <1>9, <1>10, <1>11,
       <1>12 DEF Exchange

\* The promise of the batch over every step of the direct scan.
LEMMA BatchDirect ==
  ASSUME TypeInv, DirectNext
  PROVE  BatchStep
  <1> USE ScanAssumption DEF TypeInv, CountInv, Phase, BatchStep, Batch!vars,
          Batch!Next, Batch!CancelBatch, Batch!AddResult, Batch!Save,
          Batch!LoseSave, Batch!Abandon, Before, Between, ExchangePcs, Blocked,
          Crashed, tokenVars, engineVars, netVars, fdVars, readVars, batchVars,
          Become
  <1>1. CASE CppCreate
    BY <1>1 DEF CppCreate
  <1>2. CASE CppDnsLost
    BY <1>2 DEF CppDnsLost
  <1>3. CASE CppDelay
    BY <1>3 DEF CppDelay, DelayEnds
  <1>4. CASE CppDelayFails
    BY <1>4 DEF CppDelayFails, DelayCancelled, DelayThrows
  <1>5. CASE CppCheck
    <2>1. CASE token
      <3>1. Finish("empty") /\ pc \notin {"next", "done", "failed", "torn"}
        BY <1>5, <2>1 DEF CppCheck
      <3>2. QED
        BY <3>1, BatchFinish
    <2>2. CASE ~token
      BY <1>5, <2>2 DEF CppCheck
    <2>3. QED
      BY <2>1, <2>2
  <1>6. CASE CppCall
    BY <1>6 DEF CppCall, Call
  <1>7. CASE CppPost
    <2>1. PICK r : Finish(r) /\ pc \notin {"next", "done", "failed", "torn"}
      BY <1>7 DEF CppPost
    <2>2. QED
      BY <2>1, BatchFinish
  <1>8. CASE ScanNoSocket
    BY <1>8 DEF ScanNoSocket, NativeReturn, Free
  <1>9. CASE ScanSocket
    BY <1>9 DEF ScanSocket, Open, Free
  <1>10. CASE ScanConnectFails
    BY <1>10 DEF ScanConnectFails, NativeReturn, Close
  <1>11. CASE ScanConnect
    BY <1>11 DEF ScanConnect, BeginExchange
  <1>12. CASE ScanTlsFails
    BY <1>12 DEF ScanTlsFails, NativeReturn, Close
  <1>13. CASE ScanTls
    BY <1>13 DEF ScanTls, BeginExchange
  <1>14. CASE ScanFill
    BY <1>14 DEF ScanFill, NativeReturn
  <1>15. QED
    BY <1>1, <1>2, <1>3, <1>4, <1>5, <1>6, <1>7, <1>8, <1>9, <1>10, <1>11,
       <1>12, <1>13, <1>14 DEF DirectNext

\* The promise of the batch over every step of the Tor scan.
LEMMA BatchTor ==
  ASSUME TypeInv, TorNext
  PROVE  BatchStep
  <1> USE ScanAssumption DEF TypeInv, CountInv, Phase, BatchStep, Batch!vars,
          Batch!Next, Batch!CancelBatch, Batch!AddResult, Batch!Save,
          Batch!LoseSave, Batch!Abandon, Before, Between, ExchangePcs, Blocked,
          Crashed, tokenVars, engineVars, netVars, fdVars, readVars, batchVars,
          Become
  <1>1. CASE TorDelay
    BY <1>1 DEF TorDelay, DelayEnds
  <1>2. CASE TorDelayFails
    BY <1>2 DEF TorDelayFails, DelayCancelled, DelayThrows
  <1>3. CASE TorRegister
    <2>1. CASE token
      <3>1. Finish("empty") /\ pc \notin {"next", "done", "failed", "torn"}
        BY <1>3, <2>1 DEF TorRegister
      <3>2. QED
        BY <3>1, BatchFinish
    <2>2. CASE ~token
      BY <1>3, <2>2 DEF TorRegister
    <2>3. QED
      BY <2>1, <2>2
  <1>4. CASE TorCall
    BY <1>4 DEF TorCall, Call
  <1>5. CASE TorPost
    <2>1. PICK r : Finish(r) /\ pc \notin {"next", "done", "failed", "torn"}
      BY <1>5 DEF TorPost
    <2>2. QED
      BY <2>1, BatchFinish
  <1>6. CASE TorBeginStops
    BY <1>6 DEF TorBeginStops, TorReturnZero, NativeReturn
  <1>7. CASE TorTunnel
    BY <1>7 DEF TorTunnel, Tunnel, Open, Free
  <1>8. CASE TorTlsFails
    BY <1>8 DEF TorTlsFails, NativeReturn, Close
  <1>9. CASE TorTls
    BY <1>9 DEF TorTls
  <1>10. CASE TorCancelled
    BY <1>10 DEF TorCancelled, NativeReturn, Close
  <1>11. CASE TorQuery
    BY <1>11 DEF TorQuery, BeginExchange
  <1>12. CASE TorAccept
    BY <1>12 DEF TorAccept, BadStatus
  <1>13. CASE TorReset
    BY <1>13 DEF TorReset, BadStatus, CleanUp, Close
  <1>14. CASE RotationFails
    BY <1>14 DEF RotationFails
  <1>15. CASE RotationConnects
    BY <1>15 DEF RotationConnects, Open, Free
  <1>16. CASE RotationEnds
    BY <1>16 DEF RotationEnds, Close
  <1>17. CASE RotationBlocks
    BY <1>17 DEF RotationBlocks
  <1>18. CASE TorAgainCancelled
    BY <1>18 DEF TorAgainCancelled, TorReturnZero, NativeReturn
  <1>19. CASE TorTunnelAgain
    BY <1>19 DEF TorTunnelAgain, Tunnel, Open, Free
  <1>20. CASE TorTlsAgain
    BY <1>20 DEF TorTlsAgain, BeginExchange
  <1>21. CASE TorQueryWithoutTunnel
    BY <1>21 DEF TorQueryWithoutTunnel, BeginExchange
  <1>22. CASE TorFill
    BY <1>22 DEF TorFill, ReleaseIfSet, ReleaseSsl, Close
  <1>23. QED
    BY <1>1, <1>2, <1>3, <1>4, <1>5, <1>6, <1>7, <1>8, <1>9, <1>10, <1>11,
       <1>12, <1>13, <1>14, <1>15, <1>16, <1>17, <1>18, <1>19, <1>20, <1>21,
       <1>22 DEF TorNext

\* The promise of the batch over every step of the two proxy scans.
LEMMA BatchProxy ==
  ASSUME TypeInv, ProxyNext
  PROVE  BatchStep
  <1> USE ScanAssumption DEF TypeInv, CountInv, Phase, BatchStep, Batch!vars,
          Batch!Next, Batch!CancelBatch, Batch!AddResult, Batch!Save,
          Batch!LoseSave, Batch!Abandon, Before, Between, ExchangePcs, Blocked,
          Crashed, tokenVars, engineVars, netVars, fdVars, readVars, batchVars,
          Become
  <1>1. CASE HttpRegister
    BY <1>1 DEF HttpRegister, Register
  <1>2. CASE HttpCreate
    BY <1>2 DEF HttpCreate, CreateEngine, DelayEnds
  <1>3. CASE HttpCall
    BY <1>3 DEF HttpCall, Call
  <1>4. CASE SocksCreate
    BY <1>4 DEF SocksCreate, CreateEngine, DelayEnds
  <1>5. CASE SocksRegister
    BY <1>5 DEF SocksRegister, Register
  <1>6. CASE SocksCall
    BY <1>6 DEF SocksCall, Call
  <1>7. CASE ProxyPost
    <2>1. PICK r : Finish(r) /\ pc \notin {"next", "done", "failed", "torn"}
      BY <1>7 DEF ProxyPost
    <2>2. QED
      BY <2>1, BatchFinish
  <1>8. CASE ProxyBeginCancelled
    BY <1>8 DEF ProxyBeginCancelled, NativeReturn
  <1>9. CASE HttpTunnel
    BY <1>9 DEF HttpTunnel, ProxyTunnel, Open, Free
  <1>10. CASE SocksTunnel
    BY <1>10 DEF SocksTunnel, ProxyTunnel, Open, Free
  <1>11. CASE ProxyTlsFails
    BY <1>11 DEF ProxyTlsFails, NativeReturn, Close
  <1>12. CASE ProxyTls
    BY <1>12 DEF ProxyTls
  <1>13. CASE ProxyCancelled
    BY <1>13 DEF ProxyCancelled, CancelCheck, ReleaseSsl, Close
  <1>14. CASE ProxyCancelledLate
    BY <1>14 DEF ProxyCancelledLate, CancelCheck, ReleaseSsl, Close
  <1>15. CASE ProxyQuery
    BY <1>15 DEF ProxyQuery, BeginExchange
  <1>16. CASE ProxyNoSocket
    BY <1>16 DEF ProxyNoSocket, NativeReturn
  <1>17. CASE ProxyPostCheck
    BY <1>17 DEF ProxyPostCheck
  <1>18. CASE HttpRelease
    BY <1>18 DEF HttpRelease, ReleaseIfSet, ReleaseSsl, Close
  <1>19. CASE HttpClose
    BY <1>19 DEF HttpClose, NativeReturn, Close
  <1>20. CASE SocksRelease
    BY <1>20 DEF SocksRelease, ReleaseSsl, Close
  <1>21. CASE ProxyDelayFails
    BY <1>21 DEF ProxyDelayFails, DelayThrows
  <1>22. QED
    BY <1>1, <1>2, <1>3, <1>4, <1>5, <1>6, <1>7, <1>8, <1>9, <1>10, <1>11,
       <1>12, <1>13, <1>14, <1>15, <1>16, <1>17, <1>18, <1>19, <1>20, <1>21 DEF
       ProxyNext

\* The promise of the batch over every step of the rest of the process.
LEMMA BatchEnv ==
  ASSUME TypeInv, Environment
  PROVE  BatchStep
  <1> USE ScanAssumption DEF TypeInv, CountInv, Phase, BatchStep, Batch!vars,
          Batch!Next, Batch!CancelBatch, Batch!AddResult, Batch!Save,
          Batch!LoseSave, Batch!Abandon, Before, Between, ExchangePcs, Blocked,
          Crashed, tokenVars, engineVars, netVars, fdVars, readVars, batchVars,
          Become
  <1>1. CASE Cancel
    BY <1>1 DEF Cancel, InNative
  <1>2. CASE OtherOpens
    BY <1>2 DEF OtherOpens, Free
  <1>3. CASE OtherCloses
    BY <1>3 DEF OtherCloses
  <1>4. QED
    BY <1>1, <1>2, <1>3 DEF Environment

\* The promise of the batch over every step.
LEMMA BatchStepAll ==
  ASSUME TypeInv, [Next]_vars
  PROVE  BatchStep
  <1> USE ScanAssumption DEF TypeInv, CountInv, Phase, BatchStep, Batch!vars,
          Batch!Next, Batch!CancelBatch, Batch!AddResult, Batch!Save,
          Batch!LoseSave, Batch!Abandon, Before, Between, ExchangePcs, Blocked,
          Crashed, tokenVars, engineVars, netVars, fdVars, readVars, batchVars,
          Become
  <1>1. CASE StartRequest
    BY <1>1 DEF StartRequest
  <1>2. CASE SaveBatch
    BY <1>2 DEF SaveBatch
  <1>3. CASE Exchange
    BY <1>3, BatchExchange
  <1>4. CASE DirectNext
    BY <1>4, BatchDirect
  <1>5. CASE TorNext
    BY <1>5, BatchTor
  <1>6. CASE ProxyNext
    BY <1>6, BatchProxy
  <1>7. CASE Environment
    BY <1>7, BatchEnv
  <1>8. CASE UNCHANGED vars
    BY <1>8 DEF vars
  <1>9. CASE SaveFails
    BY <1>9 DEF SaveFails
  <1>10. CASE DelayEndless
    BY <1>10 DEF DelayEndless
  <1>11. QED
    BY <1>1, <1>2, <1>3, <1>4, <1>5, <1>6, <1>7, <1>8, <1>9, <1>10 DEF Next,
       Thread, Ended

\* A result file is written for a complete batch only, a batch with a drawable
\* delay is abandoned in the loop only after a cancellation, and only a failed
\* save leaves a part of a file, for every wordlist and every way its requests
\* can go.
THEOREM BatchPromiseHolds == Spec => KeepsBatchPromise
  <1>1. ScanInit => Batch!Init
    BY DEF ScanInit, Batch!Init, Phase
  <1>2. TypeInv /\ [Next]_vars => [Batch!Next]_(Batch!vars)
    BY BatchStepAll DEF BatchStep
  <1>3. QED
    BY <1>1, <1>2, TypeCorrect, PTL DEF Spec, Batch!Spec, KeepsBatchPromise
=============================================================================
