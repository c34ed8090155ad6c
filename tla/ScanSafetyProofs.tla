-------------------------- MODULE ScanSafetyProofs --------------------------
(***************************************************************************)
(* The safety properties of ScanSystem for every descriptor table,         *)
(* wordlist, buffer bound, set of backends and flag mode: engines,         *)
(* descriptors, SSL handles and the answers that are reported.             *)
(***************************************************************************)
EXTENDS ScanTypeProofs, FiniteSetTheorems

\* The engine invariant is kept over every step of interface_scan.
LEMMA EngineExchange ==
  ASSUME TypeInv, EngineInv, Exchange
  PROVE  EngineInv'
  <1> USE DEF TypeInv, TypeOK, PcInv, EngineInv, Abandoned, EnginePcs,
          InNative, NativePcs, Blocked, Crashed, ExchangePcs, CppPcs, TorPcs,
          HttpPcs, SocksPcs, Before, Between, Config, Delays, tokenVars,
          engineVars, netVars, fdVars, readVars, batchVars, Become
  <1>1. CASE ExchangeCancelled
    BY <1>1 DEF ExchangeCancelled, AbortExchange, CleanUp, Close, ReturnPc
  <1>2. CASE WriteFails
    BY <1>2 DEF WriteFails, AbortExchange, CleanUp, Close, ReturnPc
  <1>3. CASE WriteWithoutHandle
    BY <1>3 DEF WriteWithoutHandle, CleanUp, Close, ReturnPc
  <1>4. CASE WriteSucceeds
    BY <1>4 DEF WriteSucceeds
  <1>5. CASE ReadMore
    BY <1>5 DEF ReadMore
  <1>6. CASE BufferFull
    BY <1>6 DEF BufferFull, EndExchange, ReturnPc
  <1>7. CASE ReadPartial
    BY <1>7 DEF ReadPartial
  <1>8. CASE ReadHeaders
    BY <1>8 DEF ReadHeaders, EndExchange, ReturnPc
  <1>9. CASE ReadFails
    BY <1>9 DEF ReadFails, EndExchange, ReturnPc
  <1>10. CASE ReadStalls
    BY <1>10 DEF ReadStalls
  <1>11. CASE IoBlocks
    BY <1>11 DEF IoBlocks
  <1>12. CASE ExtractCrashes
    BY <1>12 DEF ExtractCrashes
  <1>13. QED
    BY <1>1, <1>2, <1>3, <1>4, <1>5, <1>6, <1>7, <1>8, <1>9, <1>10, <1>11,
       <1>12 DEF Exchange

\* The engine invariant is kept over every step of the direct scan.
LEMMA EngineDirect ==
  ASSUME TypeInv, EngineInv, DirectNext
  PROVE  EngineInv'
  <1> USE DEF TypeInv, TypeOK, PcInv, EngineInv, Abandoned, EnginePcs,
          InNative, NativePcs, Blocked, Crashed, ExchangePcs, CppPcs, TorPcs,
          HttpPcs, SocksPcs, Before, Between, Config, Delays, tokenVars,
          engineVars, netVars, fdVars, readVars, batchVars, Become
  <1>1. CASE CppCreate
    BY <1>1 DEF CppCreate
  <1>2. CASE CppDnsLost
    BY <1>2 DEF CppDnsLost
  <1>3. CASE CppDelay
    BY <1>3 DEF CppDelay, DelayEnds
  <1>4. CASE CppDelayFails
    BY <1>4 DEF CountInv, CppDelayFails, DelayCancelled, DelayThrows
  <1>5. CASE CppCheck
    BY <1>5 DEF CppCheck, Finish
  <1>6. CASE CppCall
    BY <1>6 DEF CppCall, Call
  <1>7. CASE CppPost
    BY <1>7 DEF CppPost, Finish
  <1>8. CASE ScanNoSocket
    BY <1>8 DEF ScanNoSocket, NativeReturn, Free
  <1>9. CASE ScanSocket
    BY <1>9 DEF ScanSocket, Open, Free
  <1>10. CASE ScanConnectFails
    BY <1>10 DEF ScanConnectFails, NativeReturn, Close
  <1>11. CASE ScanConnect
    BY <1>11 DEF ScanConnect, BeginExchange
  <1>12. CASE ScanTlsFails
    BY <1>12 DEF ScanTlsFails, NativeReturn, Close
  <1>13. CASE ScanTls
    BY <1>13 DEF ScanTls, BeginExchange
  <1>14. CASE ScanFill
    BY <1>14 DEF ScanFill, NativeReturn
  <1>15. QED
    BY <1>1, <1>2, <1>3, <1>4, <1>5, <1>6, <1>7, <1>8, <1>9, <1>10, <1>11,
       <1>12, <1>13, <1>14 DEF DirectNext

\* The engine invariant is kept over every step of the Tor scan.
LEMMA EngineTor ==
  ASSUME TypeInv, EngineInv, TorNext
  PROVE  EngineInv'
  <1> USE DEF TypeInv, TypeOK, PcInv, EngineInv, Abandoned, EnginePcs,
          InNative, NativePcs, Blocked, Crashed, ExchangePcs, CppPcs, TorPcs,
          HttpPcs, SocksPcs, Before, Between, Config, Delays, tokenVars,
          engineVars, netVars, fdVars, readVars, batchVars, Become
  <1>1. CASE TorDelay
    BY <1>1 DEF TorDelay, DelayEnds
  <1>2. CASE TorDelayFails
    BY <1>2 DEF TorDelayFails, DelayCancelled, DelayThrows
  <1>3. CASE TorRegister
    BY <1>3 DEF TorRegister, Finish
  <1>4. CASE TorCall
    BY <1>4 DEF TorCall, Call
  <1>5. CASE TorPost
    BY <1>5 DEF TorPost, Finish
  <1>6. CASE TorBeginStops
    BY <1>6 DEF TorBeginStops, TorReturnZero, NativeReturn
  <1>7. CASE TorTunnel
    BY <1>7 DEF TorTunnel, Tunnel, Open, Free
  <1>8. CASE TorTlsFails
    BY <1>8 DEF TorTlsFails, NativeReturn, Close
  <1>9. CASE TorTls
    BY <1>9 DEF TorTls
  <1>10. CASE TorCancelled
    BY <1>10 DEF TorCancelled, NativeReturn, Close
  <1>11. CASE TorQuery
    BY <1>11 DEF TorQuery, BeginExchange
  <1>12. CASE TorAccept
    BY <1>12 DEF TorAccept, BadStatus
  <1>13. CASE TorReset
    BY <1>13 DEF TorReset, BadStatus, CleanUp, Close
  <1>14. CASE RotationFails
    BY <1>14 DEF RotationFails
  <1>15. CASE RotationConnects
    BY <1>15 DEF RotationConnects, Open, Free
  <1>16. CASE RotationEnds
    BY <1>16 DEF RotationEnds, Close
  <1>17. CASE RotationBlocks
    BY <1>17 DEF RotationBlocks
  <1>18. CASE TorAgainCancelled
    BY <1>18 DEF TorAgainCancelled, TorReturnZero, NativeReturn
  <1>19. CASE TorTunnelAgain
    BY <1>19 DEF TorTunnelAgain, Tunnel, Open, Free
  <1>20. CASE TorTlsAgain
    BY <1>20 DEF TorTlsAgain, BeginExchange
  <1>21. CASE TorQueryWithoutTunnel
    BY <1>21 DEF TorQueryWithoutTunnel, BeginExchange
  <1>22. CASE TorFill
    BY <1>22 DEF TorFill, ReleaseIfSet, ReleaseSsl, Close
  <1>23. QED
    BY <1>1, <1>2, <1>3, <1>4, <1>5, <1>6, <1>7, <1>8, <1>9, <1>10, <1>11,
       <1>12, <1>13, <1>14, <1>15, <1>16, <1>17, <1>18, <1>19, <1>20, <1>21,
       <1>22 DEF TorNext

\* The engine invariant is kept over every step of the two proxy scans.
LEMMA EngineProxy ==
  ASSUME TypeInv, EngineInv, ProxyNext
  PROVE  EngineInv'
  <1> USE DEF TypeInv, TypeOK, PcInv, EngineInv, Abandoned, EnginePcs,
          InNative, NativePcs, Blocked, Crashed, ExchangePcs, CppPcs, TorPcs,
          HttpPcs, SocksPcs, Before, Between, Config, Delays, tokenVars,
          engineVars, netVars, fdVars, readVars, batchVars, Become
  <1>1. CASE HttpRegister
    BY <1>1 DEF HttpRegister, Register
  <1>2. CASE HttpCreate
    BY <1>2 DEF HttpCreate, CreateEngine, DelayEnds
  <1>3. CASE HttpCall
    BY <1>3 DEF HttpCall, Call
  <1>4. CASE SocksCreate
    BY <1>4 DEF SocksCreate, CreateEngine, DelayEnds
  <1>5. CASE SocksRegister
    BY <1>5 DEF SocksRegister, Register
  <1>6. CASE SocksCall
    BY <1>6 DEF SocksCall, Call
  <1>7. CASE ProxyPost
    BY <1>7 DEF ProxyPost, Finish
  <1>8. CASE ProxyBeginCancelled
    BY <1>8 DEF ProxyBeginCancelled, NativeReturn
  <1>9. CASE HttpTunnel
    BY <1>9 DEF HttpTunnel, ProxyTunnel, Open, Free
  <1>10. CASE SocksTunnel
    BY <1>10 DEF SocksTunnel, ProxyTunnel, Open, Free
  <1>11. CASE ProxyTlsFails
    BY <1>11 DEF ProxyTlsFails, NativeReturn, Close
  <1>12. CASE ProxyTls
    BY <1>12 DEF ProxyTls
  <1>13. CASE ProxyCancelled
    BY <1>13 DEF ProxyCancelled, CancelCheck, ReleaseSsl, Close
  <1>14. CASE ProxyCancelledLate
    BY <1>14 DEF ProxyCancelledLate, CancelCheck, ReleaseSsl, Close
  <1>15. CASE ProxyQuery
    BY <1>15 DEF ProxyQuery, BeginExchange
  <1>16. CASE ProxyNoSocket
    BY <1>16 DEF ProxyNoSocket, NativeReturn
  <1>17. CASE ProxyPostCheck
    BY <1>17 DEF ProxyPostCheck
  <1>18. CASE HttpRelease
    BY <1>18 DEF HttpRelease, ReleaseIfSet, ReleaseSsl, Close
  <1>19. CASE HttpClose
    BY <1>19, SMTT(30) DEF HttpClose, NativeReturn, Close
  <1>20. CASE SocksRelease
    BY <1>20 DEF SocksRelease, ReleaseSsl, Close
  <1>21. CASE ProxyDelayFails
    BY <1>21 DEF CountInv, ProxyDelayFails, DelayThrows
  <1>22. QED
    BY <1>1, <1>2, <1>3, <1>4, <1>5, <1>6, <1>7, <1>8, <1>9, <1>10, <1>11,
       <1>12, <1>13, <1>14, <1>15, <1>16, <1>17, <1>18, <1>19, <1>20, <1>21 DEF
       ProxyNext

\* The engine invariant is kept over every step of the rest of the process.
LEMMA EngineEnv ==
  ASSUME TypeInv, EngineInv, Environment
  PROVE  EngineInv'
  <1> USE DEF TypeInv, TypeOK, PcInv, EngineInv, Abandoned, EnginePcs,
          InNative, NativePcs, Blocked, Crashed, ExchangePcs, CppPcs, TorPcs,
          HttpPcs, SocksPcs, Before, Between, Config, Delays, tokenVars,
          engineVars, netVars, fdVars, readVars, batchVars, Become
  <1>1. CASE Cancel
    BY <1>1 DEF Cancel, InNative
  <1>2. CASE OtherOpens
    BY <1>2 DEF OtherOpens, Free
  <1>3. CASE OtherCloses
    BY <1>3 DEF OtherCloses
  <1>4. QED
    BY <1>1, <1>2, <1>3 DEF Environment

\* The engine invariant is kept over every step.
LEMMA EngineStep ==
  ASSUME TypeInv, EngineInv, [Next]_vars
  PROVE  EngineInv'
  <1> USE DEF TypeInv, TypeOK, PcInv, EngineInv, Abandoned, EnginePcs,
          InNative, NativePcs, Blocked, Crashed, ExchangePcs, CppPcs, TorPcs,
          HttpPcs, SocksPcs, Before, Between, Config, Delays, tokenVars,
          engineVars, netVars, fdVars, readVars, batchVars, Become
  <1>1. CASE StartRequest
    BY <1>1 DEF StartRequest
  <1>2. CASE SaveBatch
    BY <1>2 DEF SaveBatch
  <1>3. CASE Exchange
    BY <1>3, EngineExchange
  <1>4. CASE DirectNext
    BY <1>4, EngineDirect
  <1>5. CASE TorNext
    BY <1>5, EngineTor
  <1>6. CASE ProxyNext
    BY <1>6, EngineProxy
  <1>7. CASE Environment
    BY <1>7, EngineEnv
  <1>8. CASE UNCHANGED vars
    BY <1>8 DEF vars
  <1>9. CASE SaveFails
    BY <1>9 DEF CountInv, SaveFails
  <1>10. CASE DelayEndless
    BY <1>10 DEF DelayEndless
  <1>11. QED
    BY <1>1, <1>2, <1>3, <1>4, <1>5, <1>6, <1>7, <1>8, <1>9, <1>10 DEF Next,
       Thread, Ended

----------------------------------------------------------------------------
\* Closing the request's own descriptor leaves those of others alone.
LEMMA FdClosed ==
  ASSUME TypeOK, Close(sock), sock' \in {sock, NoFd}
  PROVE  Held' = Held \ {sock} /\ Leaked' = Leaked
  BY ScanAssumption DEF TypeOK, Close, Held, Leaked

\* Opening one makes it the request's own.
LEMMA FdOpened ==
  ASSUME TypeOK, sock = NoFd, NEW f \in Fds, Open(f), sock' = f
  PROVE  Held' = Held \cup {f} /\ Leaked' = Leaked /\ fds'[f] = "scan"
  BY ScanAssumption DEF TypeOK, Open, Free, Held, Leaked

\* A request that returns leaves behind at most the descriptor in sock.
LEMMA FdFinished ==
  ASSUME TypeOK, Cardinality(Leaked) <= reported, NEW r \in Reports, Finish(r)
  PROVE  Held' = Held /\ Leaked' = Held /\ Cardinality(Leaked') <= reported'
  <1>1. Held' = Held /\ Leaked' = Held /\ reported' = reported + 1
    BY ScanAssumption DEF TypeOK, Held, Leaked, Finish, fdVars
  <1>2. IsFiniteSet(Held)
    <2>1. Held \subseteq Fds
      BY DEF Held
    <2>2. QED
      BY <2>1, ScanAssumption, FS_Subset
  <1>3. /\ Cardinality(Held) \in Nat
        /\ Cardinality(Leaked) = IF sock \in Held THEN Cardinality(Held) - 1
                                                 ELSE Cardinality(Held)
    BY <1>2, FS_RemoveElement, FS_CardinalityType DEF Leaked
  <1>4. Cardinality(Held) <= reported + 1
    BY <1>3 DEF TypeOK
  <1>5. QED
    BY <1>1, <1>4

\* The descriptor invariant survives the return of a request that, unless it
\* is a direct scan, has closed what it opened.
LEMMA FdFinish ==
  ASSUME TypeInv, FdInv, NEW r \in Reports, Finish(r),
         conf.backend # "cpp" => Held = {}
  PROVE  FdInv'
  <1>1. Held' = Held /\ Leaked' = Held /\ Cardinality(Leaked') <= reported'
    BY FdFinished DEF TypeInv, FdInv
  <1>2. pc' = "next" /\ sock' = NoFd /\ conf' = conf /\ foreign' = foreign
    BY DEF Finish, fdVars
  <1>3. QED
    BY <1>1, <1>2 DEF FdInv, NoForeignClose, NoSockPcs, HasSockPcs, ClosedPcs,
       StalePcs, Crashed, Held

\* A step that closes the request's own descriptor and does no more to the
\* table keeps the descriptor invariant, wherever it leads that may have none.
LEMMA FdClose ==
  ASSUME TypeInv, FdInv, Close(sock), sock' \in {sock, NoFd},
         UNCHANGED <<conf, reported>>, pc \notin StalePcs,
         pc' \notin HasSockPcs, pc' \in NoSockPcs => sock' = NoFd,
         sock' = NoFd \/ pc' \in StalePcs, pc' # "h_close2",
         pc' \in ClosedPcs => conf.backend # "cpp"
  PROVE  FdInv'
  <1>1. Held' = Held \ {sock} /\ Leaked' = Leaked
    BY FdClosed DEF TypeInv
  <1>2. sock # NoFd => fds[sock] = "scan"
    BY DEF FdInv
  <1>3. foreign' = foreign
    BY <1>2 DEF Close, TypeInv, TypeOK
  <1>4. conf.backend # "cpp" => Held' = {}
    BY <1>1 DEF FdInv, Leaked
  <1>5. QED
    BY <1>1, <1>3, <1>4 DEF FdInv, NoForeignClose

\* The descriptor invariant is kept over every step of interface_scan.
LEMMA FdExchange ==
  ASSUME TypeInv, TypeInv', FdInv, Exchange
  PROVE  FdInv'
  <1> USE ScanAssumption DEF TypeInv, TypeOK, PcInv, FdInv, Held, Leaked,
          NoSockPcs, HasSockPcs, ClosedPcs, StalePcs, NoForeignClose,
          NativePcs, Blocked, Crashed, ExchangePcs, CppPcs, TorPcs, HttpPcs,
          SocksPcs, Before, Between, Config, Delays, tokenVars, engineVars,
          netVars, fdVars, readVars, batchVars, Become
  <1>1. CASE ExchangeCancelled
    BY <1>1, FdClose DEF ExchangeCancelled, AbortExchange, CleanUp, ReturnPc
  <1>2. CASE WriteFails
    BY <1>2, FdClose DEF WriteFails, AbortExchange, CleanUp, ReturnPc
  <1>3. CASE WriteWithoutHandle
    BY <1>3 DEF WriteWithoutHandle, CleanUp, Close, ReturnPc
  <1>4. CASE WriteSucceeds
    BY <1>4 DEF WriteSucceeds
  <1>5. CASE ReadMore
    BY <1>5 DEF ReadMore
  <1>6. CASE BufferFull
    BY <1>6 DEF BufferFull, EndExchange, ReturnPc
  <1>7. CASE ReadPartial
    BY <1>7 DEF ReadPartial
  <1>8. CASE ReadHeaders
    BY <1>8 DEF ReadHeaders, EndExchange, ReturnPc
  <1>9. CASE ReadFails
    BY <1>9 DEF ReadFails, EndExchange, ReturnPc
  <1>10. CASE ReadStalls
    BY <1>10 DEF ReadStalls
  <1>11. CASE IoBlocks
    BY <1>11 DEF IoBlocks
  <1>12. CASE ExtractCrashes
    BY <1>12 DEF ExtractCrashes
  <1>13. QED
    BY <1>1, <1>2, <1>3, <1>4, <1>5, <1>6, <1>7, <1>8, <1>9, <1>10, <1>11,
       <1>12 DEF Exchange

\* The descriptor invariant is kept over every step of the direct scan.
LEMMA FdDirect ==
  ASSUME TypeInv, TypeInv', FdInv, DirectNext
  PROVE  FdInv'
  <1> USE ScanAssumption DEF TypeInv, TypeOK, PcInv, FdInv, Held, Leaked,
          NoSockPcs, HasSockPcs, ClosedPcs, StalePcs, NoForeignClose,
          NativePcs, Blocked, Crashed, ExchangePcs, CppPcs, TorPcs, HttpPcs,
          SocksPcs, Before, Between, Config, Delays, tokenVars, engineVars,
          netVars, fdVars, readVars, batchVars, Become
  <1>1. CASE CppCreate
    BY <1>1 DEF CppCreate
  <1>2. CASE CppDnsLost
    BY <1>2 DEF CppDnsLost
  <1>3. CASE CppDelay
    BY <1>3 DEF CppDelay, DelayEnds
  <1>4. CASE CppDelayFails
    BY <1>4 DEF CppDelayFails, DelayCancelled, DelayThrows
  <1>5. CASE CppCheck
    <2>1. CASE token
      <3>1. Finish("empty") /\ "empty" \in Reports
        BY <1>5, <2>1 DEF CppCheck, Reports
      <3>2. conf.backend # "cpp" => Held = {}
        BY <1>5 DEF CppCheck
      <3>3. QED
        BY <3>1, <3>2, FdFinish
    <2>2. CASE ~token
      <3>1. UNCHANGED <<conf, netVars, reported>> /\ pc = "c_check" /\ pc' = "c_call"
        BY <1>5, <2>2 DEF CppCheck
      <3>2. QED
        BY <3>1
    <2>3. QED
      BY <2>1, <2>2
  <1>6. CASE CppCall
    BY <1>6 DEF CppCall, Call
  <1>7. CASE CppPost
    <2>1. PICK r \in Reports : Finish(r)
      BY <1>7 DEF CppPost, Reports
    <2>2. conf.backend # "cpp" => Held = {}
      BY <1>7 DEF CppPost
    <2>3. QED
      BY <2>1, <2>2, FdFinish
  <1>8. CASE ScanNoSocket
    BY <1>8 DEF ScanNoSocket, NativeReturn, Free
  <1>9. CASE ScanSocket
    BY <1>9 DEF ScanSocket, Open, Free
  <1>10. CASE ScanConnectFails
    BY <1>10, FdClose DEF ScanConnectFails, NativeReturn
  <1>11. CASE ScanConnect
    BY <1>11 DEF ScanConnect, BeginExchange
  <1>12. CASE ScanTlsFails
    BY <1>12, FdClose DEF ScanTlsFails, NativeReturn
  <1>13. CASE ScanTls
    BY <1>13 DEF ScanTls, BeginExchange
  <1>14. CASE ScanFill
    BY <1>14 DEF ScanFill, NativeReturn
  <1>15. QED
    BY <1>1, <1>2, <1>3, <1>4, <1>5, <1>6, <1>7, <1>8, <1>9, <1>10, <1>11,
       <1>12, <1>13, <1>14 DEF DirectNext

\* The descriptor invariant is kept over every step of the Tor scan.
LEMMA FdTor ==
  ASSUME TypeInv, TypeInv', FdInv, TorNext
  PROVE  FdInv'
  <1> USE ScanAssumption DEF TypeInv, TypeOK, PcInv, FdInv, Held, Leaked,
          NoSockPcs, HasSockPcs, ClosedPcs, StalePcs, NoForeignClose,
          NativePcs, Blocked, Crashed, ExchangePcs, CppPcs, TorPcs, HttpPcs,
          SocksPcs, Before, Between, Config, Delays, tokenVars, engineVars,
          netVars, fdVars, readVars, batchVars, Become
  <1>1. CASE TorDelay
    BY <1>1 DEF TorDelay, DelayEnds
  <1>2. CASE TorDelayFails
    BY <1>2 DEF TorDelayFails, DelayCancelled, DelayThrows
  <1>3. CASE TorRegister
    <2>1. CASE token
      <3>1. Finish("empty") /\ "empty" \in Reports
        BY <1>3, <2>1 DEF TorRegister, Reports
      <3>2. conf.backend # "cpp" => Held = {}
        BY <1>3 DEF TorRegister
      <3>3. QED
        BY <3>1, <3>2, FdFinish
    <2>2. CASE ~token
      <3>1. UNCHANGED <<conf, netVars, reported>> /\ pc = "t_reg" /\ pc' = "t_call"
        BY <1>3, <2>2 DEF TorRegister
      <3>2. QED
        BY <3>1
    <2>3. QED
      BY <2>1, <2>2
  <1>4. CASE TorCall
    BY <1>4 DEF TorCall, Call
  <1>5. CASE TorPost
    <2>1. PICK r \in Reports : Finish(r)
      BY <1>5 DEF TorPost, Reports
    <2>2. conf.backend # "cpp" => Held = {}
      BY <1>5 DEF TorPost
    <2>3. QED
      BY <2>1, <2>2, FdFinish
  <1>6. CASE TorBeginStops
    BY <1>6 DEF TorBeginStops, TorReturnZero, NativeReturn
  <1>7. CASE TorTunnel
    BY <1>7 DEF TorTunnel, Tunnel, Open, Free
  <1>8. CASE TorTlsFails
    BY <1>8, FdClose DEF TorTlsFails, NativeReturn
  <1>9. CASE TorTls
    BY <1>9 DEF TorTls
  <1>10. CASE TorCancelled
    BY <1>10, FdClose DEF TorCancelled, NativeReturn
  <1>11. CASE TorQuery
    BY <1>11 DEF TorQuery, BeginExchange
  <1>12. CASE TorAccept
    BY <1>12 DEF TorAccept, BadStatus
  <1>13. CASE TorReset
    BY <1>13 DEF TorReset, BadStatus, CleanUp, Close
  <1>14. CASE RotationFails
    BY <1>14 DEF RotationFails
  <1>15. CASE RotationConnects
    BY <1>15 DEF RotationConnects, Open, Free
  <1>16. CASE RotationEnds
    BY <1>16 DEF RotationEnds, Close
  <1>17. CASE RotationBlocks
    BY <1>17 DEF RotationBlocks
  <1>18. CASE TorAgainCancelled
    BY <1>18 DEF TorAgainCancelled, TorReturnZero, NativeReturn
  <1>19. CASE TorTunnelAgain
    <2>1. PICK f \in Fds : Open(f) /\ sock' = f
      BY <1>19 DEF TorTunnelAgain, Tunnel
    <2>2. Leaked' = Leaked /\ fds'[sock'] = "scan"
      BY <1>19, <2>1, FdOpened DEF TorTunnelAgain, Tunnel
    <2>3. QED
      BY <1>19, <2>1, <2>2 DEF TorTunnelAgain, Tunnel
  <1>20. CASE TorTlsAgain
    BY <1>20 DEF TorTlsAgain, BeginExchange
  <1>21. CASE TorQueryWithoutTunnel
    BY <1>21 DEF TorQueryWithoutTunnel, BeginExchange
  <1>22. CASE TorFill
    BY <1>22 DEF TorFill, ReleaseIfSet, ReleaseSsl, Close
  <1>23. QED
    BY <1>1, <1>2, <1>3, <1>4, <1>5, <1>6, <1>7, <1>8, <1>9, <1>10, <1>11,
       <1>12, <1>13, <1>14, <1>15, <1>16, <1>17, <1>18, <1>19, <1>20, <1>21,
       <1>22 DEF TorNext

\* The descriptor invariant is kept over every step of the two proxy scans.
LEMMA FdProxy ==
  ASSUME TypeInv, TypeInv', FdInv, ProxyNext
  PROVE  FdInv'
  <1> USE ScanAssumption DEF TypeInv, TypeOK, PcInv, FdInv, Held, Leaked,
          NoSockPcs, HasSockPcs, ClosedPcs, StalePcs, NoForeignClose,
          NativePcs, Blocked, Crashed, ExchangePcs, CppPcs, TorPcs, HttpPcs,
          SocksPcs, Before, Between, Config, Delays, tokenVars, engineVars,
          netVars, fdVars, readVars, batchVars, Become
  <1>1. CASE HttpRegister
    BY <1>1 DEF HttpRegister, Register
  <1>2. CASE HttpCreate
    BY <1>2 DEF HttpCreate, CreateEngine, DelayEnds
  <1>3. CASE HttpCall
    BY <1>3 DEF HttpCall, Call
  <1>4. CASE SocksCreate
    BY <1>4 DEF SocksCreate, CreateEngine, DelayEnds
  <1>5. CASE SocksRegister
    BY <1>5 DEF SocksRegister, Register
  <1>6. CASE SocksCall
    BY <1>6 DEF SocksCall, Call
  <1>7. CASE ProxyPost
    <2>1. PICK r \in Reports : Finish(r)
      BY <1>7 DEF ProxyPost, Reports
    <2>2. conf.backend # "cpp" => Held = {}
      BY <1>7 DEF ProxyPost
    <2>3. QED
      BY <2>1, <2>2, FdFinish
  <1>8. CASE ProxyBeginCancelled
    BY <1>8 DEF ProxyBeginCancelled, NativeReturn
  <1>9. CASE HttpTunnel
    BY <1>9 DEF HttpTunnel, ProxyTunnel, Open, Free
  <1>10. CASE SocksTunnel
    BY <1>10 DEF SocksTunnel, ProxyTunnel, Open, Free
  <1>11. CASE ProxyTlsFails
    <2>1. Held' = Held \ {sock} /\ Leaked' = Leaked
      BY <1>11, FdClosed DEF ProxyTlsFails
    <2>2. Held' = {}
      BY <1>11, <2>1 DEF ProxyTlsFails
    <2>3. QED
      BY <1>11, <2>1, <2>2 DEF ProxyTlsFails, NativeReturn, Close
  <1>12. CASE ProxyTls
    BY <1>12 DEF ProxyTls
  <1>13. CASE ProxyCancelled
    BY <1>13 DEF ProxyCancelled, CancelCheck, ReleaseSsl, Close
  <1>14. CASE ProxyCancelledLate
    BY <1>14 DEF ProxyCancelledLate, CancelCheck, ReleaseSsl, Close
  <1>15. CASE ProxyQuery
    BY <1>15 DEF ProxyQuery, BeginExchange
  <1>16. CASE ProxyNoSocket
    BY <1>16 DEF ProxyNoSocket, NativeReturn
  <1>17. CASE ProxyPostCheck
    BY <1>17 DEF ProxyPostCheck
  <1>18. CASE HttpRelease
    BY <1>18 DEF HttpRelease, ReleaseIfSet, ReleaseSsl, Close
  <1>19. CASE HttpClose
    BY <1>19, SMTT(30) DEF HttpClose, NativeReturn, Close
  <1>20. CASE SocksRelease
    BY <1>20 DEF SocksRelease, ReleaseSsl, Close
  <1>21. CASE ProxyDelayFails
    BY <1>21 DEF ProxyDelayFails, DelayThrows
  <1>22. QED
    BY <1>1, <1>2, <1>3, <1>4, <1>5, <1>6, <1>7, <1>8, <1>9, <1>10, <1>11,
       <1>12, <1>13, <1>14, <1>15, <1>16, <1>17, <1>18, <1>19, <1>20, <1>21 DEF
       ProxyNext

\* The descriptor invariant is kept over every step of the rest of the process.
LEMMA FdEnv ==
  ASSUME TypeInv, TypeInv', FdInv, Environment
  PROVE  FdInv'
  <1> USE ScanAssumption DEF TypeInv, TypeOK, PcInv, FdInv, Held, Leaked,
          NoSockPcs, HasSockPcs, ClosedPcs, StalePcs, NoForeignClose,
          NativePcs, Blocked, Crashed, ExchangePcs, CppPcs, TorPcs, HttpPcs,
          SocksPcs, Before, Between, Config, Delays, tokenVars, engineVars,
          netVars, fdVars, readVars, batchVars, Become
  <1>1. CASE Cancel
    BY <1>1 DEF Cancel, InNative
  <1>2. CASE OtherOpens
    BY <1>2 DEF OtherOpens, Free
  <1>3. CASE OtherCloses
    BY <1>3 DEF OtherCloses
  <1>4. QED
    BY <1>1, <1>2, <1>3 DEF Environment

\* The descriptor invariant is kept over every step.
LEMMA FdStep ==
  ASSUME TypeInv, TypeInv', FdInv, [Next]_vars
  PROVE  FdInv'
  <1> USE ScanAssumption DEF TypeInv, TypeOK, PcInv, FdInv, Held, Leaked,
          NoSockPcs, HasSockPcs, ClosedPcs, StalePcs, NoForeignClose,
          NativePcs, Blocked, Crashed, ExchangePcs, CppPcs, TorPcs, HttpPcs,
          SocksPcs, Before, Between, Config, Delays, tokenVars, engineVars,
          netVars, fdVars, readVars, batchVars, Become
  <1>1. CASE StartRequest
    BY <1>1 DEF StartRequest
  <1>2. CASE SaveBatch
    BY <1>2 DEF SaveBatch
  <1>3. CASE Exchange
    BY <1>3, FdExchange
  <1>4. CASE DirectNext
    BY <1>4, FdDirect
  <1>5. CASE TorNext
    BY <1>5, FdTor
  <1>6. CASE ProxyNext
    BY <1>6, FdProxy
  <1>7. CASE Environment
    BY <1>7, FdEnv
  <1>8. CASE UNCHANGED vars
    BY <1>8 DEF vars
  <1>9. CASE SaveFails
    BY <1>9 DEF SaveFails
  <1>10. CASE DelayEndless
    BY <1>10 DEF DelayEndless
  <1>11. QED
    BY <1>1, <1>2, <1>3, <1>4, <1>5, <1>6, <1>7, <1>8, <1>9, <1>10 DEF Next,
       Thread, Ended

----------------------------------------------------------------------------
\* The SSL handle invariant is kept over every step of interface_scan.
LEMMA SslExchange ==
  ASSUME TypeInv, FdInv, FdInv', SslInv, Exchange
  PROVE  SslInv'
  <1> USE ScanAssumption DEF TypeInv, TypeOK, PcInv, CountInv, FdInv, SslInv,
          NoSockPcs, HasSockPcs, ClosedPcs, StalePcs, HandleSafety, NativePcs,
          Blocked, Crashed, ExchangePcs, CppPcs, TorPcs, HttpPcs, SocksPcs,
          Before, Between, Config, Delays, tokenVars, engineVars, netVars,
          fdVars, readVars, batchVars, Become
  <1>1. CASE ExchangeCancelled
    BY <1>1 DEF ExchangeCancelled, AbortExchange, CleanUp, Close, ReturnPc,
       Held, Leaked
  <1>2. CASE WriteFails
    BY <1>2 DEF WriteFails, AbortExchange, CleanUp, Close, ReturnPc, Held,
       Leaked
  <1>3. CASE WriteWithoutHandle
    BY <1>3 DEF WriteWithoutHandle, CleanUp, Close, ReturnPc, Held, Leaked
  <1>4. CASE WriteSucceeds
    BY <1>4 DEF WriteSucceeds, Held, Leaked
  <1>5. CASE ReadMore
    BY <1>5 DEF ReadMore, Held, Leaked
  <1>6. CASE BufferFull
    BY <1>6 DEF BufferFull, EndExchange, ReturnPc, Held, Leaked
  <1>7. CASE ReadPartial
    BY <1>7 DEF ReadPartial, Held, Leaked
  <1>8. CASE ReadHeaders
    BY <1>8 DEF ReadHeaders, EndExchange, ReturnPc, Held, Leaked
  <1>9. CASE ReadFails
    BY <1>9 DEF ReadFails, EndExchange, ReturnPc, Held, Leaked
  <1>10. CASE ReadStalls
    BY <1>10 DEF ReadStalls, Held, Leaked
  <1>11. CASE IoBlocks
    BY <1>11 DEF IoBlocks, Held, Leaked
  <1>12. CASE ExtractCrashes
    BY <1>12 DEF ExtractCrashes, Held, Leaked
  <1>13. QED
    BY <1>1, <1>2, <1>3, <1>4, <1>5, <1>6, <1>7, <1>8, <1>9, <1>10, <1>11,
       <1>12 DEF Exchange

\* The SSL handle invariant is kept over every step of the direct scan.
LEMMA SslDirect ==
  ASSUME TypeInv, FdInv, FdInv', SslInv, DirectNext
  PROVE  SslInv'
  <1> USE ScanAssumption DEF TypeInv, TypeOK, PcInv, CountInv, FdInv, SslInv,
          NoSockPcs, HasSockPcs, ClosedPcs, StalePcs, HandleSafety, NativePcs,
          Blocked, Crashed, ExchangePcs, CppPcs, TorPcs, HttpPcs, SocksPcs,
          Before, Between, Config, Delays, tokenVars, engineVars, netVars,
          fdVars, readVars, batchVars, Become
  <1>1. CASE CppCreate
    BY <1>1 DEF CppCreate, Held, Leaked
  <1>2. CASE CppDnsLost
    BY <1>2 DEF CppDnsLost, Held, Leaked
  <1>3. CASE CppDelay
    BY <1>3 DEF CppDelay, DelayEnds, Held, Leaked
  <1>4. CASE CppDelayFails
    BY <1>4 DEF CppDelayFails, DelayCancelled, DelayThrows, Held, Leaked
  <1>5. CASE CppCheck
    BY <1>5 DEF CppCheck, Finish, Held, Leaked
  <1>6. CASE CppCall
    BY <1>6 DEF CppCall, Call, Held, Leaked
  <1>7. CASE CppPost
    BY <1>7 DEF CppPost, Finish, Held, Leaked
  <1>8. CASE ScanNoSocket
    BY <1>8 DEF ScanNoSocket, NativeReturn, Free, Held, Leaked
  <1>9. CASE ScanSocket
    BY <1>9 DEF ScanSocket, Open, Free, Held, Leaked
  <1>10. CASE ScanConnectFails
    BY <1>10 DEF ScanConnectFails, NativeReturn, Close, Held, Leaked
  <1>11. CASE ScanConnect
    BY <1>11 DEF ScanConnect, BeginExchange, Held, Leaked
  <1>12. CASE ScanTlsFails
    BY <1>12 DEF ScanTlsFails, NativeReturn, Close, Held, Leaked
  <1>13. CASE ScanTls
    BY <1>13 DEF ScanTls, BeginExchange, Held, Leaked
  <1>14. CASE ScanFill
    BY <1>14 DEF ScanFill, NativeReturn, Held, Leaked
  <1>15. QED
    BY <1>1, <1>2, <1>3, <1>4, <1>5, <1>6, <1>7, <1>8, <1>9, <1>10, <1>11,
       <1>12, <1>13, <1>14 DEF DirectNext

\* The SSL handle invariant is kept over every step of the Tor scan.
LEMMA SslTor ==
  ASSUME TypeInv, FdInv, FdInv', SslInv, TorNext
  PROVE  SslInv'
  <1> USE ScanAssumption DEF TypeInv, TypeOK, PcInv, CountInv, FdInv, SslInv,
          NoSockPcs, HasSockPcs, ClosedPcs, StalePcs, HandleSafety, NativePcs,
          Blocked, Crashed, ExchangePcs, CppPcs, TorPcs, HttpPcs, SocksPcs,
          Before, Between, Config, Delays, tokenVars, engineVars, netVars,
          fdVars, readVars, batchVars, Become
  <1>1. CASE TorDelay
    BY <1>1 DEF TorDelay, DelayEnds, Held, Leaked
  <1>2. CASE TorDelayFails
    BY <1>2 DEF TorDelayFails, DelayCancelled, DelayThrows, Held, Leaked
  <1>3. CASE TorRegister
    BY <1>3 DEF TorRegister, Finish, Held, Leaked
  <1>4. CASE TorCall
    BY <1>4 DEF TorCall, Call, Held, Leaked
  <1>5. CASE TorPost
    BY <1>5 DEF TorPost, Finish, Held, Leaked
  <1>6. CASE TorBeginStops
    BY <1>6 DEF TorBeginStops, TorReturnZero, NativeReturn, Held, Leaked
  <1>7. CASE TorTunnel
    BY <1>7 DEF TorTunnel, Tunnel, Open, Free, Held, Leaked
  <1>8. CASE TorTlsFails
    BY <1>8 DEF TorTlsFails, NativeReturn, Close, Held, Leaked
  <1>9. CASE TorTls
    BY <1>9 DEF TorTls, Held, Leaked
  <1>10. CASE TorCancelled
    BY <1>10 DEF TorCancelled, NativeReturn, Close, Held, Leaked
  <1>11. CASE TorQuery
    BY <1>11 DEF TorQuery, BeginExchange, Held, Leaked
  <1>12. CASE TorAccept
    BY <1>12 DEF TorAccept, BadStatus, Held, Leaked
  <1>13. CASE TorReset
    BY <1>13 DEF TorReset, BadStatus, CleanUp, Close, Held, Leaked
  <1>14. CASE RotationFails
    BY <1>14 DEF RotationFails, Held, Leaked
  <1>15. CASE RotationConnects
    BY <1>15 DEF RotationConnects, Open, Free, Held, Leaked
  <1>16. CASE RotationEnds
    BY <1>16 DEF RotationEnds, Close, Held, Leaked
  <1>17. CASE RotationBlocks
    BY <1>17 DEF RotationBlocks, Held, Leaked
  <1>18. CASE TorAgainCancelled
    BY <1>18 DEF TorAgainCancelled, TorReturnZero, NativeReturn, Held, Leaked
  <1>19. CASE TorTunnelAgain
    BY <1>19 DEF TorTunnelAgain, Tunnel, Open, Free, Held, Leaked
  <1>20. CASE TorTlsAgain
    BY <1>20 DEF TorTlsAgain, BeginExchange, Held, Leaked
  <1>21. CASE TorQueryWithoutTunnel
    BY <1>21 DEF TorQueryWithoutTunnel, BeginExchange, Held, Leaked
  <1>22. CASE TorFill
    BY <1>22 DEF TorFill, ReleaseIfSet, ReleaseSsl, Close, Held, Leaked
  <1>23. QED
    BY <1>1, <1>2, <1>3, <1>4, <1>5, <1>6, <1>7, <1>8, <1>9, <1>10, <1>11,
       <1>12, <1>13, <1>14, <1>15, <1>16, <1>17, <1>18, <1>19, <1>20, <1>21,
       <1>22 DEF TorNext

\* The SSL handle invariant is kept over every step of the two proxy scans.
LEMMA SslProxy ==
  ASSUME TypeInv, FdInv, FdInv', SslInv, ProxyNext
  PROVE  SslInv'
  <1> USE ScanAssumption DEF TypeInv, TypeOK, PcInv, CountInv, FdInv, SslInv,
          NoSockPcs, HasSockPcs, ClosedPcs, StalePcs, HandleSafety, NativePcs,
          Blocked, Crashed, ExchangePcs, CppPcs, TorPcs, HttpPcs, SocksPcs,
          Before, Between, Config, Delays, tokenVars, engineVars, netVars,
          fdVars, readVars, batchVars, Become
  <1>1. CASE HttpRegister
    BY <1>1 DEF HttpRegister, Register, Held, Leaked
  <1>2. CASE HttpCreate
    BY <1>2 DEF HttpCreate, CreateEngine, DelayEnds, Held, Leaked
  <1>3. CASE HttpCall
    BY <1>3 DEF HttpCall, Call, Held, Leaked
  <1>4. CASE SocksCreate
    BY <1>4 DEF SocksCreate, CreateEngine, DelayEnds, Held, Leaked
  <1>5. CASE SocksRegister
    BY <1>5 DEF SocksRegister, Register, Held, Leaked
  <1>6. CASE SocksCall
    BY <1>6 DEF SocksCall, Call, Held, Leaked
  <1>7. CASE ProxyPost
    BY <1>7 DEF ProxyPost, Finish, Held, Leaked
  <1>8. CASE ProxyBeginCancelled
    BY <1>8 DEF ProxyBeginCancelled, NativeReturn, Held, Leaked
  <1>9. CASE HttpTunnel
    BY <1>9 DEF HttpTunnel, ProxyTunnel, Open, Free, Held, Leaked
  <1>10. CASE SocksTunnel
    BY <1>10 DEF SocksTunnel, ProxyTunnel, Open, Free, Held, Leaked
  <1>11. CASE ProxyTlsFails
    BY <1>11 DEF ProxyTlsFails, NativeReturn, Close, Held, Leaked
  <1>12. CASE ProxyTls
    BY <1>12 DEF ProxyTls, Held, Leaked
  <1>13. CASE ProxyCancelled
    BY <1>13 DEF ProxyCancelled, CancelCheck, ReleaseSsl, Close, Held, Leaked
  <1>14. CASE ProxyCancelledLate
    BY <1>14 DEF ProxyCancelledLate, CancelCheck, ReleaseSsl, Close, Held,
       Leaked
  <1>15. CASE ProxyQuery
    BY <1>15 DEF ProxyQuery, BeginExchange, Held, Leaked
  <1>16. CASE ProxyNoSocket
    BY <1>16 DEF ProxyNoSocket, NativeReturn, Held, Leaked
  <1>17. CASE ProxyPostCheck
    BY <1>17 DEF ProxyPostCheck, Held, Leaked
  <1>18. CASE HttpRelease
    BY <1>18 DEF HttpRelease, ReleaseIfSet, ReleaseSsl, Close, Held, Leaked
  <1>19. CASE HttpClose
    BY <1>19 DEF HttpClose, NativeReturn, Close, Held, Leaked
  <1>20. CASE SocksRelease
    BY <1>20 DEF SocksRelease, ReleaseSsl, Close, Held, Leaked
  <1>21. CASE ProxyDelayFails
    BY <1>21 DEF ProxyDelayFails, DelayThrows, Held, Leaked
  <1>22. QED
    BY <1>1, <1>2, <1>3, <1>4, <1>5, <1>6, <1>7, <1>8, <1>9, <1>10, <1>11,
       <1>12, <1>13, <1>14, <1>15, <1>16, <1>17, <1>18, <1>19, <1>20, <1>21 DEF
       ProxyNext

\* The SSL handle invariant is kept over every step of the rest of the process.
LEMMA SslEnv ==
  ASSUME TypeInv, FdInv, FdInv', SslInv, Environment
  PROVE  SslInv'
  <1> USE ScanAssumption DEF TypeInv, TypeOK, PcInv, CountInv, FdInv, SslInv,
          NoSockPcs, HasSockPcs, ClosedPcs, StalePcs, HandleSafety, NativePcs,
          Blocked, Crashed, ExchangePcs, CppPcs, TorPcs, HttpPcs, SocksPcs,
          Before, Between, Config, Delays, tokenVars, engineVars, netVars,
          fdVars, readVars, batchVars, Become
  <1>1. CASE Cancel
    BY <1>1 DEF Cancel, InNative, Held, Leaked
  <1>2. CASE OtherOpens
    BY <1>2 DEF OtherOpens, Free, Held, Leaked
  <1>3. CASE OtherCloses
    BY <1>3 DEF OtherCloses, Held, Leaked
  <1>4. QED
    BY <1>1, <1>2, <1>3 DEF Environment

\* The SSL handle invariant is kept over every step.
LEMMA SslStep ==
  ASSUME TypeInv, FdInv, FdInv', SslInv, [Next]_vars
  PROVE  SslInv'
  <1> USE ScanAssumption DEF TypeInv, TypeOK, PcInv, CountInv, FdInv, SslInv,
          NoSockPcs, HasSockPcs, ClosedPcs, StalePcs, HandleSafety, NativePcs,
          Blocked, Crashed, ExchangePcs, CppPcs, TorPcs, HttpPcs, SocksPcs,
          Before, Between, Config, Delays, tokenVars, engineVars, netVars,
          fdVars, readVars, batchVars, Become
  <1>1. CASE StartRequest
    BY <1>1 DEF StartRequest, Held, Leaked
  <1>2. CASE SaveBatch
    BY <1>2 DEF SaveBatch, Held, Leaked
  <1>3. CASE Exchange
    BY <1>3, SslExchange
  <1>4. CASE DirectNext
    BY <1>4, SslDirect
  <1>5. CASE TorNext
    BY <1>5, SslTor
  <1>6. CASE ProxyNext
    BY <1>6, SslProxy
  <1>7. CASE Environment
    BY <1>7, SslEnv
  <1>8. CASE UNCHANGED vars
    BY <1>8 DEF vars, Held, Leaked
  <1>9. CASE SaveFails
    BY <1>9 DEF SaveFails, Held, Leaked
  <1>10. CASE DelayEndless
    BY <1>10 DEF DelayEndless, Held, Leaked
  <1>11. QED
    BY <1>1, <1>2, <1>3, <1>4, <1>5, <1>6, <1>7, <1>8, <1>9, <1>10 DEF Next,
       Thread, Ended

----------------------------------------------------------------------------
\* The answer invariant is kept over every step of interface_scan.
LEMMA AnswerExchange ==
  ASSUME TypeInv, AnswerInv, Exchange
  PROVE  AnswerInv'
  <1> USE ScanAssumption DEF TypeInv, TypeOK, PcInv, CountInv, AnswerInv,
          Abandoned, ReportsAreAnswers, BadStatusWasRetried, InNative, Headers,
          Answers, Outputs, Reports, NativePcs, Blocked, Crashed, ExchangePcs,
          CppPcs, TorPcs, HttpPcs, SocksPcs, Before, Between, Config, Delays,
          tokenVars, engineVars, netVars, fdVars, readVars, batchVars, Become
  <1>1. CASE ExchangeCancelled
    BY <1>1 DEF ExchangeCancelled, AbortExchange, CleanUp, Close, ReturnPc
  <1>2. CASE WriteFails
    BY <1>2 DEF WriteFails, AbortExchange, CleanUp, Close, ReturnPc
  <1>3. CASE WriteWithoutHandle
    BY <1>3 DEF WriteWithoutHandle, CleanUp, Close, ReturnPc
  <1>4. CASE WriteSucceeds
    BY <1>4 DEF WriteSucceeds
  <1>5. CASE ReadMore
    BY <1>5 DEF ReadMore
  <1>6. CASE BufferFull
    BY <1>6 DEF BufferFull, EndExchange, ReturnPc
  <1>7. CASE ReadPartial
    BY <1>7 DEF ReadPartial
  <1>8. CASE ReadHeaders
    BY <1>8 DEF ReadHeaders, EndExchange, ReturnPc
  <1>9. CASE ReadFails
    BY <1>9 DEF ReadFails, EndExchange, ReturnPc
  <1>10. CASE ReadStalls
    BY <1>10 DEF ReadStalls
  <1>11. CASE IoBlocks
    BY <1>11 DEF IoBlocks
  <1>12. CASE ExtractCrashes
    BY <1>12 DEF ExtractCrashes
  <1>13. QED
    BY <1>1, <1>2, <1>3, <1>4, <1>5, <1>6, <1>7, <1>8, <1>9, <1>10, <1>11,
       <1>12 DEF Exchange

\* The answer invariant is kept over every step of the direct scan.
LEMMA AnswerDirect ==
  ASSUME TypeInv, AnswerInv, DirectNext
  PROVE  AnswerInv'
  <1> USE ScanAssumption DEF TypeInv, TypeOK, PcInv, CountInv, AnswerInv,
          Abandoned, ReportsAreAnswers, BadStatusWasRetried, InNative, Headers,
          Answers, Outputs, Reports, NativePcs, Blocked, Crashed, ExchangePcs,
          CppPcs, TorPcs, HttpPcs, SocksPcs, Before, Between, Config, Delays,
          tokenVars, engineVars, netVars, fdVars, readVars, batchVars, Become
  <1>1. CASE CppCreate
    BY <1>1 DEF CppCreate
  <1>2. CASE CppDnsLost
    BY <1>2 DEF CppDnsLost
  <1>3. CASE CppDelay
    BY <1>3 DEF CppDelay, DelayEnds
  <1>4. CASE CppDelayFails
    BY <1>4 DEF CppDelayFails, DelayCancelled, DelayThrows
  <1>5. CASE CppCheck
    BY <1>5 DEF CppCheck, Finish
  <1>6. CASE CppCall
    BY <1>6 DEF CppCall, Call
  <1>7. CASE CppPost
    BY <1>7 DEF CppPost, Finish
  <1>8. CASE ScanNoSocket
    BY <1>8 DEF ScanNoSocket, NativeReturn, Free
  <1>9. CASE ScanSocket
    BY <1>9 DEF ScanSocket, Open, Free
  <1>10. CASE ScanConnectFails
    BY <1>10 DEF ScanConnectFails, NativeReturn, Close
  <1>11. CASE ScanConnect
    BY <1>11 DEF ScanConnect, BeginExchange
  <1>12. CASE ScanTlsFails
    BY <1>12 DEF ScanTlsFails, NativeReturn, Close
  <1>13. CASE ScanTls
    BY <1>13 DEF ScanTls, BeginExchange
  <1>14. CASE ScanFill
    BY <1>14 DEF ScanFill, NativeReturn
  <1>15. QED
    BY <1>1, <1>2, <1>3, <1>4, <1>5, <1>6, <1>7, <1>8, <1>9, <1>10, <1>11,
       <1>12, <1>13, <1>14 DEF DirectNext

\* The answer invariant is kept over every step of the Tor scan.
LEMMA AnswerTor ==
  ASSUME TypeInv, AnswerInv, TorNext
  PROVE  AnswerInv'
  <1> USE ScanAssumption DEF TypeInv, TypeOK, PcInv, CountInv, AnswerInv,
          Abandoned, ReportsAreAnswers, BadStatusWasRetried, InNative, Headers,
          Answers, Outputs, Reports, NativePcs, Blocked, Crashed, ExchangePcs,
          CppPcs, TorPcs, HttpPcs, SocksPcs, Before, Between, Config, Delays,
          tokenVars, engineVars, netVars, fdVars, readVars, batchVars, Become
  <1>1. CASE TorDelay
    BY <1>1 DEF TorDelay, DelayEnds
  <1>2. CASE TorDelayFails
    BY <1>2 DEF TorDelayFails, DelayCancelled, DelayThrows
  <1>3. CASE TorRegister
    BY <1>3 DEF TorRegister, Finish
  <1>4. CASE TorCall
    BY <1>4 DEF TorCall, Call
  <1>5. CASE TorPost
    BY <1>5 DEF TorPost, Finish
  <1>6. CASE TorBeginStops
    BY <1>6 DEF TorBeginStops, TorReturnZero, NativeReturn
  <1>7. CASE TorTunnel
    BY <1>7 DEF TorTunnel, Tunnel, Open, Free
  <1>8. CASE TorTlsFails
    BY <1>8 DEF TorTlsFails, NativeReturn, Close
  <1>9. CASE TorTls
    BY <1>9 DEF TorTls
  <1>10. CASE TorCancelled
    BY <1>10 DEF TorCancelled, NativeReturn, Close
  <1>11. CASE TorQuery
    BY <1>11 DEF TorQuery, BeginExchange
  <1>12. CASE TorAccept
    BY <1>12 DEF TorAccept, BadStatus
  <1>13. CASE TorReset
    BY <1>13 DEF TorReset, BadStatus, CleanUp, Close
  <1>14. CASE RotationFails
    BY <1>14 DEF RotationFails
  <1>15. CASE RotationConnects
    BY <1>15 DEF RotationConnects, Open, Free
  <1>16. CASE RotationEnds
    BY <1>16 DEF RotationEnds, Close
  <1>17. CASE RotationBlocks
    BY <1>17 DEF RotationBlocks
  <1>18. CASE TorAgainCancelled
    BY <1>18 DEF TorAgainCancelled, TorReturnZero, NativeReturn
  <1>19. CASE TorTunnelAgain
    BY <1>19 DEF TorTunnelAgain, Tunnel, Open, Free
  <1>20. CASE TorTlsAgain
    BY <1>20 DEF TorTlsAgain, BeginExchange
  <1>21. CASE TorQueryWithoutTunnel
    BY <1>21 DEF TorQueryWithoutTunnel, BeginExchange
  <1>22. CASE TorFill
    BY <1>22 DEF TorFill, ReleaseIfSet, ReleaseSsl, Close
  <1>23. QED
    BY <1>1, <1>2, <1>3, <1>4, <1>5, <1>6, <1>7, <1>8, <1>9, <1>10, <1>11,
       <1>12, <1>13, <1>14, <1>15, <1>16, <1>17, <1>18, <1>19, <1>20, <1>21,
       <1>22 DEF TorNext

\* The answer invariant is kept over every step of the two proxy scans.
LEMMA AnswerProxy ==
  ASSUME TypeInv, AnswerInv, ProxyNext
  PROVE  AnswerInv'
  <1> USE ScanAssumption DEF TypeInv, TypeOK, PcInv, CountInv, AnswerInv,
          Abandoned, ReportsAreAnswers, BadStatusWasRetried, InNative, Headers,
          Answers, Outputs, Reports, NativePcs, Blocked, Crashed, ExchangePcs,
          CppPcs, TorPcs, HttpPcs, SocksPcs, Before, Between, Config, Delays,
          tokenVars, engineVars, netVars, fdVars, readVars, batchVars, Become
  <1>1. CASE HttpRegister
    BY <1>1 DEF HttpRegister, Register
  <1>2. CASE HttpCreate
    BY <1>2 DEF HttpCreate, CreateEngine, DelayEnds
  <1>3. CASE HttpCall
    BY <1>3 DEF HttpCall, Call
  <1>4. CASE SocksCreate
    BY <1>4 DEF SocksCreate, CreateEngine, DelayEnds
  <1>5. CASE SocksRegister
    BY <1>5 DEF SocksRegister, Register
  <1>6. CASE SocksCall
    BY <1>6 DEF SocksCall, Call
  <1>7. CASE ProxyPost
    BY <1>7 DEF ProxyPost, Finish
  <1>8. CASE ProxyBeginCancelled
    BY <1>8 DEF ProxyBeginCancelled, NativeReturn
  <1>9. CASE HttpTunnel
    BY <1>9 DEF HttpTunnel, ProxyTunnel, Open, Free
  <1>10. CASE SocksTunnel
    BY <1>10 DEF SocksTunnel, ProxyTunnel, Open, Free
  <1>11. CASE ProxyTlsFails
    BY <1>11 DEF ProxyTlsFails, NativeReturn, Close
  <1>12. CASE ProxyTls
    BY <1>12 DEF ProxyTls
  <1>13. CASE ProxyCancelled
    BY <1>13 DEF ProxyCancelled, CancelCheck, ReleaseSsl, Close
  <1>14. CASE ProxyCancelledLate
    BY <1>14 DEF ProxyCancelledLate, CancelCheck, ReleaseSsl, Close
  <1>15. CASE ProxyQuery
    BY <1>15 DEF ProxyQuery, BeginExchange
  <1>16. CASE ProxyNoSocket
    BY <1>16 DEF ProxyNoSocket, NativeReturn
  <1>17. CASE ProxyPostCheck
    BY <1>17 DEF ProxyPostCheck
  <1>18. CASE HttpRelease
    BY <1>18 DEF HttpRelease, ReleaseIfSet, ReleaseSsl, Close
  <1>19. CASE HttpClose
    BY <1>19, SMTT(30) DEF HttpClose, NativeReturn, Close
  <1>20. CASE SocksRelease
    BY <1>20 DEF SocksRelease, ReleaseSsl, Close
  <1>21. CASE ProxyDelayFails
    BY <1>21 DEF ProxyDelayFails, DelayThrows
  <1>22. QED
    BY <1>1, <1>2, <1>3, <1>4, <1>5, <1>6, <1>7, <1>8, <1>9, <1>10, <1>11,
       <1>12, <1>13, <1>14, <1>15, <1>16, <1>17, <1>18, <1>19, <1>20, <1>21 DEF
       ProxyNext

\* The answer invariant is kept over every step of the rest of the process.
LEMMA AnswerEnv ==
  ASSUME TypeInv, AnswerInv, Environment
  PROVE  AnswerInv'
  <1> USE ScanAssumption DEF TypeInv, TypeOK, PcInv, CountInv, AnswerInv,
          Abandoned, ReportsAreAnswers, BadStatusWasRetried, InNative, Headers,
          Answers, Outputs, Reports, NativePcs, Blocked, Crashed, ExchangePcs,
          CppPcs, TorPcs, HttpPcs, SocksPcs, Before, Between, Config, Delays,
          tokenVars, engineVars, netVars, fdVars, readVars, batchVars, Become
  <1>1. CASE Cancel
    BY <1>1 DEF Cancel, InNative
  <1>2. CASE OtherOpens
    BY <1>2 DEF OtherOpens, Free
  <1>3. CASE OtherCloses
    BY <1>3 DEF OtherCloses
  <1>4. QED
    BY <1>1, <1>2, <1>3 DEF Environment

\* The answer invariant is kept over every step.
LEMMA AnswerStep ==
  ASSUME TypeInv, AnswerInv, [Next]_vars
  PROVE  AnswerInv'
  <1> USE ScanAssumption DEF TypeInv, TypeOK, PcInv, CountInv, AnswerInv,
          Abandoned, ReportsAreAnswers, BadStatusWasRetried, InNative, Headers,
          Answers, Outputs, Reports, NativePcs, Blocked, Crashed, ExchangePcs,
          CppPcs, TorPcs, HttpPcs, SocksPcs, Before, Between, Config, Delays,
          tokenVars, engineVars, netVars, fdVars, readVars, batchVars, Become
  <1>1. CASE StartRequest
    BY <1>1 DEF StartRequest
  <1>2. CASE SaveBatch
    BY <1>2 DEF SaveBatch
  <1>3. CASE Exchange
    BY <1>3, AnswerExchange
  <1>4. CASE DirectNext
    BY <1>4, AnswerDirect
  <1>5. CASE TorNext
    BY <1>5, AnswerTor
  <1>6. CASE ProxyNext
    BY <1>6, AnswerProxy
  <1>7. CASE Environment
    BY <1>7, AnswerEnv
  <1>8. CASE UNCHANGED vars
    BY <1>8 DEF vars
  <1>9. CASE SaveFails
    BY <1>9 DEF SaveFails
  <1>10. CASE DelayEndless
    BY <1>10 DEF DelayEndless
  <1>11. QED
    BY <1>1, <1>2, <1>3, <1>4, <1>5, <1>6, <1>7, <1>8, <1>9, <1>10 DEF Next,
       Thread, Ended

----------------------------------------------------------------------------
\* The initial states satisfy the whole invariant.
LEMMA InvInit == ScanInit => IInv
  <1> SUFFICES ASSUME ScanInit PROVE IInv
    OBVIOUS
  <1>1. TypeInv
    BY TypeInit
  <1>2. EngineInv
    BY SMTT(30) DEF ScanInit, EngineInv, Abandoned, EnginePcs, NativePcs,
       ExchangePcs
  <1>3. FdInv
    <2>1. Held = {} /\ Leaked = {}
      BY DEF ScanInit, Held, Leaked
    <2>2. Cardinality(Leaked) <= reported
      BY <2>1, FS_EmptySet DEF ScanInit
    <2>3. QED
      BY <2>1, <2>2 DEF ScanInit, FdInv, HasSockPcs, ClosedPcs, NoForeignClose
  <1>4. SslInv
    BY DEF ScanInit, SslInv, HandleSafety, ClosedPcs, ExchangePcs
  <1>5. AnswerInv
    BY DEF ScanInit, AnswerInv, ReportsAreAnswers, BadStatusWasRetried, Between,
       ExchangePcs, InNative, NativePcs
  <1>6. QED
    BY <1>1, <1>2, <1>3, <1>4, <1>5 DEF IInv

\* Every step preserves the whole invariant.
LEMMA InvStep ==
  ASSUME IInv, [Next]_vars
  PROVE  IInv'
  <1> USE DEF IInv
  <1>1. TypeInv'
    BY TypeStep
  <1>2. EngineInv'
    BY EngineStep
  <1>3. FdInv'
    BY <1>1, FdStep
  <1>4. SslInv'
    BY <1>3, SslStep
  <1>5. AnswerInv'
    BY AnswerStep
  <1>6. QED
    BY <1>1, <1>2, <1>3, <1>4, <1>5

\* The inductive invariant of the scans.
THEOREM InvHolds == Spec => []IInv
  <1>1. ScanInit => IInv
    BY InvInit
  <1>2. IInv /\ [Next]_vars => IInv'
    BY InvStep
  <1>3. QED
    BY <1>1, <1>2, PTL DEF Spec

\* Native code runs only on a live engine; an engine is lost only by a direct
\* scan whose delay throws.
THEOREM EngineLifecycleHolds == Spec => []EngineLifecycle
  <1>1. IInv => EngineLifecycle
    BY SMTT(30) DEF IInv, TypeInv, TypeOK, PcInv, EngineInv, Abandoned,
       EngineLifecycle, EnginePcs, AtRest, InNative
  <1>2. QED
    BY <1>1, InvHolds, PTL

\* Only the HTTP-proxy scan over TLS can close another thread's descriptor.
THEOREM NoForeignCloseHolds == Spec => []NoForeignClose
  <1>1. IInv => NoForeignClose
    BY DEF IInv, FdInv
  <1>2. QED
    BY <1>1, InvHolds, PTL

\* Between requests the Tor and proxy scans hold nothing, and the direct scan at
\* most one descriptor per finished request.
THEOREM NothingHeldAtRestHolds == Spec => []NothingHeldAtRest
  <1>1. ASSUME IInv PROVE NothingHeldAtRest
    <2> SUFFICES ASSUME AtRest PROVE
          /\ conf.backend # "cpp" => Held = {} /\ ~sslLost
          /\ Cardinality(Held) <= reported
          /\ sslLost => conf.https /\ Held # {}
      BY DEF NothingHeldAtRest
    <2>1. sock = NoFd
      BY <1>1 DEF IInv, FdInv, AtRest, NoSockPcs
    <2>2. Leaked = Held
      BY <2>1, ScanAssumption DEF Leaked, Held
    <2>3. QED
      BY <1>1, <2>2 DEF IInv, FdInv, SslInv
  <1>2. QED
    BY <1>1, InvHolds, PTL

\* OpenSSL is entered through a dead handle only in the excepted cases.
THEOREM HandleSafetyHolds == Spec => []HandleSafety
  <1>1. IInv => HandleSafety
    BY DEF IInv, SslInv
  <1>2. QED
    BY <1>1, InvHolds, PTL

\* The Tor wrapper never reports uninitialised memory, and nobody an aborted
\* exchange but a second Tor query that saw the shared flag.
THEOREM ReportsAreAnswersHolds == Spec => []ReportsAreAnswers
  <1>1. IInv => ReportsAreAnswers
    BY DEF IInv, AnswerInv
  <1>2. QED
    BY <1>1, InvHolds, PTL

\* A bad Tor answer that is reported was asked for twice.
THEOREM BadStatusWasRetriedHolds == Spec => []BadStatusWasRetried
  <1>1. IInv => BadStatusWasRetried
    BY DEF IInv, AnswerInv
  <1>2. QED
    BY <1>1, InvHolds, PTL
=============================================================================
