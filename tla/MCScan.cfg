SPECIFICATION FairSpec
CONSTANTS
  Fds <- MCFds
  NoFd <- MCNoFd
  NPaths = 2
  BufCap = 2
  Backends <- AllScans
  FlagModes <- BothFlags
INVARIANTS
  TypeOK EngineLifecycle NoForeignClose NothingHeldAtRest HandleSafety
  ReportsAreAnswers BadStatusWasRetried
PROPERTIES
  PlainRequestReturns SharedFlagHalts KeepsBatchPromise
