SPECIFICATION FairSpec
CONSTANTS
  Fds <- MCFds
  NoFd <- MCNoFd
  NPaths = 1
  BufCap = 2
  Backends <- OnlyTor
  FlagModes <- OnlyCopy
INVARIANTS
  QueryHasTunnel
