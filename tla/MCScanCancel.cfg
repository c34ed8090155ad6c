SPECIFICATION FairSpec
CONSTANTS
  Fds <- MCFds
  NoFd <- MCNoFd
  NPaths = 1
  BufCap = 2
  Backends <- OnlyCpp
  FlagModes <- OnlyCopy
PROPERTIES
  CancelHaltsNative
