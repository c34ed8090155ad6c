SPECIFICATION Spec
CONSTANTS
  Targets <- MCTargets
  Cap <- MCCap
  WordLists <- MCWordLists
  Ports <- MCPorts
  Answers <- MCAnswers
  DnsReplies <- MCDnsReplies
  Leftovers <- MCLeftovers
  Full <- MCFull
  MaxHead <- MCMaxHead
  MaxBatches <- MCMaxBatches
INVARIANTS
  CaptureReleases RecordOfAnswer RecordsReadBack VerdictGrounded
