SPECIFICATION TunnelSpec
CONSTANTS
  ReplyLens <- MCReplyLens
INVARIANTS
  FailureIsReported
