SPECIFICATION TunnelSpec
CONSTANTS
  ReplyLens <- MCReplyLens
INVARIANTS
  TunnelTypeOK RefusalCaught CleanTunnel
PROPERTIES
  TunnelReturns KeepsDialPromise
