SPECIFICATION Spec
CONSTANTS
  Results <- MCResults
  Runs <- MCRuns
  Wordlists <- MCWordlists
  Codes <- MCCodes
  MaxFiles <- MCMaxFiles
  MaxRows <- MCMaxRows
  MaxKills <- MCMaxKills
  ChunkSize <- MCChunkSize
INVARIANTS
  TelemetryTypeOK LinesAlike LastChunkWins TrainingInBounds ModelOfOneStash
  PredictionGrounded OnlyLatencyScored ModelOfFirstScan
PROPERTIES
  KeepsLogPromise
