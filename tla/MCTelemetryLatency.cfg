SPECIFICATION Spec
CONSTANTS
  Results <- MCResults
  Runs <- MCRuns
  Wordlists <- MCWordlists
  Codes <- MCCodes
  MaxFiles <- MCMaxFiles
  MaxRows <- MCMaxRows
  MaxKills <- MCMaxKills
  ChunkSize <- MCChunkSize
INVARIANTS
  LatencyFiltered
