SPECIFICATION Spec
CONSTANTS
  Values <- MCValues
  Files <- MCFiles
  IntMax <- MCIntMax
  Garbage <- MCGarbage
  DbNames <- MCDbNames
  TreeNames <- MCTreeNames
  DbName <- MCDbName
  TreeName <- MCTreeName
  MaxCommands <- MCMaxCommands
INVARIANTS
  SessionTypeOK LoadedAsWritten DelayWithinRange RowsOfFirstScan ForestOfRows
  ScoreExplained
