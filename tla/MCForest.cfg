SPECIFICATION Spec
CONSTANTS
  Datasets <- MCDatasets
  Sizes <- MCSizes
  TreeCounts <- MCTreeCounts
  Unit <- MCUnit
  Garbage <- MCGarbage
  LogTerm <- MCLogTerm
  MaxWalk <- MCMaxWalk
  MaxTrainings <- MCMaxTrainings
INVARIANTS
  ForestTypeOK TreeShape LeavesPartition OwnLeaf OneLatencyScore
PROPERTIES
  PredictionEnds
