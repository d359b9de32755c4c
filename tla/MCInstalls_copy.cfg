SPECIFICATION MCSpec
CONSTANTS
  Corpora = {c1}
  Sources = {s1}
  Versions = {3}
  Builders = {b1}
  Activators = {a1, a2}
  Installs = {"copy"}
  MaxCommands = 3
  NoId = NoId
  NoSource = NoSource
  AssetFiles <- MCAssetFiles
  MaxRevision = 1
  MaxStarts = 0
INVARIANTS TargetFullyFormed
CHECK_DEADLOCK FALSE
