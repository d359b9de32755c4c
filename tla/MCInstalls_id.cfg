SPECIFICATION MCSpec
CONSTANTS
  Corpora = {c1}
  Sources = {s1, s2}
  Versions = {3}
  Builders = {b1}
  Activators = {a1}
  Installs = {"s3"}
  MaxCommands = 4
  NoId = NoId
  NoSource = NoSource
  AssetFiles <- MCAssetFiles
  MaxRevision = 1
  MaxStarts = 0
INVARIANTS OneManifestPerId
CHECK_DEADLOCK FALSE
