SPECIFICATION MCSpec
CONSTANTS
  Corpora = {c1}
  Sources = {s1, s2}
  Versions <- MCVersions
  Builders = {b1, b2}
  Activators = {a1, a2}
  Installs = {"move", "copy", "s3"}
  MaxCommands = 4
  NoId = NoId
  NoSource = NoSource
  AssetFiles <- MCAssetFiles
  MaxRevision = 3
  MaxStarts = 4
SYMMETRY Symmetry
INVARIANTS TypesOK OutputWhole InstalledWhole PointerServable ServesOneBundle
PROPERTIES UploadsResume ReleaseKept
CHECK_DEADLOCK FALSE
