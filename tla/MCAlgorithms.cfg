SPECIFICATION MCSpec
CONSTANTS
  Docs = {d1, d2}
  Names <- MCNames
  DayLength = 2
  MaxClock = 2
  MaxBatch = 2
  MaxRecords = 3
  FirstDay = 11574
  FirstDate <- MCFirstDate
  LastDay = 157800
  Coordinates <- MCCoordinates
  Codebooks <- MCCodebooks
  QrDims = {2, 3}
  Codecs <- MCCodecs
  Queries <- MCQueries
  MaxRows = 4
  Dim = 16
  GeneratorVersion = 2
  Scans <- MCScans
  Formats <- MCFormats
  DocHash <- StableHash
  HashWidth = 8
  U64 = 4096
  MaxDamage = 2
  Shards = {1, 2}
  VectorTables <- MCTables
  One = 2
  Matches <- MCMatches
  ScanDocs = 4
  ScanScores = {1, 2}
  TopKs = {1, 2, 3}
  WindowMax = 4
  RrfK = 60
  Rankings <- MCRankings
  Searchers = {s1, s2}
  CacheVersions = {1, 2}
  ShardCount = 2
  MaxBegun = 4
  Contexts <- MCContexts
  MaxTokens <- MCMaxTokens
SYMMETRY MCSymmetry
INVARIANTS LastWriteWins DateIsCivil GeneratedAlike CodesAreOfTheVector BuiltReadsBack LoadedIsSound VerifiedIsBuilt RetrieversFindBest AnswersComplete BothRankingsCount CacheAdds BudgetHolds
CHECK_DEADLOCK FALSE
