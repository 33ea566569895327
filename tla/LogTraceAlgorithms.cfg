SPECIFICATION AlgorithmsSpec
CONSTANTS
  Archives <- AllArchives
  Disk <- DamagedDisk
  MaxLine = 15
  CsvBytes <- CsvAlphabet
  MaxCsv = 8
  Utf8Bytes <- Utf8Alphabet
  MaxUtf8 = 4
  Times <- EdgeTimes
  Corpora <- MixedCorpora
  TermOf <- SmallTermOf
  Rewritten <- SwappedWords
  Idf <- IdfTable
  Queries <- MixedQueries
  IdWidth = 4
  Window = 4
  MaxDamage = 1
  Keys = {k1, k2, k3, k4, k5}
  Values = {v1, v2}
  Absent = absent
  ProbationCapacity = 2
  ProtectedCapacity = 2
INVARIANTS
  ScanIsLineByLine
  DocumentsAreLines
  DamageIsReported
  ReadableByBatchReader
  FormatsAreReference
  IndexMatchesFiles
  PageIsSlice
  DetailIsOriginal
  ListsMatchEntries
PROPERTIES
  HitsSurvive
  ImplementsLossyCache
CHECK_DEADLOCK FALSE
