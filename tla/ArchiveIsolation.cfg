SPECIFICATION AlgorithmsSpec
CONSTANTS
  Archives <- OldArchives
  Disk <- DamagedDisk
  MaxLine = 15
  CsvBytes <- CsvAlphabet
  MaxCsv = 0
  Utf8Bytes <- Utf8Alphabet
  MaxUtf8 = 0
  Times <- EdgeTimes
  Corpora <- MixedCorpora
  TermOf <- SmallTermOf
  Rewritten <- SwappedWords
  Idf <- IdfTable
  Queries <- MixedQueries
  IdWidth = 4
  Window = 4
  MaxDamage = 0
  Keys = {k1, k2, k3, k4, k5}
  Values = {v1, v2}
  Absent = absent
  ProbationCapacity = 2
  ProtectedCapacity = 2
INVARIANT BadFileIsIsolated
CHECK_DEADLOCK FALSE
