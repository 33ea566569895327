SPECIFICATION FairSpec
CONSTANTS
  Archives <- TwoArchives
  Batches <- TwoBatches
  Contents <- Singles
  Documents <- TwoDocuments
  Callers = {c1}
  Workloads <- FourWorkloads
  Catalogued = {"E1"}
  Window = 3
  PageLimit = 2
  CodeMatches = 1
  Width64 = 16
  Width32 = 8
  MaxRebuilds = 2
  MaxCrashes = 1
  MaxFaults = 1
INVARIANTS
  TypeOK
PROPERTIES
  PageIsCurrent
  DetailIsCurrent
  EveryCallAnswered
