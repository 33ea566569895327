SPECIFICATION Spec
CONSTANTS
  Archives <- TwoArchives
  Documents <- OneEach
  Unparsable = {2}
  SourceLimit = 2
  DocumentLimit = 2
  Batches <- SixBatches
  Inserts = 2
  Commands = {"scan", "rebuild", "build"}
  MaxCommands = 0
  MaxFaults = 0
  MaxLate = 0
  MaxOverlaps = 0
  MaxDamage = 0
  MaxCrashes = 0
  MaxTroubles = 0
INVARIANT
  NothingSkipped
