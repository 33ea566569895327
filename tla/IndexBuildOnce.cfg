SPECIFICATION Spec
CONSTANTS
  Archives <- TwoArchives
  Documents <- OneEach
  Unparsable = {2}
  SourceLimit = 2
  DocumentLimit = 2
  Batches <- SixBatches
  Inserts = 1
  Commands = {"scan", "rebuild", "build"}
  MaxCommands = 1
  MaxFaults = 0
  MaxLate = 0
  MaxOverlaps = 1
  MaxDamage = 0
  MaxCrashes = 0
  MaxTroubles = 1
INVARIANT
  TablesMatchFiles
