SPECIFICATION Spec
CONSTANTS
  Archives <- TwoArchives
  Documents <- OneEach
  Unparsable = {1, 2}
  SourceLimit = 2
  DocumentLimit = 2
  Batches <- SixBatches
  Inserts = 1
  Commands = {"scan", "rebuild", "build"}
  MaxCommands = 1
  MaxFaults = 1
  MaxLate = 1
  MaxOverlaps = 1
  MaxDamage = 1
  MaxCrashes = 1
  MaxTroubles = 2
INVARIANTS
  RowsMatchFiles
  NothingSkipped
  SnapshotSound
PROPERTIES
  ImplementsCatalog
