SPECIFICATION Spec
CONSTANTS
  None = None
  good = good
  bad = bad
  Data = {good, bad}
  Uploads = {u1}
  Chunks = {c1}
  Writers = {w1, w2}
  Completers = {h1, h2}
  DayLength = 2
  MaxTime = 2
  MaxLate = 1
  Declared <- DeclaredGood
SYMMETRY Symmetry
INVARIANTS
  IInv
  AnswersAgree
PROPERTIES
  ImplementsLedger
  ArchiveImmutable
  LiveFileNotRemoved
CHECK_DEADLOCK FALSE
