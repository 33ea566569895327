SPECIFICATION Spec
CONSTANTS
  None = None
  good = good
  bad = bad
  Data = {good, bad}
  Uploads = {u1}
  Chunks = {c1}
  Writers = {w1}
  Completers = {h1}
  DayLength = 2
  MaxTime = 2
  MaxLate = 1
  Declared <- DeclaredGood
PROPERTIES
  VerifyingIsSettled
  TempFileLeaves
CHECK_DEADLOCK FALSE
