SPECIFICATION Spec
CONSTANTS
  None = None
  a = a
  b = b
  empty = empty
  Contents = {a}
  Size <- SizeOf
  Chunks = {1, 2}
  Uploads = {u1, u2, u3, u4}
  StableScans = 1
  SpoolMax = 2
  MaxWrites = 1
  MaxFaults = 2
  MaxLate = 1
INVARIANTS
  SessionLossNotFatal
