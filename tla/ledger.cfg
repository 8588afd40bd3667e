SPECIFICATION FairSpec
CONSTANTS
  w1 = w1
  w2 = w2
  w3 = w3
  p1 = p1
  p2 = p2
  Writers = {w1, w2, w3}
  Processes = {p1, p2}
  ProcessOf <- TwoProcesses
  NoOne = NoOne
  Rows = {a, f}
  FloatRows = {f}
  PowerFails = TRUE
  MaxEntries = 2
INVARIANTS
  TypeOK
  ChainIntact
  LockSuffices
  AckedIsRecorded
PROPERTIES
  Atomic
  LocksAreReleased
