SPECIFICATION FairSpec
CONSTANTS
  r1 = r1
  r2 = r2
  x1 = x1
  v1 = v1
  v2 = v2
  port1 = port1
  port2 = port2
  Allow = Allow
  Deny = Deny
  NoInput = NoInput
  Unavailable = Unavailable
  UNKNOWN = UNKNOWN
  Rows <- AllRows
  Dists <- AllDists
  Verifiers = {v1, v2}
  Modes = {"replay", "require"}
  Ports = {port1, port2}
  MaxEntries = 2
  Late = FALSE
CHECK_DEADLOCK FALSE
INVARIANTS
  TypeOK
  AttestationIsProof
  FailHasACause
PROPERTIES
  VerifyEnds
