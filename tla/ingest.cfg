SPECIFICATION FairSpec
CONSTANTS
  e1 = e1
  e2 = e2
  bad = bad
  pay1 = pay1
  x1 = x1
  email = email
  contact = contact
  NoId = NoId
  Events = {e1, e2, bad}
  Malformed = {bad}
  event_id <- Ids
  payment_id <- Payments
  identifiers <- Identifiers
  arm_of <- Arms
  Workers = {w1, w2}
  Limit = 2
  MaxDeaths = 1
  MaxFaults = 1
  MaxCuts = 1
  Checkpoints = {3}
INVARIANTS
  TypeOK
  DecisionsAreBounded
  ProcessedIsRecorded
  AnsweredIsStored
PROPERTIES
  AnsweredIsDecided
