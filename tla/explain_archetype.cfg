SPECIFICATION Spec
CONSTANTS
  config <- CommittedConfig
  Ledger <- Rows
  Procs <- ThreeProcs
  Kind <- Kinds
  Keyed <- Commands
  Topics <- Reasons
  Blurbs = {}
  Shipped <- NothingFound
  MaxSummaries = 4
  ShownAtMost = 2
  NoText = NoText
INVARIANTS
  SameThingsAreTrue
