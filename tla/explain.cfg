SPECIFICATION FairSpec
CONSTANTS
  config <- CommittedConfig
  Ledger <- Rows
  Procs <- ThreeProcs
  Kind <- Kinds
  Keyed <- Commands
  Topics <- Actions
  Blurbs <- Slips
  Shipped <- Found
  MaxSummaries = 4
  ShownAtMost = 2
  NoText = NoText
INVARIANTS
  TypeOK
  ServedFitsItsDecision
  PrewarmCoversOnce
  
PROPERTIES
  EveryRequestIsAnswered
