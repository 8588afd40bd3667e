SPECIFICATION FairSpec
CONSTANTS
  old = old
  new = new
  bare = bare
  elsewhere = elsewhere
  config <- CommittedConfig
  Contexts <- Declines
  Revisions <- FourBundles
  Exempt <- T4Exemption
  Has <- FourResults
  Down = Down
  UNKNOWN = UNKNOWN
INVARIANTS
  TypeOK
  ActsOnlyIfPermitted
  GuessesAreNotActedOn
  HumanIsAlwaysLegal
  RowsReplay
  WebhookCodesAreEvidence
PROPERTIES
  EveryDeclineIsDecided
