SPECIFICATION Spec
CONSTANTS
  old = old
  new = new
  bare = bare
  elsewhere = elsewhere
  config <- CommittedConfig
  Contexts <- FewDeclines
  Revisions <- FourBundles
  Exempt <- T4Exemption
  Has <- FourResults
  Down = Down
  UNKNOWN = UNKNOWN
INVARIANTS
  FailsClosedToT4
