SPECIFICATION Spec
CONSTANTS
  old = old
  new = new
  bare = bare
  elsewhere = elsewhere
  config <- CommittedConfig
  Contexts <- FewDeclines
  Revisions = {new}
  Exempt <- NewExemption
  Has <- NewResult
  Down = Down
  UNKNOWN = UNKNOWN
INVARIANTS
  EveryPinnedRowReplays
