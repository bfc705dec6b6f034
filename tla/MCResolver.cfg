CONSTANTS
  Callers = {c1, c2}
  Domains = {a, b}
  Modes <- ManyModes
  MaxCalls = 2
SPECIFICATION FairSpec
INVARIANTS AnswerExplained FreshUnlessCached KeptAnswerIsUsed
PROPERTIES ResolveEnds
CHECK_DEADLOCK FALSE
