SPECIFICATION Spec
CONSTANTS
  w1 = w1
  w2 = w2
  Nil = Nil
  Workers = {w1, w2}
  InputSizes = {2}
  ReplySizes = {1, 2}
  MaxUnsummarized = 2
  RetainRecent = 2
  RecentTokens = 3
  SummaryTokens = 1
  CompactionLimit = 4
  InputLimit = 6
  MaxRequests = 2
  Attempts = 2
  MaxTurns = 3
  MaxRetries = 1
  MaxFaults = 1
SYMMETRY Interchangeable
CHECK_DEADLOCK FALSE
INVARIANTS DialogueCovered
PROPERTIES FailedLookupHoldsInput
