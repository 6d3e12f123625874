SPECIFICATION Spec
CONSTANTS
  c1 = c1
  c2 = c2
  s1 = s1
  w1 = w1
  w2 = w2
  k1 = k1
  k2 = k2
  q1 = q1
  q2 = q2
  Nil = Nil
  Conversations = {c1}
  Subjects = {s1}
  SubjectOf <- OneSubject
  Workers = {w1, w2}
  RunIds <- OneRun
  Keys = {k1}
  RetryKeys = {q1, q2}
  RetryCounts <- UpToOneRetry
  Tokens <- ThreeTokens
  MaxFaults = 3
SYMMETRY Symmetry
INVARIANTS TypeOK LeaseMatchesRun AttemptLedger AttemptBudget
PROPERTIES OnlyOwnerChangesRun NoWorkAfterCancel
