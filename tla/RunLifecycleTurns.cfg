SPECIFICATION Spec
CONSTANTS
  c1 = c1
  c2 = c2
  s1 = s1
  w1 = w1
  w2 = w2
  k1 = k1
  k2 = k2
  q1 = q1
  q2 = q2
  Nil = Nil
  Conversations = {c1}
  Subjects = {s1}
  SubjectOf <- OneSubject
  Workers = {w1, w2}
  RunIds <- TwoRuns
  Keys = {k1, k2}
  RetryKeys = {q1}
  RetryCounts <- OneRetry
  Tokens <- ThreeTokens
  MaxFaults = 1
SYMMETRY Symmetry
INVARIANTS OneActiveRun ActiveRunStaysCommittable TranscriptAnswersInOrder
PROPERTIES TerminalIsFinal KeepsTurnContract
