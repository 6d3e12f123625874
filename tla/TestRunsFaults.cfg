SPECIFICATION FairSpec
CONSTANTS
  r1 = r1
  r2 = r2
  Nil = Nil
  Runs = {r1, r2}
  MaxFaults = 2
INVARIANTS NothingLeftBehind
PROPERTIES CancelIsKept RunGetsResult
