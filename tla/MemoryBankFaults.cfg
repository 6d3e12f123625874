SPECIFICATION FairSpec
CONSTANTS
  c1 = c1
  c2 = c2
  c3 = c3
  Nil = Nil
  Callers = {c1, c2, c3}
  MaxFaults = 2
INVARIANTS NeverAdoptsPopulated FailedForAReason
PROPERTIES EstablishedForGood InitializationSettles
