SPECIFICATION Spec
CONSTANTS
  d1 = d1
  d2 = d2
  b1 = b1
  w1 = w1
  w2 = w2
  Nil = Nil
  Deliveries = {d1}
  Banks = {b1}
  BankOf <- OneBank
  Workers = {w1, w2}
  Tokens <- ThreeTokens
  MaxErrors = 2
  MaxAsked = 2
  MaxFaults = 3
SYMMETRY Symmetry
CHECK_DEADLOCK FALSE
INVARIANTS TypeOK NoUnaskedWork StatusFollowsNative
PROPERTIES StaleCheckWritesNothing
