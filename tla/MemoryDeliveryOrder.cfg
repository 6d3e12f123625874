SPECIFICATION Spec
CONSTANTS
  d1 = d1
  d2 = d2
  b1 = b1
  w1 = w1
  w2 = w2
  Nil = Nil
  Deliveries = {d1, d2}
  Banks = {b1}
  BankOf <- OneBank
  Workers = {w1, w2}
  Tokens <- ThreeTokens
  MaxErrors = 1
  MaxAsked = 1
  MaxFaults = 1
SYMMETRY Symmetry
CHECK_DEADLOCK FALSE
INVARIANTS DeliveredInOrder BlockedWaitsForPerson
PROPERTIES KeepsOutboxContract
