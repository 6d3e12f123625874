SPECIFICATION FairSpec
CONSTANTS
  d1 = d1
  d2 = d2
  b1 = b1
  w1 = w1
  w2 = w2
  Nil = Nil
  Deliveries = {d1, d2}
  Banks = {b1}
  BankOf <- OneBank
  Workers = {w1}
  Tokens <- ThreeTokens
  MaxErrors = 2
  MaxAsked = 1
  MaxFaults = 1
CHECK_DEADLOCK FALSE
PROPERTIES DeliverySettles KeepsOutboxPromise
