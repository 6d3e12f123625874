SPECIFICATION Spec
CONSTANTS
  t1 = t1
  t2 = t2
  t3 = t3
  ca = ca
  cb = cb
  Nil = Nil
  Txns = {t1, t2}
  Conversations = {ca}
  Kinds <- SetupKinds
  MaxClock = 0
INVARIANTS NoWaitCycle
