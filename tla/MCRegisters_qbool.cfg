\* Two threads, with two qbools and one.
SPECIFICATION Spec
CONSTANTS
  t1 = t1
  t2 = t2
  r1 = r1
  r2 = r2
  r3 = r3
  Idle = Idle
  Thread = {t1, t2}
  Register = {r1, r2, r3}
  ThreadOf <- TwoAndOne
  Width = 1
  MaxHighWater = 3
INVARIANTS
  TypeOK
  Exclusive
  NoLeak
  InUseIsHeld
PROPERTIES
  LedgerSpec
SYMMETRY PairSymmetry
