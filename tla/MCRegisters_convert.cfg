\* A program that converts a qbool to a qint_t.
SPECIFICATION SpecConverting
CONSTANTS
  t1 = t1
  t2 = t2
  r1 = r1
  r2 = r2
  r3 = r3
  Idle = Idle
  Thread = {t1}
  Register = {r1, r2}
  ThreadOf <- Two
  Width = 1
  MaxHighWater = 3
INVARIANTS
  Exclusive
