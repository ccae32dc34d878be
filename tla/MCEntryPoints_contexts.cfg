SPECIFICATION Spec
CONSTANTS
  Threads <- TwoThreads
  Main = "first"
  Heap = {"c1", "c2", "c3"}
  Qubits <- ThreeBits
  Bits <- ThreeBits
  Plans <- AllPlans
  Excused = {"nested", "throw", "memory"}
CHECK_DEADLOCK FALSE
INVARIANTS
  TypeOK
  GatesGoHome
  InstalledIsAlive
  NothingLeaks
  CountIsExact
  WrappedOnce
  DispatchIsExact
