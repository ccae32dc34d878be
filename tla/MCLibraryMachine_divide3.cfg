\* Division on three bits.
SPECIFICATION Spec
CONSTANTS
  Width = 3
  Routines = {"div"}
  OnLiterals = {}
  Repeated = {}
  BitType = "BitProxy"
  MaxCalls = 1
  MaxHighWater = 40
INVARIANTS
  ResultIsRight
