\* One call of a modular routine or of QRAM_read on two bits, or of an adjoint on
\* what its forward routine would have left.
SPECIFICATION Spec
CONSTANTS
  Width = 2
  Routines = {"add_mod_adj", "add_mod(", "add_mod_inplace", "add_mod_inplace_adj", "double_mod", "double_mod_adj", "mul_mod(", "mul_mod_adj", "mul_mod_inplace", "mul_mod_inplace_adj", "square_mod", "square_mod_adj", "pow_mod(", "qram_read"}
  OnLiterals = {}
  Repeated = {}
  BitType = "BitProxy"
  MaxCalls = 1
  MaxHighWater = 44
INVARIANTS
  FreeIsZero
  Balanced
PROPERTIES
  CalculatorSpec
