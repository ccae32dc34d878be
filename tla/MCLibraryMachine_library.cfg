\* Any two calls of the library's routines on two bits, or one compound
\* assignment of a register or a constant; one that loses information is undone
\* at the end of its scope.
SPECIFICATION Spec
CONSTANTS
  Width = 2
  Routines = {"add", "add_adj", "sub", "eq", "ne", "lt", "gt", "mul", "mul_adj", "div", "div_adj", "or", "or_adj", "nand", "nor", "xnor", "c_n_AND", "swap", "+=", "-=", "*=", "/=", "%=", "&=", "|=", "^=", "{*=}", "{/=}", "{%=}", "{&=}", "{|=}"}
  OnLiterals = {"+=", "*=", "/=", "%=", "&=", "|=", "^=", "{&=}", "{|=}"}
  Repeated = {"add", "add_adj", "sub", "eq", "ne", "lt", "gt", "mul", "mul_adj", "div", "div_adj", "or", "or_adj", "nand", "nor", "xnor", "c_n_AND", "swap"}
  BitType = "BitProxy"
  MaxCalls = 2
  MaxHighWater = 32
INVARIANTS
  FreeIsZero
  Distinct
  Balanced
PROPERTIES
  CalculatorSpec
