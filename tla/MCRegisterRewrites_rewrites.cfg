\* Functions of up to four tokens, outside of the known divergences.
SPECIFICATION Spec
CONSTANTS
  Menus <- AllMenus
  Parameters <- AllParameters
  Arrays <- AllArrays
  Environments <- AllEnvironments
  Width = 2
  MaxTokens = 4
  Excused = {"declarators", "nested", "argument", "helper", "widths", "pointer", "scope", "wraps", "order", "changes"}
INVARIANTS
  Compiles
  CallsSeeTheSource
  ReadsAreUndone
CHECK_DEADLOCK FALSE
