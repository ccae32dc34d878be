\* Functions of up to five tokens, outside of the known divergences.
SPECIFICATION Spec
CONSTANTS
  Menus <- AllMenus
  Parameters = {"a", "b", "x"}
  Annotated <- Reversible
  ByValue = {"b"}
  MaxTokens = 5
  Excused = {"hoist", "fresh", "fuse", "nesting", "not", "xor", "and", "block", "lossy", "braces", "call", "outer", "final", "return", "adjoint", "reorder"}
INVARIANTS
  Compiles
  CallsSeeTheSource
  ClosedClean
  ParametersRestored
  WhenOperandsKept
  AdjointUndoesTheProgram
CHECK_DEADLOCK FALSE
