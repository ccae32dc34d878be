\* Counting loops outside of the known divergences.
SPECIFICATION Spec
CONSTANTS
  Width = 4
  Values <- FewValues
  Strides <- FewStrides
  Excused = {"empty", "signs", "overflow"}
INVARIANTS
  TakesValuesBack
PROPERTY
  ComesBack
CHECK_DEADLOCK FALSE
