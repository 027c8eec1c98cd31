CONSTANTS
  Cells <- MCCells
  NumberOf <- MCNumberOf
  LineSize = 2
  MenuTimeout = 2
  MaxPrompts = 3
  MaxTyped = 4
  MaxAhead = 2
  MaxResets = 1
SPECIFICATION Spec
INVARIANTS RunsWhatIsStored
PROPERTIES LinesAsTyped MenuEnds
CHECK_DEADLOCK FALSE
