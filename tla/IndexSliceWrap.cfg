\* The same slices, steps that overflow included.
SPECIFICATION Spec
CONSTANTS
  Top = 7
  MaxLength = 4
  MaxIntegers = 0
CHECK_DEADLOCK FALSE
INVARIANTS
  PositionsInArray
