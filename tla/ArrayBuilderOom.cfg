\* The builder when any allocation may fail.
SPECIFICATION Spec
CONSTANTS
  Scalars = {s}
  Names = {x, y}
  EmptyName = EmptyName
  MaxTupleSize = 2
  MaxValues = 3
  MaxFailures = 2
SYMMETRY NameSymmetry
INVARIANTS
  SlotReserved
PROPERTIES
  FailureIsLocal
  LossIsReported
