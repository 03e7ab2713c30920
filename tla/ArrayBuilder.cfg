\* The builder while memory lasts.
SPECIFICATION Spec
CONSTANTS
  Scalars = {s}
  Names = {x, y}
  EmptyName = EmptyName
  MaxTupleSize = 2
  MaxValues = 4
  MaxFailures = 0
SYMMETRY NameSymmetry
INVARIANTS
  TypeOK
  SlotsAreFresh
PROPERTIES
  ThrowsChangeNothing
  ImplementsDocument
