\* jagged::Array while memory lasts, every operation.
SPECIFICATION RowSpec
CONSTANTS
  Handles = {p, q}
  Elements <- OptionalBits
  Nullopt <- MinusOne
  MaxValues = 2
  MaxRows = 2
  MaxFailures = 0
VIEW Storage
INVARIANTS
  TypeOK
  OffsetsWellFormed
PROPERTIES
  ImplementsRaggedRows
