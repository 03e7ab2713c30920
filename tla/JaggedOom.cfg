\* jagged::Array when any allocation may fail.
SPECIFICATION RowSpec
CONSTANTS
  Handles = {p, q}
  Elements <- OptionalBits
  Nullopt <- MinusOne
  MaxValues = 2
  MaxRows = 2
  MaxFailures = 2
VIEW Storage
PROPERTIES
  DamageIsReported
  AppendKeepsRows
  TornArraysAnswerByTheirRows
