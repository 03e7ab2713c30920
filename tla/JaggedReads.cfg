\* Indexing after an allocation failed.
SPECIFICATION Spec
CONSTANTS
  Handles = {p, q}
  Elements = {0, 1}
  MaxValues = 2
  MaxRows = 2
  MaxFailures = 1
INVARIANTS
  ReadsStayInBounds
