\* Every slice and every short integer array of a small std::ptrdiff_t.
SPECIFICATION FairSpec
CONSTANTS
  Top = 7
  MaxLength = 4
  MaxIntegers = 2
CHECK_DEADLOCK FALSE
INVARIANTS
  TypeOK
  SliceSelectsAsked
  IntegersResolve
PROPERTIES
  CallEnds
