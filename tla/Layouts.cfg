\* Every class of layout in every nesting of two, with two selections after each other.
SPECIFICATION Spec
CONSTANTS
  ByteBits = 2
  SizeMax = 255
  True = TRUE
  Leaves <- MCLeaves
  Offsets <- MCOffsets
  Ranges <- MCRanges
  Sizes <- MCSizes
  Indexes <- MCIndexes
  Presents <- MCPresents
  Names <- MCNames
  Tags <- MCTags
  Counts <- MCCounts
  RowItems <- MCRowItems
  ColumnItems <- MCColumnItems
  Masks <- MCMasks
  Projections <- MCProjections
  MaxWraps = 2
  MaxSelections = 2
\* The caller stops when both bounds are used up.
CHECK_DEADLOCK FALSE
VIEW Held
INVARIANTS
  TypeOK
  RowsAreCounted
PROPERTIES
  ImplementsNestedLists
  ListsAnswer
