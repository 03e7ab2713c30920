\* A flat boolean mask array on every class of layout.
SPECIFICATION Spec
CONSTANTS
  ByteBits = 2
  SizeMax = 255
  True = TRUE
  Leaves <- MCLeaves
  Offsets <- MCOffsets
  Ranges <- MCRanges
  Sizes <- MCSizes
  Indexes <- MCIndexes
  Presents <- MCPresents
  Names <- MCNames
  Tags <- MCTags
  Counts <- MCCounts
  RowItems <- MCRowItems
  ColumnItems <- MCColumnItems
  Masks <- MCMasks
  Projections <- MCProjections
  MaxWraps = 1
  MaxSelections = 1
\* The caller stops when both bounds are used up.
CHECK_DEADLOCK FALSE
VIEW Held
PROPERTIES
  MasksAreUniform
