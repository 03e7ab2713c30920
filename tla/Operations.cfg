\* Every function once, on arrays of every kind, ragged, missing, empty and named.
SPECIFICATION Spec
CONSTANTS
  ByteBits = 8
  SizeMax = 255
  True <- MCTrue
  MaxContents = 3
  Arrays <- MCArrays
  Others <- MCOthers
  Conditions <- MCConditions
  Fillers <- MCFillers
  Axes <- MCAxes
  Targets <- MCTargets
  Reducers <- MCReducers
  Selections <- MCSelections
  Tallies <- MCTallies
  Questions <- MCQuestions
  Separators <- MCSeparators
  MaxText = 9
  MaxCalls = 1
\* The caller stops when he has his last result.
CHECK_DEADLOCK FALSE
VIEW Held
INVARIANTS
  TypeOK
  ValuesSurvive
  NamedAxesFollow
PROPERTIES
  SortsEveryLine
  ArgsortPointsAtRows
  ReducesEveryLine
  ActsOnItsAxis
  LeavesStayInPlace
  BroadcastKeepsPlaces
  KernelsAgree
  SlicesAgree
  FieldsComeBack
  NoInputIsOverruled
