\* Every class of layout on its way through memory, JSON and binary, with anything that may
\* happen to it there.
SPECIFICATION Spec
CONSTANTS
  ByteBits = 4
  ByteSize = 16
  WordBytes = 2
  SizeMax = 255
  True = 1
  Nodes <- MCNodes
  Letters <- MCLetters
  Arrays <- MCArrays
  Fragile <- MCFragile
  Handmade <- MCHandmade
  BytesPut <- MCBytesPut
  Tokens <- MCTokens
  FormEdits <- MCFormEdits
  NumbersPut <- MCNumbersPut
  MaxDamages = 1
  MaxEdits = 2
\* The exchange ends when the array is received or lost.
CHECK_DEADLOCK FALSE
INVARIANTS
  TypeOK
  ReadsStayInside
  ComesBack
  FormDecides
  BinarySaysTheBuffers
  JsonSaysTheForm
