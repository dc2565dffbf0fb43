SPECIFICATION Spec
CONSTANTS
  None = None
  Key <- MCKey
  Streams <- MCStreams
  MaxExamples = 2
INVARIANTS
  TypeOK
  CountsExact
  VerdictSound
  NoStreamLeft
PROPERTIES
  Termination
