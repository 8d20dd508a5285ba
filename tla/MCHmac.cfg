SPECIFICATION Spec
CONSTANTS
  block_size = 3
  result_size = 2
  Keys <- MCKeys
  Lengths = {0, 1, 3}
  MaxBytes = 6
  MaxResults = 2
  NoDigest = NoDigest
INVARIANTS
  TypeOK
  SameInstanceKeys
PROPERTIES
  FirstIsRFC2104
  ImplementsHashAlgorithm
CHECK_DEADLOCK FALSE
