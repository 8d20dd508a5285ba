SPECIFICATION Spec
CONSTANTS
  N = 4
  L = 2
  ByteBits = 2
  Input <- MCInput
  Seed <- MCSeed
  MaxBytes = 16
  NoDigest = NoDigest
INVARIANTS
  TypeOK
  CountersAgree
  SeedsDiffer
PROPERTIES
  ResultLeavesNothing
  ImplementsHashAlgorithm
CHECK_DEADLOCK FALSE
