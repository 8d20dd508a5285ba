SPECIFICATION Spec
CONSTANTS
  Algorithm = {"xxhash_32"}
  Size <- MCSize
  HalfBytes = 1
  P2 = 3
  Radix = 8
  SizeMod = 64
  Input <- MCInput
  Key <- MCKey
  Seed <- MCAllSeeds
  MaxBytes = 5
  MaxResults = 1
  Garbage = Garbage
  NoDigest = NoDigest
INVARIANTS
  SeedsDiffer
CHECK_DEADLOCK FALSE
